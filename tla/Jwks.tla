-------------------------------- MODULE Jwks --------------------------------
(***************************************************************************)
(* The keys that verify JSON web tokens                                    *)
(* (crates/macp-auth/src/auth/resolvers/jwt_bearer.rs): the cache with its *)
(* time to live, the single-flight refresh, the stale keys served while    *)
(* the endpoint fails, and the choice of the keys a token is tried with.   *)
(*                                                                         *)
(* The endpoint is the environment: it rotates its keys and it may fail.   *)
(* Its answer is the set of keys it held at some moment of the fetch,      *)
(* which the client's timeout bounds; a JWKS that cannot be parsed, or     *)
(* holds no usable key, is a failed fetch.  An inline JWKS is a cache that *)
(* is always fresh.                                                        *)
(***************************************************************************)
EXTENDS Integers, FiniteSets

CONSTANTS
    Keys,           \* the keys the endpoint publishes in turn
    Tokens,         \* the tokens they sign
    Callers,        \* the requests that authenticate at once
    Ttl,            \* cache_ttl
    Grace,          \* STALE_GRACE
    FetchTimeout,   \* the timeout of the HTTP client
    MaxClock,       \* bound: the instants the clock shows
    MaxRotations    \* bound: how often the endpoint changes its keys

\* A token: the key that signed it, the key its header names in kid ("none"
\* when it names none), whether its algorithm is configured, and whether its
\* issuer, audience and expiry hold.
ASSUME JwksConstants ==
    /\ Tokens \subseteq
        [signer : Keys, kid : Keys \cup {"none"}, alg : BOOLEAN, claims : BOOLEAN]
    /\ Ttl \in Nat /\ Grace \in Nat \ {0} /\ FetchTimeout \in Nat
    /\ "none" \notin Callers
    /\ MaxClock \in Nat /\ MaxRotations \in Nat

VARIABLES
    now,         \* Instant::now()
    published,   \* the keys the endpoint holds
    removed,     \* history: when a key was withdrawn; -1 while it is not
    rotations,   \* how often the endpoint changed its keys
    cached,      \* cached_keys
    refresher,   \* the caller that holds refresh_lock, or "none"
    caller,      \* where each caller stands in get_keys
    outcome      \* history: what the last call resolved to

jwksVars == <<now, published, removed, rotations, cached, refresher, caller, outcome>>

Idle == [pc |-> "idle"]

Nothing == [kind |-> "nothing"]

JwksInit ==
    /\ now = 0
    /\ published \in {{k} : k \in Keys}
    /\ removed = [k \in Keys |-> -1]
    /\ rotations = 0
    /\ cached = [keys |-> {}, fetched_at |-> -1]
    /\ refresher = "none"
    /\ caller = [c \in Callers |-> Idle]
    /\ outcome = Nothing

-----------------------------------------------------------------------------
(* The choice of the keys, and the verdict on a token.                     *)

\* The keys resolve tries: the one the token names, if the set holds it,
\* and otherwise every key.
Selected(keys, token) == IF token.kid \in keys THEN {token.kid} ELSE keys

\* resolve, once it holds the keys: the algorithm, then the first selected
\* key under which the token decodes.
Verify(keys, token) ==
    IF token.alg /\ token.claims /\ token.signer \in Selected(keys, token)
    THEN "identity" ELSE "invalid"

-----------------------------------------------------------------------------
(* get_keys.                                                               *)

HasKeys == cached.fetched_at >= 0

Fresh == HasKeys /\ now - cached.fetched_at < Ttl

\* Keys served for as long as the endpoint fails.
ServableForever == HasKeys

\* What may still be served when a fetch failed.
Servable == HasKeys /\ now - cached.fetched_at < Ttl + Grace

Resolves(c, keys) ==
    /\ outcome' = [kind |-> Verify(keys, caller[c].token), token |-> caller[c].token]
    /\ caller' = [caller EXCEPT ![c] = Idle]

\* resolve and the first look at the cache.
Resolve(c, token) ==
    /\ caller[c] = Idle
    /\ IF Fresh
       THEN /\ outcome' = [kind |-> Verify(cached.keys, token), token |-> token]
            /\ UNCHANGED caller
       ELSE /\ caller' = [caller EXCEPT ![c] = [pc |-> "waits", token |-> token]]
            /\ outcome' = Nothing
    /\ UNCHANGED <<now, published, removed, rotations, cached, refresher>>

\* refresh_lock taken, with no second look at the cache.
RefreshUnchecked(c) ==
    /\ caller[c].pc = "waits"
    /\ refresher = "none"
    /\ refresher' = c
    /\ caller' = [caller EXCEPT ![c] = [pc |-> "fetches", token |-> caller[c].token,
                                        since |-> now, seen |-> published]]
    /\ outcome' = Nothing
    /\ UNCHANGED <<now, published, removed, rotations, cached>>

\* refresh_lock taken and the cache looked at again: the lock is released at
\* once when another caller refreshed it, else the fetch begins.
Refresh(c) ==
    /\ caller[c].pc = "waits"
    /\ refresher = "none"
    /\ IF Fresh
       THEN Resolves(c, cached.keys) /\ UNCHANGED refresher
       ELSE /\ refresher' = c
            /\ caller' = [caller EXCEPT ![c] = [pc |-> "fetches", token |-> caller[c].token,
                                                since |-> now, seen |-> published]]
            /\ outcome' = Nothing
    /\ UNCHANGED <<now, published, removed, rotations, cached>>

\* The endpoint answers with the keys it held when it answered.
Fetched(c) ==
    /\ caller[c].pc = "fetches"
    /\ caller[c].seen # {}
    /\ cached' = [keys |-> caller[c].seen, fetched_at |-> now]
    /\ Resolves(c, caller[c].seen)
    /\ refresher' = "none"
    /\ UNCHANGED <<now, published, removed, rotations>>

\* The fetch fails, or runs into the timeout.
FetchFailed(c) ==
    /\ caller[c].pc = "fetches"
    /\ IF Servable
       THEN Resolves(c, cached.keys)
       ELSE /\ outcome' = [kind |-> "unavailable", token |-> caller[c].token]
            /\ caller' = [caller EXCEPT ![c] = Idle]
    /\ refresher' = "none"
    /\ UNCHANGED <<now, published, removed, rotations, cached>>

\* The request is dropped, and with it the guard of refresh_lock.
Dropped(c) ==
    /\ caller[c] # Idle
    /\ caller' = [caller EXCEPT ![c] = Idle]
    /\ refresher' = IF refresher = c THEN "none" ELSE refresher
    /\ outcome' = Nothing
    /\ UNCHANGED <<now, published, removed, rotations, cached>>

-----------------------------------------------------------------------------
(* The environment.                                                        *)

\* The endpoint publishes another key, beside the old one or in its place.
Rotate(k, keep) ==
    /\ rotations < MaxRotations
    /\ removed[k] = -1 /\ k \notin published
    /\ published' = IF keep THEN published \cup {k} ELSE {k}
    /\ removed' = [x \in Keys |-> IF x \in published \ published' THEN now ELSE removed[x]]
    /\ rotations' = rotations + 1
    /\ outcome' = Nothing
    /\ UNCHANGED <<now, cached, refresher, caller>>

\* The answer on its way was given after the keys changed.
AnsweredLater(c) ==
    /\ caller[c].pc = "fetches"
    /\ caller[c].seen # published
    /\ caller' = [caller EXCEPT ![c].seen = published]
    /\ outcome' = Nothing
    /\ UNCHANGED <<now, published, removed, rotations, cached, refresher>>

ClockTick ==
    /\ now < MaxClock
    /\ \A c \in Callers : caller[c].pc = "fetches" => now - caller[c].since < FetchTimeout
    /\ now' = now + 1
    /\ outcome' = Nothing
    /\ UNCHANGED <<published, removed, rotations, cached, refresher, caller>>

JwksNext ==
    \/ \E c \in Callers :
        \/ \E token \in Tokens : Resolve(c, token)
        \/ Refresh(c) \/ Fetched(c) \/ FetchFailed(c) \/ Dropped(c) \/ AnsweredLater(c)
    \/ \E k \in Keys, keep \in BOOLEAN : Rotate(k, keep)
    \/ ClockTick

JwksSpec == JwksInit /\ [][JwksNext]_jwksVars

-----------------------------------------------------------------------------

\* A withdrawn key stops verifying (the comment on STALE_GRACE): no token is
\* accepted under a key that left the endpoint as long ago as the time to
\* live, the grace and one fetch together.
Withdrawn ==
    outcome.kind = "identity" /\ removed[outcome.token.signer] >= 0 =>
        now - removed[outcome.token.signer] < Ttl + Grace + FetchTimeout

\* An outage shorter than the grace refuses nobody: a call fails for want of
\* keys only when no fetch succeeded within the time to live and the grace.
OutageTolerated ==
    outcome.kind = "unavailable" =>
        cached.fetched_at < 0 \/ now - cached.fetched_at >= Ttl + Grace

\* The keys follow the endpoint (get_keys), through rotations, failed
\* fetches and callers that are dropped while they refresh.
KeysFollowEndpoint == Withdrawn /\ OutageTolerated

\* No thundering herd (refresh_lock): a fetch begins only when no other is
\* under way and the keys are past their time to live, so a caller that
\* waited for another's fetch does not repeat one that succeeded.
FetchesSpaced ==
    [][\A c \in Callers :
        caller[c].pc # "fetches" /\ caller'[c].pc = "fetches" =>
            ~Fresh /\ \A d \in Callers : caller[d].pc # "fetches"]_jwksVars
=============================================================================
