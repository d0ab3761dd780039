--------------------------- MODULE GatewayProofs ----------------------------
(***************************************************************************)
(* Proofs about what stands between the network and the kernel: the keys   *)
(* that verify tokens (Jwks), for every set of callers, keys and tokens,   *)
(* every time to live, every grace and every timeout of a fetch; the rate  *)
(* limits (RateLimit), for every set of senders and requests, every limit, *)
(* window and wait; and the entrances themselves (Ingress), for every set  *)
(* of clients, identities, modes and configurations, every plan of calls   *)
(* and every request whose verdicts are compared; and the receipts that    *)
(* leave it (Receipts), for every set of sessions and Commitments and      *)
(* every sequence of environments the runtime is started with.             *)
(***************************************************************************)
EXTENDS RateLimit, Jwks, Ingress, Receipts, WellFoundedInduction, TLAPS

-----------------------------------------------------------------------------
(* The keys.  The argument follows a key from the endpoint into a verdict. *)
(* A fetch that began at some instant can only have seen keys that were    *)
(* withdrawn later, if at all (SeenInv); it ends within its timeout, so    *)
(* the cache holds only keys that were withdrawn at most a timeout before  *)
(* the cache was filled (CachedInv); and the cache is used for the time to *)
(* live and the grace, and no longer.                                      *)

Waits == [pc : {"waits"}, token : Tokens]

Fetches == [pc : {"fetches"}, token : Tokens, since : Nat, seen : SUBSET Keys]

JwksShape ==
    /\ now \in Nat
    /\ published \subseteq Keys
    /\ removed \in [Keys -> Nat \cup {-1}]
    /\ cached \in [keys : SUBSET Keys, fetched_at : Nat \cup {-1}]
    /\ caller \in [Callers -> {Idle} \cup Waits \cup Fetches]

\* A key that is published was never withdrawn, and none in the future.
RemovedInv ==
    \A k \in Keys : removed[k] <= now /\ (k \in published => removed[k] = -1)

\* The fetch of a caller that fetches is within its timeout and answered
\* with keys that the endpoint held after it began.
SeenInv ==
    \A c \in Callers :
        caller[c].pc = "fetches" =>
            /\ caller[c].since <= now
            /\ now - caller[c].since <= FetchTimeout
            /\ \A k \in caller[c].seen : removed[k] >= 0 => removed[k] >= caller[c].since

\* The cache holds keys that were withdrawn at most a timeout before it was
\* filled, and is not from the future.
CachedInv ==
    /\ cached.fetched_at <= now
    /\ \A k \in cached.keys :
        removed[k] >= 0 => removed[k] >= cached.fetched_at - FetchTimeout

\* Who fetches holds refresh_lock.
LockInv == \A c \in Callers : caller[c].pc = "fetches" => refresher = c

JwksInv ==
    JwksShape /\ RemovedInv /\ SeenInv /\ CachedInv /\ LockInv /\ KeysFollowEndpoint

\* A fresh process has nothing cached and nobody fetching.
LEMMA JwksBegins == JwksInit => JwksInv
BY JwksConstants
   DEF JwksInit, JwksInv, JwksShape, RemovedInv, SeenInv, CachedInv, LockInv, Idle, Nothing,
       KeysFollowEndpoint, Withdrawn, OutageTolerated

\* A token is accepted under a key that was tried.
LEMMA AcceptedUnderKey ==
    ASSUME NEW keys, NEW token, Verify(keys, token) = "identity"
    PROVE  token.signer \in keys
BY DEF Verify, Selected

\* A verdict under the cached keys is sound for as long as the cache is
\* served, fresh or stale.
LEMMA CachedVerdict ==
    ASSUME JwksShape, CachedInv, NEW token \in Tokens, Fresh \/ Servable,
           Verify(cached.keys, token) = "identity", removed[token.signer] >= 0
    PROVE  now - removed[token.signer] < Ttl + Grace + FetchTimeout
<1>1. token.signer \in cached.keys /\ token.signer \in Keys
  BY AcceptedUnderKey, JwksConstants
<1>2. removed[token.signer] >= cached.fetched_at - FetchTimeout
  BY <1>1 DEF CachedInv
<1>3. now - cached.fetched_at < Ttl + Grace
  BY JwksConstants DEF Fresh, Servable, JwksShape
<1> QED
  BY <1>1, <1>2, <1>3, JwksConstants DEF JwksShape

\* A caller that looks at the cache for the first time.
LEMMA ResolveStep ==
    ASSUME JwksInv, NEW c \in Callers, NEW token \in Tokens, Resolve(c, token)
    PROVE  JwksInv'
<1>1. UNCHANGED <<now, published, removed, rotations, cached, refresher>>
  BY DEF Resolve
<1>2. JwksShape' /\ \A d \in Callers : caller'[d].pc = "fetches" => caller'[d] = caller[d]
  BY <1>1 DEF Resolve, JwksInv, JwksShape, Waits, Idle
<1>3. RemovedInv' /\ SeenInv' /\ CachedInv' /\ LockInv'
  BY <1>1, <1>2 DEF JwksInv, RemovedInv, SeenInv, CachedInv, LockInv
<1>4. KeysFollowEndpoint'
  <2>1. CASE Fresh
    <3>1. outcome' = [kind |-> Verify(cached.keys, token), token |-> token]
      BY <2>1 DEF Resolve
    <3>2. Verify(cached.keys, token) \in {"identity", "invalid"}
      BY DEF Verify
    <3> QED
      BY <1>1, <2>1, <3>1, <3>2, CachedVerdict
         DEF JwksInv, KeysFollowEndpoint, Withdrawn, OutageTolerated
  <2>2. CASE ~Fresh
    BY <2>2 DEF Resolve, Nothing, KeysFollowEndpoint, Withdrawn, OutageTolerated
  <2> QED
    BY <2>1, <2>2
<1> QED
  BY <1>2, <1>3, <1>4 DEF JwksInv

\* A caller that took refresh_lock: another one's keys, or a fetch of its own.
LEMMA RefreshStep ==
    ASSUME JwksInv, NEW c \in Callers, Refresh(c)
    PROVE  JwksInv'
<1>1. UNCHANGED <<now, published, removed, rotations, cached>> /\ caller[c].pc = "waits"
  BY DEF Refresh
<1>2. caller[c].token \in Tokens
  BY <1>1 DEF JwksInv, JwksShape, Idle, Waits, Fetches
<1>3. CASE Fresh
  <2>1. /\ outcome' = [kind |-> Verify(cached.keys, caller[c].token), token |-> caller[c].token]
        /\ caller' = [caller EXCEPT ![c] = Idle] /\ refresher' = refresher
    BY <1>3 DEF Refresh, Resolves
  <2>2. JwksShape' /\ RemovedInv' /\ SeenInv' /\ CachedInv' /\ LockInv'
    BY <1>1, <2>1 DEF JwksInv, JwksShape, RemovedInv, SeenInv, CachedInv, LockInv, Idle
  <2>3. Verify(cached.keys, caller[c].token) \in {"identity", "invalid"}
    BY DEF Verify
  <2>4. KeysFollowEndpoint'
    BY <1>1, <1>2, <1>3, <2>1, <2>3, CachedVerdict
       DEF JwksInv, KeysFollowEndpoint, Withdrawn, OutageTolerated
  <2> QED
    BY <2>2, <2>4 DEF JwksInv
<1>4. CASE ~Fresh
  <2> DEFINE fetch == [pc |-> "fetches", token |-> caller[c].token,
                       since |-> now, seen |-> published]
  <2>1. /\ refresher = "none" /\ refresher' = c /\ outcome' = Nothing
        /\ caller' = [caller EXCEPT ![c] = fetch]
    BY <1>4 DEF Refresh
  <2>2. JwksShape'
    BY <1>1, <1>2, <2>1 DEF JwksInv, JwksShape, Fetches
  <2>3. \A d \in Callers : caller[d].pc # "fetches"
    BY <2>1, JwksConstants DEF JwksInv, LockInv
  <2>4. LockInv'
    BY <2>1, <2>3 DEF JwksInv, JwksShape, LockInv
  <2>5. SeenInv'
    <3> SUFFICES ASSUME NEW d \in Callers, caller'[d].pc = "fetches"
                 PROVE  /\ caller'[d].since <= now
                        /\ now - caller'[d].since <= FetchTimeout
                        /\ \A k \in caller'[d].seen : removed[k] >= 0 => removed[k] >= caller'[d].since
      BY <1>1 DEF SeenInv
    <3>1. caller'[d].since = now /\ caller'[d].seen = published
      BY <2>1, <2>3 DEF JwksInv, JwksShape
    <3> QED
      BY <3>1, JwksConstants DEF JwksInv, JwksShape, RemovedInv
  <2>6. RemovedInv' /\ CachedInv' /\ KeysFollowEndpoint'
    BY <1>1, <2>1 DEF JwksInv, RemovedInv, CachedInv, Nothing, KeysFollowEndpoint, Withdrawn,
                      OutageTolerated
  <2> QED
    BY <2>2, <2>4, <2>5, <2>6 DEF JwksInv
<1> QED
  BY <1>3, <1>4

\* A fetch succeeds: the cache is filled with what the endpoint answered.
LEMMA FetchedStep ==
    ASSUME JwksInv, NEW c \in Callers, Fetched(c)
    PROVE  JwksInv'
<1> DEFINE seen == caller[c].seen
           token == caller[c].token
<1>1. /\ caller[c].pc = "fetches" /\ caller' = [caller EXCEPT ![c] = Idle] /\ refresher' = "none"
      /\ cached' = [keys |-> seen, fetched_at |-> now]
      /\ outcome' = [kind |-> Verify(seen, token), token |-> token]
      /\ UNCHANGED <<now, published, removed, rotations>>
  BY DEF Fetched, Resolves
<1>2. caller[c] \in Fetches
  BY <1>1 DEF JwksInv, JwksShape, Idle, Waits, Fetches
<1>3. seen \subseteq Keys /\ token \in Tokens /\ caller[c].since \in Nat
  BY <1>2 DEF Fetches
<1>4. JwksShape' /\ RemovedInv'
  BY <1>1, <1>3 DEF JwksInv, JwksShape, RemovedInv
<1>5. LockInv' /\ SeenInv'
  BY <1>1 DEF JwksInv, JwksShape, LockInv, SeenInv, Idle
<1>6. \A k \in seen : removed[k] >= 0 => now - removed[k] <= FetchTimeout
  <2> SUFFICES ASSUME NEW k \in seen, removed[k] >= 0 PROVE now - removed[k] <= FetchTimeout
    OBVIOUS
  <2>1. removed[k] >= caller[c].since /\ now - caller[c].since <= FetchTimeout
    BY <1>1 DEF JwksInv, SeenInv
  <2>2. removed[k] \in Int /\ now \in Nat
    BY <1>3 DEF JwksInv, JwksShape
  <2> QED
    BY <1>3, <2>1, <2>2, JwksConstants
<1>7. CachedInv'
  <2>1. \A k \in seen : removed[k] >= 0 => removed[k] >= now - FetchTimeout
    BY <1>3, <1>6, JwksConstants DEF JwksInv, JwksShape
  <2> QED
    BY <1>1, <2>1 DEF JwksInv, JwksShape, CachedInv
<1>8. KeysFollowEndpoint'
  <2>1. Verify(seen, token) \in {"identity", "invalid"}
    BY DEF Verify
  <2>2. ASSUME Verify(seen, token) = "identity", removed[token.signer] >= 0
        PROVE  now - removed[token.signer] < Ttl + Grace + FetchTimeout
    <3>1. token.signer \in seen /\ removed[token.signer] \in Int
      BY <1>3, <2>2, AcceptedUnderKey DEF JwksInv, JwksShape
    <3> QED
      BY <1>6, <2>2, <3>1, JwksConstants DEF JwksInv, JwksShape
  <2> QED
    BY <1>1, <2>1, <2>2 DEF KeysFollowEndpoint, Withdrawn, OutageTolerated
<1> QED
  BY <1>4, <1>5, <1>7, <1>8 DEF JwksInv

\* A fetch fails: the stale keys, while they may be served, or no verdict.
LEMMA FetchFailedStep ==
    ASSUME JwksInv, NEW c \in Callers, FetchFailed(c)
    PROVE  JwksInv'
<1> DEFINE token == caller[c].token
<1>1. /\ caller[c].pc = "fetches" /\ caller' = [caller EXCEPT ![c] = Idle] /\ refresher' = "none"
      /\ UNCHANGED <<now, published, removed, rotations, cached>>
  BY DEF FetchFailed, Resolves
<1>2. token \in Tokens
  BY <1>1 DEF JwksInv, JwksShape, Idle, Waits, Fetches
<1>3. JwksShape' /\ RemovedInv' /\ CachedInv' /\ LockInv' /\ SeenInv'
  BY <1>1 DEF JwksInv, JwksShape, RemovedInv, CachedInv, LockInv, SeenInv, Idle
<1>4. KeysFollowEndpoint'
  <2>1. CASE Servable
    <3>1. outcome' = [kind |-> Verify(cached.keys, token), token |-> token]
      BY <2>1 DEF FetchFailed, Resolves
    <3>2. Verify(cached.keys, token) \in {"identity", "invalid"}
      BY DEF Verify
    <3> QED
      BY <1>1, <1>2, <2>1, <3>1, <3>2, CachedVerdict
         DEF JwksInv, KeysFollowEndpoint, Withdrawn, OutageTolerated
  <2>2. CASE ~Servable
    <3>1. outcome' = [kind |-> "unavailable", token |-> token]
      BY <2>2 DEF FetchFailed
    <3> QED
      BY <1>1, <2>2, <3>1, JwksConstants
         DEF JwksInv, JwksShape, Servable, HasKeys, KeysFollowEndpoint, Withdrawn, OutageTolerated
  <2> QED
    BY <2>1, <2>2
<1> QED
  BY <1>3, <1>4 DEF JwksInv

\* A caller is dropped, and with it the lock it may hold.
LEMMA DroppedStep ==
    ASSUME JwksInv, NEW c \in Callers, Dropped(c)
    PROVE  JwksInv'
<1>1. /\ caller' = [caller EXCEPT ![c] = Idle]
      /\ refresher' = (IF refresher = c THEN "none" ELSE refresher)
      /\ outcome' = Nothing /\ UNCHANGED <<now, published, removed, rotations, cached>>
  BY DEF Dropped
<1> QED
  BY <1>1 DEF JwksInv, JwksShape, RemovedInv, CachedInv, LockInv, SeenInv, Idle, Nothing,
              KeysFollowEndpoint, Withdrawn, OutageTolerated

\* The answer is given after the keys changed.
LEMMA AnsweredLaterStep ==
    ASSUME JwksInv, NEW c \in Callers, AnsweredLater(c)
    PROVE  JwksInv'
<1>1. /\ caller[c].pc = "fetches" /\ caller' = [caller EXCEPT ![c].seen = published]
      /\ outcome' = Nothing
      /\ UNCHANGED <<now, published, removed, rotations, cached, refresher>>
  BY DEF AnsweredLater
<1>2. caller[c] \in Fetches
  BY <1>1 DEF JwksInv, JwksShape, Idle, Waits, Fetches
<1>3. /\ caller'[c] = [caller[c] EXCEPT !.seen = published]
      /\ \A d \in Callers \ {c} : caller'[d] = caller[d]
      /\ caller' \in [Callers -> {Idle} \cup Waits \cup Fetches]
  <2>1. [caller[c] EXCEPT !.seen = published] \in Fetches
    BY <1>2 DEF Fetches, JwksInv, JwksShape
  <2> QED
    BY <1>1, <2>1 DEF JwksInv, JwksShape
<1>4. /\ caller'[c].pc = "fetches" /\ caller'[c].since = caller[c].since
      /\ caller'[c].seen = published
  BY <1>2, <1>3 DEF Fetches
<1>5. SeenInv'
  <2> SUFFICES ASSUME NEW d \in Callers, caller'[d].pc = "fetches"
               PROVE  /\ caller'[d].since <= now
                      /\ now - caller'[d].since <= FetchTimeout
                      /\ \A k \in caller'[d].seen : removed[k] >= 0 => removed[k] >= caller'[d].since
    BY <1>1 DEF SeenInv
  <2>1. CASE d = c
    BY <1>1, <1>4, <2>1 DEF JwksInv, SeenInv, RemovedInv, JwksShape
  <2>2. CASE d # c
    BY <1>3, <2>2 DEF JwksInv, SeenInv
  <2> QED
    BY <2>1, <2>2
<1>6. LockInv'
  BY <1>1, <1>3 DEF JwksInv, LockInv
<1> QED
  BY <1>1, <1>3, <1>5, <1>6
     DEF JwksInv, JwksShape, RemovedInv, CachedInv, Nothing, KeysFollowEndpoint, Withdrawn,
         OutageTolerated

\* The endpoint publishes another key and may withdraw the others.
LEMMA RotateStep ==
    ASSUME JwksInv, NEW k \in Keys, NEW keep \in BOOLEAN, Rotate(k, keep)
    PROVE  JwksInv'
<1>1. /\ outcome' = Nothing /\ UNCHANGED <<now, cached, refresher, caller>>
      /\ removed[k] = -1
      /\ published' \subseteq Keys /\ published' \subseteq published \cup {k}
  BY DEF Rotate, JwksInv, JwksShape
<1>2. \A x \in Keys : removed'[x] = IF x \in published \ published' THEN now ELSE removed[x]
  BY DEF Rotate
<1>3. JwksShape'
  BY <1>1 DEF Rotate, JwksInv, JwksShape
<1>4. RemovedInv'
  BY <1>1, <1>2 DEF JwksInv, JwksShape, RemovedInv
<1>5. SeenInv'
  <2> SUFFICES ASSUME NEW d \in Callers, caller[d].pc = "fetches", NEW x \in caller[d].seen,
                      removed'[x] >= 0
               PROVE  removed'[x] >= caller[d].since
    BY <1>1 DEF JwksInv, SeenInv
  <2>1. x \in Keys /\ caller[d].since <= now
    BY DEF JwksInv, JwksShape, SeenInv, Idle, Waits, Fetches
  <2> QED
    BY <1>2, <2>1 DEF JwksInv, SeenInv
<1>6. CachedInv'
  <2> SUFFICES ASSUME NEW x \in cached.keys, removed'[x] >= 0
               PROVE  removed'[x] >= cached.fetched_at - FetchTimeout
    BY <1>1 DEF JwksInv, CachedInv
  <2>1. x \in Keys /\ cached.fetched_at <= now /\ now >= cached.fetched_at - FetchTimeout
    BY JwksConstants DEF JwksInv, JwksShape, CachedInv
  <2> QED
    BY <1>2, <2>1 DEF JwksInv, CachedInv
<1> QED
  BY <1>1, <1>3, <1>4, <1>5, <1>6
     DEF JwksInv, LockInv, Nothing, KeysFollowEndpoint, Withdrawn, OutageTolerated

\* Time passes, but no fetch outlasts its timeout.
LEMMA ClockTickStep ==
    ASSUME JwksInv, ClockTick
    PROVE  JwksInv'
<1>1. /\ now' = now + 1 /\ outcome' = Nothing
      /\ UNCHANGED <<published, removed, rotations, cached, refresher, caller>>
  BY DEF ClockTick
<1>2. now \in Nat /\ now <= now + 1
  BY DEF JwksInv, JwksShape
<1>3. JwksShape' /\ RemovedInv'
  BY <1>1, <1>2 DEF JwksInv, JwksShape, RemovedInv
<1>4. SeenInv'
  <2> SUFFICES ASSUME NEW d \in Callers, caller[d].pc = "fetches"
               PROVE  /\ caller[d].since <= now' /\ now' - caller[d].since <= FetchTimeout
                      /\ \A k \in caller[d].seen : removed[k] >= 0 => removed[k] >= caller[d].since
    BY <1>1 DEF SeenInv
  <2>1. caller[d].since \in Nat
    BY DEF JwksInv, JwksShape, Idle, Waits, Fetches
  <2>2. caller[d].since <= now + 1 /\ now + 1 - caller[d].since <= FetchTimeout
    BY <1>2, <2>1, JwksConstants DEF JwksInv, SeenInv, ClockTick
  <2>3. caller[d].since <= now' /\ now' - caller[d].since <= FetchTimeout
    BY <1>1, <1>2, <2>1, <2>2, JwksConstants
  <2> QED
    BY <2>3 DEF JwksInv, SeenInv
<1>5. CachedInv'
  BY <1>1, <1>2 DEF JwksInv, JwksShape, CachedInv
<1> QED
  BY <1>1, <1>3, <1>4, <1>5
     DEF JwksInv, LockInv, Nothing, KeysFollowEndpoint, Withdrawn, OutageTolerated

\* Every step of the callers, the endpoint and the clock keeps the invariant.
LEMMA JwksStep == JwksInv /\ [JwksNext]_jwksVars => JwksInv'
<1> SUFFICES ASSUME JwksInv, [JwksNext]_jwksVars PROVE JwksInv'
  OBVIOUS
<1>1. CASE UNCHANGED jwksVars
  BY <1>1 DEF jwksVars, JwksInv, JwksShape, RemovedInv, SeenInv, CachedInv, LockInv,
              KeysFollowEndpoint, Withdrawn, OutageTolerated
<1>2. CASE JwksNext
  BY <1>2, ResolveStep, RefreshStep, FetchedStep, FetchFailedStep, DroppedStep,
     AnsweredLaterStep, RotateStep, ClockTickStep DEF JwksNext
<1> QED
  BY <1>1, <1>2

\* A withdrawn key stops verifying, and an outage shorter than the grace
\* refuses nobody (get_keys), for every number of callers and keys and
\* however fetches, rotations and dropped requests interleave.
THEOREM KeysTheorem == JwksSpec => []KeysFollowEndpoint
<1>1. JwksInv => KeysFollowEndpoint
  BY DEF JwksInv
<1> QED
  BY JwksBegins, JwksStep, <1>1, PTL DEF JwksSpec

\* No thundering herd (refresh_lock): of any number of callers one fetches,
\* and only when the keys are past their time to live.
THEOREM FetchesTheorem == JwksSpec => FetchesSpaced
<1> DEFINE Spaced == \A c \in Callers :
        caller[c].pc # "fetches" /\ caller'[c].pc = "fetches" =>
            ~Fresh /\ \A d \in Callers : caller[d].pc # "fetches"
<1>1. JwksInv /\ [JwksNext]_jwksVars => [Spaced]_jwksVars
  <2> SUFFICES ASSUME JwksInv, JwksNext, NEW c \in Callers,
                      caller[c].pc # "fetches", caller'[c].pc = "fetches"
               PROVE  ~Fresh /\ \A d \in Callers : caller[d].pc # "fetches"
    OBVIOUS
  <2>1. Refresh(c) /\ ~Fresh
    BY DEF JwksNext, JwksInv, JwksShape, Resolve, Refresh, Resolves, Fetched, FetchFailed,
           Dropped, AnsweredLater, Rotate, ClockTick, Idle
  <2> QED
    BY <2>1, JwksConstants DEF Refresh, JwksInv, LockInv
<1> QED
  BY JwksBegins, JwksStep, <1>1, PTL DEF JwksSpec, FetchesSpaced

-----------------------------------------------------------------------------
(* The rate limits.  The deque of a sender is the tail of the requests it  *)
(* had let through: pop_front and the sweep drop from its front or drop it *)
(* whole.  What they drop is older than a window but for one wait (the     *)
(* sweep looks at the back of the deque, and an instant in front of it may *)
(* be later by a wait), and what is let through afterwards is at most one  *)
(* wait behind the clock.  So of two requests that lie the limit apart the *)
(* first was dropped before the second came.                               *)

\* queue is the last part of all.
IsTailOf(queue, all) ==
    /\ all \in Seq(Nat) /\ queue \in Seq(Nat)
    /\ Len(queue) <= Len(all)
    /\ \A i \in 1..Len(queue) : queue[i] = all[Len(all) - Len(queue) + i]

\* One sender's requests of one kind: those let through, its deque, the
\* clock and the limit.
LaneInv(all, queue, at, limit) ==
    /\ IsTailOf(queue, all)
    /\ Len(queue) <= limit
    /\ \A i \in 1..Len(all) : all[i] <= at
    /\ \A i, j \in 1..Len(all) : i < j => all[j] >= all[i] - MaxWait
    /\ \A i \in 1..(Len(all) - Len(queue)) : all[i] < at - Window + MaxWait
    /\ \A i, j \in 1..Len(all) : j - i >= limit => all[j] - all[i] > Window - 2 * MaxWait

\* A set of instants or positions that is not empty has a least element.
LEMMA EarliestNatural ==
    ASSUME NEW T \in SUBSET Nat, T # {}
    PROVE  \E n \in T : \A m \in T : n <= m
<1>1. PICK n \in T : \A m \in T : <<m, n>> \notin OpToRel(<, Nat)
  BY NatLessThanWellFounded, WFMin
<1>2. \A m \in T : ~(m < n)
  BY <1>1 DEF OpToRel
<1> QED
  BY <1>2

\* The lengths and the instants of a tail and of what it is a tail of.
LEMMA TailTyped ==
    ASSUME NEW all, NEW queue, IsTailOf(queue, all)
    PROVE  /\ Len(all) \in Nat /\ Len(queue) \in Nat /\ Len(queue) <= Len(all)
           /\ \A i \in 1..Len(all) : all[i] \in Nat
           /\ \A i \in 1..Len(queue) : queue[i] \in Nat
<1>1. all \in Seq(Nat) /\ queue \in Seq(Nat) /\ Len(queue) <= Len(all)
  BY Zenon DEF IsTailOf
<1> QED
  BY <1>1

\* What the loop of pop_front leaves, and what it drops.
LEMMA PopElapsedTail ==
    ASSUME NEW queue \in Seq(Nat), NEW at \in Nat
    PROVE  /\ IsTailOf(PopElapsed(queue, at), queue)
           /\ \A i \in 1..(Len(queue) - Len(PopElapsed(queue, at))) : queue[i] < at - Window
           /\ PopElapsed(queue, at) # <<>> => PopElapsed(queue, at)[1] >= at - Window
<1> DEFINE live == {i \in 1..Len(queue) : ~Elapsed(at, queue[i])}
<1>1. \A i \in 1..Len(queue) : queue[i] \in Nat /\ Len(queue) \in Nat
  OBVIOUS
<1>2. \A i \in 1..Len(queue) : i \in live <=> queue[i] >= at - Window
  BY <1>1, RateLimitConstants DEF Elapsed, DurationSince
<1>3. CASE live = {}
  <2>1. PopElapsed(queue, at) = <<>>
    BY <1>3 DEF PopElapsed
  <2>2. \A i \in 1..Len(queue) : queue[i] < at - Window
    BY <1>1, <1>2, <1>3, RateLimitConstants
  <2> QED
    BY <1>1, <2>1, <2>2 DEF IsTailOf
<1>4. CASE live # {}
  <2> DEFINE first == CHOOSE i \in live : \A j \in live : i <= j
  <2>1. live \subseteq Nat
    OBVIOUS
  <2>2. \E i \in live : \A j \in live : i <= j
    <3> HIDE DEF live
    <3> QED
      BY <1>4, <2>1, EarliestNatural
  <2>3. first \in live /\ \A j \in live : first <= j
    BY <2>2
  <2>4. PopElapsed(queue, at) = SubSeq(queue, first, Len(queue))
    BY <1>4 DEF PopElapsed
  <2> HIDE DEF first
  <2>5. first \in 1..Len(queue)
    BY <2>3
  <2>6. /\ Len(PopElapsed(queue, at)) = Len(queue) - first + 1
        /\ PopElapsed(queue, at) \in Seq(Nat)
        /\ \A i \in 1..(Len(queue) - first + 1) : PopElapsed(queue, at)[i] = queue[first + i - 1]
    BY <2>4, <2>5
  <2>7. \A i \in 1..(first - 1) : queue[i] < at - Window
    BY <1>1, <1>2, <2>3, <2>5, RateLimitConstants
  <2>8. queue[first] >= at - Window
    BY <1>2, <2>3, <2>5
  <2> HIDE DEF live
  <2> DEFINE left == PopElapsed(queue, at)
  <2> HIDE DEF left
  <2>9. /\ Len(queue) \in Nat /\ Len(left) = Len(queue) - first + 1 /\ left \in Seq(Nat)
        /\ \A i \in 1..(Len(queue) - first + 1) : left[i] = queue[first + i - 1]
    BY <2>6 DEF left
  <2>10. /\ Len(left) <= Len(queue) /\ Len(queue) - Len(left) = first - 1
         /\ 1 \in 1..(Len(queue) - first + 1) /\ first + 1 - 1 = first
    BY <2>5, <2>9
  <2>11. \A i \in 1..Len(left) : left[i] = queue[Len(queue) - Len(left) + i]
    <3> SUFFICES ASSUME NEW i \in 1..Len(left)
                 PROVE  left[i] = queue[Len(queue) - Len(left) + i]
      OBVIOUS
    <3>1. Len(queue) - Len(left) + i = first + i - 1 /\ i \in 1..(Len(queue) - first + 1)
      BY <2>5, <2>9
    <3> QED
      BY <2>9, <3>1
  <2>12. IsTailOf(left, queue)
    BY <2>9, <2>10, <2>11, Zenon DEF IsTailOf
  <2>13. \A i \in 1..(Len(queue) - Len(left)) : queue[i] < at - Window
    BY <2>7, <2>10
  <2>14. left[1] >= at - Window
    BY <2>8, <2>9, <2>10
  <2> QED
    BY <2>12, <2>13, <2>14 DEF left
<1> QED
  BY <1>3, <1>4

\* What the sweep leaves of one deque, and what it drops.
LEMMA SweepTail ==
    ASSUME NEW all, NEW queue, NEW at \in Nat, NEW limit \in Nat, NEW by \in Nat, by <= at,
           LaneInv(all, queue, at, limit), NEW left,
           left = IF queue # <<>> /\ ~Elapsed(by, queue[Len(queue)]) THEN queue ELSE <<>>
    PROVE  LaneInv(all, left, at, limit)
<1>0. all \in Seq(Nat) /\ queue \in Seq(Nat)
  BY DEF LaneInv, IsTailOf
<1>1. /\ Len(all) \in Nat /\ Len(queue) \in Nat /\ Len(queue) <= Len(all)
      /\ \A i \in 1..Len(all) : all[i] \in Nat
      /\ \A i \in 1..Len(queue) : queue[i] \in Nat
  BY TailTyped, Zenon DEF LaneInv
<1>2. CASE queue # <<>> /\ ~Elapsed(by, queue[Len(queue)])
  BY <1>2
<1>3. CASE queue = <<>>
  BY <1>3
<1>4. CASE queue # <<>> /\ Elapsed(by, queue[Len(queue)])
  <2>1. left = <<>> /\ Len(queue) \in 1..Len(queue) /\ Len(queue) <= Len(all)
    BY <1>1, <1>4 DEF LaneInv, IsTailOf
  <2>2. queue[Len(queue)] = all[Len(all)] /\ all[Len(all)] \in Nat
    BY <1>1, <2>1 DEF LaneInv, IsTailOf
  <2>3. all[Len(all)] < by - Window
    BY <1>4, <2>2, RateLimitConstants DEF Elapsed, DurationSince
  <2>4. ASSUME NEW i \in 1..Len(all) PROVE all[i] < at - Window + MaxWait
    <3>1. all[i] \in Nat
      BY <1>1
    <3>2. all[Len(all)] >= all[i] - MaxWait
      BY <1>1, <2>1, <2>2, <3>1, RateLimitConstants DEF LaneInv
    <3> DEFINE last == all[Len(all)]
               each == all[i]
    <3>3. last \in Nat /\ each \in Nat /\ last < by - Window /\ last >= each - MaxWait
      BY <2>2, <2>3, <3>1, <3>2
    <3> HIDE DEF last, each
    <3>4. each < at - Window + MaxWait
      BY <3>3, RateLimitConstants
    <3> QED
      BY <3>4 DEF each
  <2>5. left \in Seq(Nat) /\ Len(left) = 0
    BY <2>1
  <2>6. IsTailOf(left, all)
    <3>1. Len(left) <= Len(all) /\ 1..Len(left) = {}
      BY <1>1, <2>5
    <3> QED
      BY <1>0, <2>5, <3>1 DEF IsTailOf
  <2>7. \A i \in 1..(Len(all) - Len(left)) : all[i] < at - Window + MaxWait
    BY <1>1, <2>4, <2>5
  <2> QED
    BY <2>5, <2>6, <2>7 DEF LaneInv
<1> QED
  BY <1>2, <1>3, <1>4

\* The loop of pop_front keeps the lane, and leaves no instant older than the
\* window and one wait.
LEMMA PopTail ==
    ASSUME NEW all, NEW queue, NEW at \in Nat, NEW limit \in Nat, NEW by \in Nat, by <= at,
           LaneInv(all, queue, at, limit), NEW left, left = PopElapsed(queue, by)
    PROVE  /\ LaneInv(all, left, at, limit)
           /\ \A i \in 1..Len(all) : i > Len(all) - Len(left) => all[i] >= by - Window - MaxWait
<1>0. all \in Seq(Nat) /\ queue \in Seq(Nat)
  BY DEF LaneInv, IsTailOf
<1>1. /\ Len(all) \in Nat /\ Len(queue) \in Nat /\ Len(queue) <= Len(all)
      /\ \A i \in 1..Len(all) : all[i] \in Nat
      /\ \A i \in 1..Len(queue) : queue[i] \in Nat
  BY TailTyped, Zenon DEF LaneInv
<1>2. /\ IsTailOf(left, queue)
      /\ \A i \in 1..(Len(queue) - Len(left)) : queue[i] < by - Window
      /\ left # <<>> => left[1] >= by - Window
  BY <1>0, PopElapsedTail
<1>3. left \in Seq(Nat) /\ Len(left) \in Nat /\ Len(left) <= Len(queue) /\ Len(queue) <= Len(all)
  BY <1>2 DEF LaneInv, IsTailOf
<1>4. IsTailOf(left, all)
  <2> SUFFICES ASSUME NEW i \in 1..Len(left) PROVE left[i] = all[Len(all) - Len(left) + i]
    BY <1>0, <1>3 DEF IsTailOf
  <2>1. left[i] = queue[Len(queue) - Len(left) + i]
    BY <1>2 DEF IsTailOf
  <2>2. Len(queue) - Len(left) + i \in 1..Len(queue)
    BY <1>3, <1>1
  <2>3. queue[Len(queue) - Len(left) + i]
            = all[Len(all) - Len(queue) + (Len(queue) - Len(left) + i)]
    BY <2>2 DEF LaneInv, IsTailOf
  <2>4. Len(all) - Len(queue) + (Len(queue) - Len(left) + i) = Len(all) - Len(left) + i
    BY <1>1, <1>3
  <2> QED
    BY <2>1, <2>3, <2>4
<1>5. ASSUME NEW i \in 1..(Len(all) - Len(left)) PROVE all[i] < at - Window + MaxWait
  <2>1. CASE i <= Len(all) - Len(queue)
    BY <1>1, <1>3, <2>1 DEF LaneInv
  <2>2. CASE i > Len(all) - Len(queue)
    <3> DEFINE k == i - (Len(all) - Len(queue))
    <3>1. k \in 1..(Len(queue) - Len(left)) /\ k \in 1..Len(queue)
      BY <1>1, <1>3, <2>2
    <3>2. queue[k] < by - Window /\ queue[k] \in Nat
      BY <1>1, <1>2, <3>1
    <3>3. queue[k] = all[Len(all) - Len(queue) + k] /\ Len(all) - Len(queue) + k = i
      BY <1>1, <1>3, <3>1 DEF LaneInv, IsTailOf
    <3> QED
      BY <3>2, <3>3, RateLimitConstants
  <2> QED
    BY <1>1, <1>3, <2>1, <2>2
<1>6. ASSUME NEW i \in 1..Len(all), i > Len(all) - Len(left)
      PROVE  all[i] >= by - Window - MaxWait
  <2> DEFINE f == Len(all) - Len(left) + 1
  <2>1. f \in 1..Len(all) /\ f <= i /\ 1 \in 1..Len(left)
    BY <1>1, <1>3, <1>6
  <2>2. left # <<>> /\ left[1] >= by - Window
    BY <1>2, <2>1
  <2>3. all[f] = left[1] /\ all[f] \in Nat /\ all[i] \in Nat
    BY <1>1, <1>4, <2>1 DEF IsTailOf
  <2> HIDE DEF f
  <2>4. all[i] >= all[f] - MaxWait
    <3>1. CASE f = i
      BY <2>3, <3>1, RateLimitConstants
    <3>2. CASE f < i
      BY <2>1, <3>2 DEF LaneInv
    <3> QED
      BY <2>1, <3>1, <3>2
  <2> QED
    BY <2>2, <2>3, <2>4, RateLimitConstants
<1> QED
  BY <1>1, <1>3, <1>4, <1>5, <1>6 DEF LaneInv

\* A request that is let through joins the lane.
LEMMA AppendTail ==
    ASSUME NEW all, NEW queue, NEW at \in Nat, NEW limit \in Nat, NEW by \in Nat,
           by <= at, at - by <= MaxWait, LaneInv(all, queue, at, limit), Len(queue) < limit
    PROVE  LaneInv(Append(all, by), Append(queue, by), at, limit)
<1>0. all \in Seq(Nat) /\ queue \in Seq(Nat)
  BY DEF LaneInv, IsTailOf
<1>1. /\ Len(all) \in Nat /\ Len(queue) \in Nat /\ Len(queue) <= Len(all)
      /\ \A i \in 1..Len(all) : all[i] \in Nat
      /\ \A i \in 1..Len(queue) : queue[i] \in Nat
  BY TailTyped, Zenon DEF LaneInv
<1> DEFINE more == Append(all, by)
           queued == Append(queue, by)
<1>2. /\ more \in Seq(Nat) /\ Len(more) = Len(all) + 1 /\ more[Len(all) + 1] = by
      /\ \A i \in 1..Len(all) : more[i] = all[i]
  BY <1>0
<1>3. /\ queued \in Seq(Nat) /\ Len(queued) = Len(queue) + 1 /\ queued[Len(queue) + 1] = by
      /\ \A i \in 1..Len(queue) : queued[i] = queue[i]
  BY <1>0
<1> HIDE DEF more, queued
<1>4. IsTailOf(queued, more)
  <2> SUFFICES ASSUME NEW i \in 1..Len(queued) PROVE queued[i] = more[Len(more) - Len(queued) + i]
    BY <1>1, <1>2, <1>3 DEF IsTailOf
  <2>1. Len(more) - Len(queued) + i = Len(all) - Len(queue) + i
    BY <1>1, <1>2, <1>3
  <2>2. CASE i = Len(queue) + 1
    BY <1>1, <1>2, <1>3, <2>1, <2>2
  <2>3. CASE i \in 1..Len(queue)
    <3>1. Len(all) - Len(queue) + i \in 1..Len(all)
      BY <1>1, <2>3
    <3> QED
      BY <1>2, <1>3, <2>1, <2>3, <3>1 DEF LaneInv, IsTailOf
  <2> QED
    BY <1>1, <1>3, <2>2, <2>3
<1>5. ASSUME NEW i \in 1..(Len(more) - Len(queued)) PROVE more[i] < at - Window + MaxWait
  <2>0. Len(more) - Len(queued) = Len(all) - Len(queue)
    BY <1>1, <1>2, <1>3
  <2>1. i \in 1..(Len(all) - Len(queue)) /\ i \in 1..Len(all)
    BY <1>1, <2>0
  <2> QED
    BY <1>2, <2>1 DEF LaneInv
<1>6. ASSUME NEW i \in 1..Len(all) PROVE by >= all[i] - MaxWait
  <2>1. all[i] \in Nat /\ all[i] <= at
    BY <1>1 DEF LaneInv
  <2> QED
    BY <2>1, RateLimitConstants
<1>7. ASSUME NEW i \in 1..Len(all), Len(all) + 1 - i >= limit
      PROVE  by - all[i] > Window - 2 * MaxWait
  <2>1. i \in 1..(Len(all) - Len(queue))
    BY <1>1, <1>7
  <2>2. all[i] < at - Window + MaxWait
    BY <2>1 DEF LaneInv
  <2>3. all[i] \in Nat
    BY <1>1
  <2> QED
    BY <2>2, <2>3, RateLimitConstants
<1>11. \A i \in 1..Len(more) : i \in 1..Len(all) \/ i = Len(all) + 1
  BY <1>1, <1>2
<1>8. \A i \in 1..Len(more) : more[i] <= at
  BY <1>2, <1>11 DEF LaneInv
<1>9. \A i, j \in 1..Len(more) : i < j => more[j] >= more[i] - MaxWait
  <2> SUFFICES ASSUME NEW i \in 1..Len(more), NEW j \in 1..Len(more), i < j
               PROVE  more[j] >= more[i] - MaxWait
    OBVIOUS
  <2>1. i \in 1..Len(all)
    BY <1>1, <1>2
  <2>2. CASE j = Len(all) + 1
    BY <1>2, <1>6, <2>1, <2>2
  <2>3. CASE j \in 1..Len(all)
    BY <1>2, <2>1, <2>3 DEF LaneInv
  <2> QED
    BY <1>11, <2>2, <2>3
<1>10. \A i, j \in 1..Len(more) : j - i >= limit => more[j] - more[i] > Window - 2 * MaxWait
  <2> SUFFICES ASSUME NEW i \in 1..Len(more), NEW j \in 1..Len(more), j - i >= limit
               PROVE  more[j] - more[i] > Window - 2 * MaxWait
    OBVIOUS
  <2>1. i \in 1..Len(all)
    BY <1>1, <1>2
  <2>2. CASE j = Len(all) + 1
    <3>1. Len(all) + 1 - i >= limit
      BY <2>2
    <3>2. by - all[i] > Window - 2 * MaxWait
      BY <1>7, <2>1, <3>1
    <3>3. more[j] = by /\ more[i] = all[i]
      BY <1>2, <2>1, <2>2
    <3> QED
      BY <3>2, <3>3
  <2>3. CASE j \in 1..Len(all)
    BY <1>2, <2>1, <2>3 DEF LaneInv
  <2> QED
    BY <1>11, <2>2, <2>3
<1> QED
  <2>1. Len(queued) <= limit
    BY <1>1, <1>3
  <2>2. \A i \in 1..(Len(more) - Len(queued)) : more[i] < at - Window + MaxWait
    BY <1>5
  <2>3. LaneInv(more, queued, at, limit)
    BY <1>4, <1>8, <1>9, <1>10, <2>1, <2>2, Zenon DEF LaneInv
  <2> QED
    BY <2>3 DEF more, queued

Waiting == [sender : Senders, now : Nat, kind : Kinds]

\* Every lane is in order, and a request waits at most MaxWait.
RateInv ==
    /\ clock \in Nat
    /\ waiting \in [Requests -> {NoRequest} \cup Waiting]
    /\ \A r \in Requests : waiting[r] # NoRequest =>
          waiting[r].now <= clock /\ clock - waiting[r].now <= MaxWait
    /\ events \in [Kinds -> [Senders -> Seq(Nat)]]
    /\ granted \in [Kinds -> [Senders -> Seq(Nat)]]
    /\ \A k \in Kinds, s \in Senders : LaneInv(granted[k][s], events[k][s], clock, Limits[k])
    /\ RefusedForCause

\* Nothing is counted when the process begins.
LEMMA RateBegins == RateInit => RateInv
<1> SUFFICES ASSUME RateInit PROVE RateInv
  OBVIOUS
<1>1. <<>> \in Seq(Nat) /\ Len(<<>>) = 0
  OBVIOUS
<1>2. \A k \in Kinds : Limits[k] \in Nat
  BY RateLimitConstants DEF Kinds
<1>3. \A k \in Kinds : LaneInv(<<>>, <<>>, 0, Limits[k])
  BY <1>1, <1>2 DEF LaneInv, IsTailOf
<1>4. \A k \in Kinds, s \in Senders : granted[k][s] = <<>> /\ events[k][s] = <<>>
  BY DEF RateInit
<1>5. clock = 0 /\ refused = NoRequest /\ \A r \in Requests : waiting[r] = NoRequest
  BY DEF RateInit
<1>6. /\ waiting \in [Requests -> {NoRequest} \cup Waiting]
      /\ events \in [Kinds -> [Senders -> Seq(Nat)]]
      /\ granted \in [Kinds -> [Senders -> Seq(Nat)]]
  BY <1>1 DEF RateInit
<1> QED
  BY <1>3, <1>4, <1>5, <1>6 DEF RateInv, RefusedForCause

\* A request that waits, by its fields.
LEMMA WaitingFields ==
    ASSUME RateInv, NEW r \in Requests, waiting[r] # NoRequest
    PROVE  /\ waiting[r] \in Waiting
           /\ waiting[r].sender \in Senders /\ waiting[r].now \in Nat /\ waiting[r].kind \in Kinds
           /\ waiting[r].now <= clock /\ clock - waiting[r].now <= MaxWait
BY DEF RateInv, Waiting

\* check_bucket keeps the lanes, and refuses for cause.
LEMMA CheckBucketStep ==
    ASSUME RateInv, NEW r \in Requests, CheckBucket(r)
    PROVE  RateInv'
<1> DEFINE s == waiting[r].sender
           k == waiting[r].kind
           by == waiting[r].now
           map == IF counter[k] = 0 THEN Sweep(events[k], by) ELSE events[k]
           deque == PopElapsed(map[s], by)
<1>1. /\ s \in Senders /\ by \in Nat /\ k \in Kinds /\ by <= clock /\ clock - by <= MaxWait
      /\ waiting[r] \in Waiting
  BY WaitingFields DEF CheckBucket
<1>2. clock \in Nat /\ \A q \in Kinds : Limits[q] \in Nat
  BY RateLimitConstants DEF RateInv, Kinds
<1>3. /\ waiting' = [waiting EXCEPT ![r] = NoRequest] /\ clock' = clock
      /\ \/ /\ Len(deque) >= Limits[k]
            /\ events' = [events EXCEPT ![k] = [map EXCEPT ![s] = deque]]
            /\ refused' = waiting[r] /\ granted' = granted
         \/ /\ ~(Len(deque) >= Limits[k])
            /\ events' = [events EXCEPT ![k] = [map EXCEPT ![s] = Append(deque, by)]]
            /\ granted' = [granted EXCEPT ![k][s] = Append(@, by)]
            /\ refused' = NoRequest
  BY DEF CheckBucket
<1>4. ASSUME NEW z \in Senders PROVE LaneInv(granted[k][z], map[z], clock, Limits[k])
  <2>1. LaneInv(granted[k][z], events[k][z], clock, Limits[k])
    BY <1>1 DEF RateInv
  <2>2. map[z] = events[k][z] \/ map[z] = IF events[k][z] # <<>> /\ ~Elapsed(by, events[k][z][Len(events[k][z])])
                                          THEN events[k][z] ELSE <<>>
    BY DEF Sweep
  <2> HIDE DEF map, by, k
  <2> QED
    BY <1>1, <1>2, <2>1, <2>2, SweepTail
<1> HIDE DEF map
<1>6. /\ LaneInv(granted[k][s], deque, clock, Limits[k])
      /\ \A i \in 1..Len(granted[k][s]) :
           i > Len(granted[k][s]) - Len(deque) => granted[k][s][i] >= by - Window - MaxWait
  <2> HIDE DEF s, k, by
  <2> QED
    BY <1>1, <1>2, <1>4, PopTail
<1> HIDE DEF deque
<1>7. /\ \A z \in Senders : granted[k][z] \in Seq(Nat) /\ map[z] \in Seq(Nat)
      /\ deque \in Seq(Nat) /\ granted[k][s] \in Seq(Nat)
  BY <1>1, <1>4, <1>6 DEF LaneInv, IsTailOf
<1>8. map \in [Senders -> Seq(Nat)]
  <2>1. events[k] \in [Senders -> Seq(Nat)]
    BY <1>1 DEF RateInv
  <2> HIDE DEF k, by
  <2>2. \A z \in Senders : events[k][z] \in Seq(Nat) /\ <<>> \in Seq(Nat)
    BY <2>1
  <2>3. Sweep(events[k], by) \in [Senders -> Seq(Nat)]
    BY <2>2 DEF Sweep
  <2> QED
    BY <2>1, <2>3 DEF map
<1>9. /\ events \in [Kinds -> [Senders -> Seq(Nat)]] /\ granted \in [Kinds -> [Senders -> Seq(Nat)]]
      /\ waiting \in [Requests -> {NoRequest} \cup Waiting]
      /\ \A q \in Requests : waiting[q] # NoRequest =>
           waiting[q].now <= clock /\ clock - waiting[q].now <= MaxWait
      /\ \A q \in Kinds, z \in Senders : LaneInv(granted[q][z], events[q][z], clock, Limits[q])
  BY DEF RateInv
<1>10. /\ waiting' \in [Requests -> {NoRequest} \cup Waiting]
       /\ \A q \in Requests : waiting'[q] # NoRequest =>
            waiting'[q].now <= clock' /\ clock' - waiting'[q].now <= MaxWait
  BY <1>3, <1>9
<1>11. CASE /\ Len(deque) >= Limits[k]
            /\ events' = [events EXCEPT ![k] = [map EXCEPT ![s] = deque]]
            /\ refused' = waiting[r] /\ granted' = granted
  <2> HIDE DEF s, k, by
  <2>1. /\ events' \in [Kinds -> [Senders -> Seq(Nat)]]
        /\ \A q \in Kinds, z \in Senders :
             events'[q][z] = IF q = k THEN IF z = s THEN deque ELSE map[z] ELSE events[q][z]
    BY <1>1, <1>7, <1>8, <1>9, <1>11
  <2>2. \A q \in Kinds, z \in Senders : LaneInv(granted[q][z], events'[q][z], clock, Limits[q])
    BY <1>1, <1>4, <1>6, <1>9, <2>1
  <2>3. LET passed == granted[k][s] IN
          /\ Len(passed) >= Limits[k]
          /\ \A i \in DOMAIN passed : i > Len(passed) - Limits[k] => passed[i] >= by - Window - MaxWait
    <3> DEFINE passed == granted[k][s]
    <3>1. /\ Len(passed) \in Nat /\ Len(deque) \in Nat /\ Limits[k] \in Nat
          /\ DOMAIN passed = 1..Len(passed)
      BY <1>1, <1>2, <1>7
    <3>2. Len(deque) <= Len(passed)
      BY <1>6 DEF LaneInv, IsTailOf
    <3>3. \A i \in 1..Len(passed) : i > Len(passed) - Len(deque) => passed[i] >= by - Window - MaxWait
      BY <1>6
    <3> HIDE DEF passed
    <3>4. /\ Len(passed) >= Limits[k]
          /\ \A i \in DOMAIN passed : i > Len(passed) - Limits[k] => passed[i] >= by - Window - MaxWait
      BY <1>11, <3>1, <3>2, <3>3
    <3> QED
      BY <3>4 DEF passed
  <2>4. RefusedForCause'
    BY <1>11, <2>3 DEF RefusedForCause, s, k, by
  <2> QED
    BY <1>2, <1>3, <1>9, <1>10, <1>11, <2>1, <2>2, <2>4 DEF RateInv
<1>12. CASE /\ ~(Len(deque) >= Limits[k])
            /\ events' = [events EXCEPT ![k] = [map EXCEPT ![s] = Append(deque, by)]]
            /\ granted' = [granted EXCEPT ![k][s] = Append(@, by)]
            /\ refused' = NoRequest
  <2> HIDE DEF s, k, by
  <2> DEFINE queued == Append(deque, by)
             passed == Append(granted[k][s], by)
  <2>1. queued \in Seq(Nat) /\ passed \in Seq(Nat)
    BY <1>1, <1>7
  <2>2. Len(deque) < Limits[k]
    BY <1>1, <1>2, <1>7, <1>12
  <2>3. LaneInv(passed, queued, clock, Limits[k])
    BY <1>1, <1>2, <1>6, <2>2, AppendTail
  <2>4. /\ events' = [events EXCEPT ![k] = [map EXCEPT ![s] = queued]]
        /\ granted' = [granted EXCEPT ![k] = [granted[k] EXCEPT ![s] = passed]]
    BY <1>12
  <2> HIDE DEF queued, passed
  <2>5. /\ events' \in [Kinds -> [Senders -> Seq(Nat)]]
        /\ granted' \in [Kinds -> [Senders -> Seq(Nat)]]
        /\ \A q \in Kinds, z \in Senders :
             /\ events'[q][z] = IF q = k THEN IF z = s THEN queued ELSE map[z] ELSE events[q][z]
             /\ granted'[q][z] = IF q = k /\ z = s THEN passed ELSE granted[q][z]
    BY <1>1, <1>8, <1>9, <2>1, <2>4
  <2>6. \A q \in Kinds, z \in Senders : LaneInv(granted'[q][z], events'[q][z], clock, Limits[q])
    <3> SUFFICES ASSUME NEW q \in Kinds, NEW z \in Senders
                 PROVE  LaneInv(granted'[q][z], events'[q][z], clock, Limits[q])
      OBVIOUS
    <3>1. CASE q = k /\ z = s
      BY <2>3, <2>5, <3>1
    <3>2. CASE q = k /\ z # s
      BY <1>4, <1>9, <2>5, <3>2
    <3>3. CASE q # k
      BY <1>1, <1>4, <1>9, <2>5, <3>3
    <3> QED
      BY <3>1, <3>2, <3>3
  <2>7. RefusedForCause'
    BY <1>12 DEF RefusedForCause
  <2> QED
    BY <1>2, <1>3, <1>10, <2>5, <2>6, <2>7 DEF RateInv
<1> QED
  BY <1>3, <1>11, <1>12

\* Every step of the requests and the clock keeps the invariant.
LEMMA RateStep == RateInv /\ [RateNext]_rateVars => RateInv'
<1> SUFFICES ASSUME RateInv, [RateNext]_rateVars PROVE RateInv'
  OBVIOUS
<1>1. CASE UNCHANGED rateVars
  BY <1>1 DEF rateVars, RateInv, RefusedForCause
<1>2. ASSUME NEW r \in Requests, NEW s \in Senders, NEW b \in BOOLEAN, EnforceRateLimit(r, s, b)
      PROVE  RateInv'
  <2> DEFINE asked == [sender |-> s, now |-> clock, kind |-> IF b THEN "start" ELSE "message"]
  <2>1. asked \in Waiting /\ asked.now = clock
    BY RateLimitConstants DEF Waiting, Kinds, RateInv
  <2>2. waiting' = [waiting EXCEPT ![r] = asked]
    BY <1>2 DEF EnforceRateLimit
  <2> HIDE DEF asked
  <2>3. /\ waiting' \in [Requests -> {NoRequest} \cup Waiting]
        /\ \A q \in Requests : waiting'[q] # NoRequest =>
             waiting'[q].now <= clock /\ clock - waiting'[q].now <= MaxWait
    BY <2>1, <2>2, RateLimitConstants DEF RateInv
  <2>4. /\ clock' = clock /\ events' = events /\ granted' = granted /\ refused' = NoRequest
    BY <1>2 DEF EnforceRateLimit
  <2> QED
    BY <2>3, <2>4 DEF RateInv, RefusedForCause
<1>3. ASSUME NEW r \in Requests, Abandon(r) PROVE RateInv'
  <2>1. /\ clock' = clock /\ events' = events /\ granted' = granted /\ refused' = NoRequest
        /\ waiting' = [waiting EXCEPT ![r] = NoRequest]
    BY <1>3 DEF Abandon
  <2>2. /\ waiting' \in [Requests -> {NoRequest} \cup Waiting]
        /\ \A q \in Requests : waiting'[q] # NoRequest =>
             waiting'[q].now <= clock /\ clock - waiting'[q].now <= MaxWait
    BY <2>1 DEF RateInv
  <2> QED
    BY <2>1, <2>2 DEF RateInv, RefusedForCause
<1>4. CASE RateTick
  <2>1. /\ clock' = clock + 1 /\ events' = events /\ granted' = granted /\ refused' = NoRequest
        /\ waiting' = waiting /\ clock \in Nat
    BY <1>4 DEF RateTick, RateInv
  <2>2. ASSUME NEW q \in Requests, waiting[q] # NoRequest
        PROVE  waiting[q].now <= clock' /\ clock' - waiting[q].now <= MaxWait
    BY <1>4, <2>1, <2>2, WaitingFields, RateLimitConstants DEF RateTick
  <2>3. ASSUME NEW k \in Kinds, NEW s \in Senders
        PROVE  LaneInv(granted[k][s], events[k][s], clock', Limits[k])
    <3> DEFINE all == granted[k][s]
               queue == events[k][s]
    <3>1. LaneInv(all, queue, clock, Limits[k])
      BY DEF RateInv
    <3>2. all \in Seq(Nat) /\ queue \in Seq(Nat)
      BY <3>1 DEF LaneInv, IsTailOf
    <3> HIDE DEF all, queue
    <3>3. Len(all) \in Nat /\ Len(queue) \in Nat /\ \A i \in 1..Len(all) : all[i] \in Nat
      BY <3>2
    <3>4. LaneInv(all, queue, clock', Limits[k])
      BY <2>1, <3>1, <3>3, RateLimitConstants, SMTT(30) DEF LaneInv
    <3> QED
      BY <3>4 DEF all, queue
  <2> QED
    BY <2>1, <2>2, <2>3 DEF RateInv, RefusedForCause
<1> QED
  BY <1>1, <1>2, <1>3, <1>4, CheckBucketStep DEF RateNext

\* The limit is honoured (check_bucket), for every number of senders and
\* requests, every limit, window and wait for the mutex, and however often
\* the sweep runs: no more pass than the limit allows, and none is refused
\* for less.
THEOREM LimitTheorem == RateSpec => []LimitHonoured
<1>1. RateInv => LimitHonoured
  <2> SUFFICES ASSUME RateInv, NEW k \in Kinds, NEW s \in Senders
               PROVE  \A i, j \in DOMAIN granted[k][s] :
                        j - i >= Limits[k] => granted[k][s][j] - granted[k][s][i] > Window - 2 * MaxWait
    BY DEF RateInv, LimitHonoured, WindowBound
  <2>1. LaneInv(granted[k][s], events[k][s], clock, Limits[k])
    BY DEF RateInv
  <2>2. DOMAIN granted[k][s] = 1..Len(granted[k][s])
    BY <2>1 DEF LaneInv, IsTailOf
  <2> QED
    BY <2>1, <2>2 DEF LaneInv
<1> QED
  BY RateBegins, RateStep, <1>1, PTL DEF RateSpec

-----------------------------------------------------------------------------
(* The entrances.  Which checks are behind a call is read off the list of  *)
(* its stages and the stage it is in; so what must be behind it before the *)
(* kernel sees its envelope is a fact about the lists (Guarded), and what  *)
(* each check has established stays so while the call walks on (CallInv).  *)

StageNames ==
    {"preflight", "route", "method", "content_type", "accept", "authenticate", "body", "decode",
     "shape", "scoped", "bound", "sender", "session", "mode", "rate", "engine", "live", "process",
     "known", "authority", "control", "member", "access", "answer", "open", "versions", "agent"}

\* The stage x comes before the i-th.
Before(st, x, i) == \E j \in 1..(i - 1) : st[j] = x

\* The kernel comes after the mode, the rate and the engine; the identity is
\* not changed after the mode was authorised; the rate is charged once.
Guarded(st) ==
    /\ \A i \in 1..Len(st) : st[i] = "process" =>
          Before(st, "mode", i) /\ Before(st, "rate", i) /\ Before(st, "engine", i)
    /\ \A i, j \in 1..Len(st) : st[i] = "authenticate" /\ st[j] = "mode" => i < j
    /\ \A i, j \in 1..Len(st) : st[i] = "rate" /\ st[j] = "rate" => i = j

\* The kernel and a stream come after the authentication.
Authenticated(st) ==
    \A i \in 1..Len(st) : st[i] \in {"process", "open"} => Before(st, "authenticate", i)

\* Stages that go before a handler's.
Opening(st) == \A i \in 1..Len(st) : st[i] \notin {"process", "open", "mode", "rate"}

\* The elements of a concatenation.
LEMMA Joined ==
    ASSUME NEW p \in Seq(StageNames), NEW q \in Seq(StageNames)
    PROVE  /\ p \o q \in Seq(StageNames)
           /\ Len(p \o q) = Len(p) + Len(q)
           /\ \A i \in 1..Len(p) : (p \o q)[i] = p[i]
           /\ \A i \in 1..Len(q) : (p \o q)[Len(p) + i] = q[i]
  OBVIOUS

\* What goes before a handler's stages leaves them guarded.
LEMMA OpeningKeepsGuards ==
    ASSUME NEW p \in Seq(StageNames), NEW q \in Seq(StageNames), Opening(p), Guarded(q)
    PROVE  /\ Guarded(p \o q)
           /\ (\/ Authenticated(q)
               \/ \E i \in 1..Len(p) : p[i] = "authenticate") => Authenticated(p \o q)
  <1> DEFINE st == p \o q
             n == Len(p)
  <1>0. Len(p) \in Nat /\ Len(q) \in Nat
    OBVIOUS
  <1>1. /\ Len(st) = n + Len(q)
        /\ \A i \in 1..n : st[i] = p[i]
        /\ \A i \in 1..Len(q) : st[n + i] = q[i]
    BY Joined
  <1> HIDE DEF st, n
  <1>2. n \in Nat /\ \A i \in 1..n : st[i] \notin {"process", "open", "mode", "rate"}
    BY <1>0, <1>1 DEF Opening, n
  <1>3. ASSUME NEW i \in 1..Len(st), st[i] \in {"process", "open", "mode", "rate"}
        PROVE  i - n \in 1..Len(q) /\ st[i] = q[i - n]
    <2>1. ~(i <= n)
      BY <1>0, <1>1, <1>2, <1>3
    <2>2. i - n \in 1..Len(q)
      BY <1>0, <1>1, <1>2, <2>1
    <2>3. n + (i - n) = i
      BY <1>0, <1>1, <1>2
    <2> QED BY <1>1, <2>2, <2>3
  <1>4. ASSUME NEW x, NEW i \in 1..Len(st), i - n \in 1..Len(q), Before(q, x, i - n)
        PROVE  Before(st, x, i)
    <2>1. PICK j \in 1..(i - n - 1) : q[j] = x
      BY <1>4 DEF Before
    <2>2. j \in 1..Len(q) /\ n + j \in 1..(i - 1)
      BY <1>0, <1>1, <1>2, <1>4, <2>1
    <2>3. st[n + j] = x
      BY <1>1, <2>1, <2>2
    <2> QED BY <2>2, <2>3 DEF Before
  <1>5. \A i \in 1..Len(st) : st[i] = "process" =>
           Before(st, "mode", i) /\ Before(st, "rate", i) /\ Before(st, "engine", i)
    BY <1>3, <1>4 DEF Guarded
  <1>6. ASSUME NEW i \in 1..Len(st), NEW j \in 1..Len(st), st[i] = "authenticate", st[j] = "mode"
        PROVE  i < j
    <2>1. j - n \in 1..Len(q) /\ q[j - n] = "mode"
      BY <1>3, <1>6
    <2>2. CASE i <= n
      BY <1>0, <1>1, <1>2, <2>1, <2>2
    <2>3. CASE ~(i <= n)
      <3>1. i - n \in 1..Len(q) /\ n + (i - n) = i
        BY <1>0, <1>1, <1>2, <2>3
      <3>2. q[i - n] = "authenticate"
        BY <1>1, <1>6, <3>1
      <3>3. i - n < j - n
        BY <2>1, <3>1, <3>2 DEF Guarded
      <3> QED BY <1>0, <1>1, <1>2, <3>1, <2>1, <3>3
    <2> QED BY <2>2, <2>3
  <1>7. ASSUME NEW i \in 1..Len(st), NEW j \in 1..Len(st), st[i] = "rate", st[j] = "rate"
        PROVE  i = j
    <2>1. i - n \in 1..Len(q) /\ q[i - n] = "rate" /\ j - n \in 1..Len(q) /\ q[j - n] = "rate"
      BY <1>3, <1>7
    <2>2. i - n = j - n
      BY <2>1 DEF Guarded
    <2> QED BY <1>0, <1>1, <1>2, <2>2
  <1>8. Guarded(st)
    BY <1>5, <1>6, <1>7 DEF Guarded
  <1>9. ASSUME Authenticated(q) \/ \E i \in 1..Len(p) : p[i] = "authenticate"
        PROVE  Authenticated(st)
    <2> SUFFICES ASSUME NEW i \in 1..Len(st), st[i] \in {"process", "open"}
                 PROVE  Before(st, "authenticate", i)
      BY DEF Authenticated
    <2>1. i - n \in 1..Len(q) /\ st[i] = q[i - n]
      BY <1>3
    <2>2. CASE Authenticated(q)
      BY <1>4, <2>1, <2>2 DEF Authenticated
    <2>3. CASE \E k \in 1..Len(p) : p[k] = "authenticate"
      <3>1. PICK k \in 1..n : st[k] = "authenticate"
        BY <1>1, <2>3 DEF n
      <3>2. k \in 1..(i - 1)
        BY <1>0, <1>1, <1>2, <2>1, <3>1
      <3> QED BY <3>1, <3>2 DEF Before
    <2> QED BY <1>9, <2>2, <2>3
  <1> QED BY <1>8, <1>9 DEF st

\* A list of a few stages: its length and its elements.
LEMMA SeamStages ==
    /\ SendSeam \in Seq(StageNames) /\ Len(SendSeam) = 6
    /\ SendSeam[1] = "shape" /\ SendSeam[2] = "sender" /\ SendSeam[3] = "mode"
    /\ SendSeam[4] = "rate" /\ SendSeam[5] = "engine" /\ SendSeam[6] = "process"
  BY DEF SendSeam, StageNames

\* The seam of Send is guarded, but for the authentication before it.
LEMMA SeamGuarded == Guarded(SendSeam)
  BY SeamStages DEF Guarded, Before

\* So is the way of a frame.
LEMMA FrameStagesList ==
    /\ FrameStages \in Seq(StageNames) /\ Len(FrameStages) = 10
    /\ FrameStages[1] = "shape" /\ FrameStages[2] = "scoped" /\ FrameStages[3] = "bound"
    /\ FrameStages[4] = "sender" /\ FrameStages[5] = "session" /\ FrameStages[6] = "mode"
    /\ FrameStages[7] = "engine" /\ FrameStages[8] = "rate" /\ FrameStages[9] = "live"
    /\ FrameStages[10] = "process"
  BY DEF FrameStages, StageNames

LEMMA FrameGuarded ==
    /\ Guarded(FrameStages)
    /\ \A i \in 1..Len(FrameStages) : FrameStages[i] \notin {"open", "authenticate"}
  BY FrameStagesList DEF Guarded, Before

\* The stages of the service's handlers, Send aside, are guarded.
LEMMA HandlerGuarded ==
    ASSUME NEW rpc, rpc # "Send"
    PROVE  /\ Handler(rpc) \in Seq(StageNames) /\ Len(Handler(rpc)) >= 1
           /\ Guarded(Handler(rpc)) /\ Authenticated(Handler(rpc))
  <1>1. Handler(rpc) \in {<<"authenticate", "known", "authority", "control">>,
                          <<"authenticate", "known", "member", "access", "known", "answer">>,
                          <<"authenticate", "known", "member", "access", "rate", "answer">>,
                          <<"authenticate", "open">>, <<"versions", "answer">>,
                          <<"agent", "answer">>, <<"answer">>, <<"authenticate", "answer">>}
    BY Zenon DEF Handler
  <1>2. ASSUME NEW st, st = <<"authenticate", "known", "authority", "control">>
        PROVE  st \in Seq(StageNames) /\ Len(st) >= 1 /\ Guarded(st) /\ Authenticated(st)
    BY <1>2 DEF Guarded, Authenticated, Before, StageNames
  <1>3. ASSUME NEW st, st = <<"authenticate", "known", "member", "access", "known", "answer">>
        PROVE  st \in Seq(StageNames) /\ Len(st) >= 1 /\ Guarded(st) /\ Authenticated(st)
    BY <1>3 DEF Guarded, Authenticated, Before, StageNames
  <1>4. ASSUME NEW st, st = <<"authenticate", "known", "member", "access", "rate", "answer">>
        PROVE  st \in Seq(StageNames) /\ Len(st) >= 1 /\ Guarded(st) /\ Authenticated(st)
    BY <1>4 DEF Guarded, Authenticated, Before, StageNames
  <1>5. ASSUME NEW st, st = <<"authenticate", "open">>
        PROVE  st \in Seq(StageNames) /\ Len(st) >= 1 /\ Guarded(st) /\ Authenticated(st)
    BY <1>5 DEF Guarded, Authenticated, Before, StageNames
  <1>6. ASSUME NEW st, NEW first \in {"versions", "agent", "authenticate"}, st = <<first, "answer">>
        PROVE  st \in Seq(StageNames) /\ Len(st) >= 1 /\ Guarded(st) /\ Authenticated(st)
    BY <1>6 DEF Guarded, Authenticated, Before, StageNames
  <1>7. ASSUME NEW st, st = <<"answer">>
        PROVE  st \in Seq(StageNames) /\ Len(st) >= 1 /\ Guarded(st) /\ Authenticated(st)
    BY <1>7 DEF Guarded, Authenticated, Before, StageNames
  <1> QED BY <1>1, <1>2, <1>3, <1>4, <1>5, <1>6, <1>7, Zenon

\* Over HTTP the checks of the binding go before the handler's, and the
\* authentication is among them.
HttpOpening(rpc) ==
    <<"preflight", "route", "method", "content_type">>
    \o (IF rpc \in StreamingRpcs THEN <<"accept">> ELSE <<>>)
    \o (IF rpc \in PublicRpcs THEN <<>> ELSE <<"authenticate">>)
    \o <<"body", "decode">>

\* Where the authentication is in them, and what is before it.
LEMMA HttpOpeningStages ==
    ASSUME NEW rpc
    PROVE  /\ HttpOpening(rpc) \in Seq(StageNames) /\ Opening(HttpOpening(rpc))
           /\ rpc \notin PublicRpcs => \E k \in 1..Len(HttpOpening(rpc)) :
                 /\ HttpOpening(rpc)[k] = "authenticate"
                 /\ \A i \in 1..(k - 1) : HttpOpening(rpc)[i] \in
                       {"preflight", "route", "method", "content_type", "accept"}
           /\ rpc = "Send" =>
                 /\ Len(HttpOpening(rpc)) = 7
                 /\ HttpOpening(rpc)[1] = "preflight" /\ HttpOpening(rpc)[2] = "route"
                 /\ HttpOpening(rpc)[3] = "method" /\ HttpOpening(rpc)[4] = "content_type"
                 /\ HttpOpening(rpc)[5] = "authenticate" /\ HttpOpening(rpc)[6] = "body"
                 /\ HttpOpening(rpc)[7] = "decode"
  <1> DEFINE a == <<"preflight", "route", "method", "content_type">>
             b == IF rpc \in StreamingRpcs THEN <<"accept">> ELSE <<>>
             c == IF rpc \in PublicRpcs THEN <<>> ELSE <<"authenticate">>
             d == <<"body", "decode">>
             l == IF rpc \in StreamingRpcs THEN 1 ELSE 0
             m == IF rpc \in PublicRpcs THEN 0 ELSE 1
  <1>1. /\ a \in Seq(StageNames) /\ Len(a) = 4 /\ a[1] = "preflight" /\ a[2] = "route"
        /\ a[3] = "method" /\ a[4] = "content_type"
    BY DEF StageNames
  <1>2. b \in Seq(StageNames) /\ Len(b) = l /\ (l = 1 => b[1] = "accept")
    <2>1. CASE rpc \in StreamingRpcs
      <3>1. b = <<"accept">> /\ l = 1
        BY <2>1
      <3> HIDE DEF b, l
      <3> QED BY <3>1 DEF StageNames
    <2>2. CASE rpc \notin StreamingRpcs
      <3>1. b = <<>> /\ l = 0
        BY <2>2
      <3> QED BY <3>1
    <2> QED BY <2>1, <2>2
  <1>3. c \in Seq(StageNames) /\ Len(c) = m /\ (m = 1 => c[1] = "authenticate")
    <2>1. CASE rpc \in PublicRpcs
      <3>1. c = <<>> /\ m = 0
        BY <2>1
      <3> QED BY <3>1
    <2>2. CASE rpc \notin PublicRpcs
      <3>1. c = <<"authenticate">> /\ m = 1
        BY <2>2
      <3> HIDE DEF c, m
      <3> QED BY <3>1 DEF StageNames
    <2> QED BY <2>1, <2>2
  <1>4. d \in Seq(StageNames) /\ Len(d) = 2 /\ d[1] = "body" /\ d[2] = "decode"
    BY DEF StageNames
  <1>5. l \in {0, 1} /\ m \in {0, 1} /\ (rpc \notin PublicRpcs => m = 1)
        /\ (rpc = "Send" => l = 0 /\ m = 1)
    BY DEF StreamingRpcs, PublicRpcs
  <1>6. HttpOpening(rpc) = ((a \o b) \o c) \o d
    BY DEF HttpOpening
  <1> HIDE DEF a, b, c, d, l, m
  <1> DEFINE ab == a \o b
  <1>7. /\ ab \in Seq(StageNames) /\ Len(ab) = 4 + l /\ ab[1] = "preflight" /\ ab[2] = "route"
        /\ ab[3] = "method" /\ ab[4] = "content_type" /\ (l = 1 => ab[5] = "accept")
    <2>1. /\ ab \in Seq(StageNames) /\ Len(ab) = Len(a) + Len(b)
          /\ \A i \in 1..Len(a) : ab[i] = a[i]
          /\ \A i \in 1..Len(b) : ab[Len(a) + i] = b[i]
      BY <1>1, <1>2, Joined
    <2> HIDE DEF ab
    <2>2. 1 \in 1..4 /\ 2 \in 1..4 /\ 3 \in 1..4 /\ 4 \in 1..4 /\ 4 + 1 = 5
      OBVIOUS
    <2> QED BY <1>1, <1>2, <1>5, <2>1, <2>2
  <1> HIDE DEF ab
  <1> DEFINE abc == ab \o c
  <1>8. /\ abc \in Seq(StageNames) /\ Len(abc) = 4 + l + m
        /\ \A i \in 1..(4 + l) : abc[i] = ab[i]
        /\ m = 1 => abc[5 + l] = "authenticate"
    BY <1>3, <1>5, <1>7, Joined
  <1> HIDE DEF abc
  <1> DEFINE all == abc \o d
  <1>9. /\ all \in Seq(StageNames) /\ Len(all) = 6 + l + m
        /\ \A i \in 1..(4 + l + m) : all[i] = abc[i]
        /\ all[5 + l + m] = "body" /\ all[6 + l + m] = "decode"
    <2>1. /\ all \in Seq(StageNames) /\ Len(all) = Len(abc) + Len(d)
          /\ \A i \in 1..Len(abc) : all[i] = abc[i]
          /\ \A i \in 1..Len(d) : all[Len(abc) + i] = d[i]
      BY <1>4, <1>8, Joined
    <2> HIDE DEF all
    <2>2. 1 \in 1..2 /\ 2 \in 1..2 /\ 4 + l + m + 1 = 5 + l + m /\ 4 + l + m + 2 = 6 + l + m
      BY <1>5
    <2> QED BY <1>4, <1>5, <1>8, <2>1, <2>2
  <1> HIDE DEF all
  <1>10. /\ \A i \in 1..(4 + l) : all[i] = ab[i]
         /\ m = 1 => all[5 + l] = "authenticate"
    BY <1>5, <1>8, <1>9
  <1>11. \A i \in 1..(4 + l) : all[i] \in {"preflight", "route", "method", "content_type", "accept"}
    BY <1>5, <1>7, <1>10
  <1>12. Opening(all)
    <2> SUFFICES ASSUME NEW i \in 1..Len(all) PROVE all[i] \notin {"process", "open", "mode", "rate"}
      BY DEF Opening
    <2>1. i \in 1..(4 + l) \/ (m = 1 /\ i = 5 + l) \/ i = 5 + l + m \/ i = 6 + l + m
      BY <1>5, <1>9
    <2> QED BY <1>9, <1>10, <1>11, <2>1
  <1>13. rpc \notin PublicRpcs => \E k \in 1..Len(all) :
            /\ all[k] = "authenticate"
            /\ \A i \in 1..(k - 1) : all[i] \in {"preflight", "route", "method", "content_type", "accept"}
    <2> HAVE rpc \notin PublicRpcs
    <2> DEFINE k == 5 + l
    <2>1. k \in 1..Len(all) /\ all[k] = "authenticate" /\ \A i \in 1..(k - 1) : i \in 1..(4 + l)
      BY <1>5, <1>9, <1>10
    <2> HIDE DEF k
    <2>2. \A i \in 1..(k - 1) : all[i] \in {"preflight", "route", "method", "content_type", "accept"}
      BY <1>11, <2>1
    <2> QED BY <2>1, <2>2
  <1>14. rpc = "Send" => /\ Len(all) = 7 /\ all[1] = "preflight" /\ all[2] = "route" /\ all[3] = "method"
                         /\ all[4] = "content_type" /\ all[5] = "authenticate" /\ all[6] = "body"
                         /\ all[7] = "decode"
    BY <1>5, <1>7, <1>9, <1>10
  <1>15. HttpOpening(rpc) = all
    BY <1>6 DEF all, abc, ab
  <1> QED BY <1>9, <1>12, <1>13, <1>14, <1>15

\* The stages of Send over gRPC and over HTTP, one by one.
LEMMA SendStages ==
    LET st == <<"shape", "authenticate">> \o SendSeam IN
    /\ st \in Seq(StageNames) /\ Len(st) = 8 /\ st[1] = "shape" /\ st[2] = "authenticate"
    /\ \A i \in 1..6 : st[2 + i] = SendSeam[i]
    /\ Guarded(st) /\ Authenticated(st)
  <1> DEFINE p == <<"shape", "authenticate">>
  <1>1. p \in Seq(StageNames) /\ Len(p) = 2 /\ p[1] = "shape" /\ p[2] = "authenticate"
    BY DEF StageNames
  <1> HIDE DEF p
  <1>2. Opening(p) /\ \E i \in 1..Len(p) : p[i] = "authenticate"
    BY <1>1 DEF Opening
  <1>3. /\ p \o SendSeam \in Seq(StageNames) /\ Len(p \o SendSeam) = 8 /\ (p \o SendSeam)[1] = "shape"
        /\ (p \o SendSeam)[2] = "authenticate" /\ \A i \in 1..6 : (p \o SendSeam)[2 + i] = SendSeam[i]
    <2> DEFINE st == p \o SendSeam
    <2>1. /\ st \in Seq(StageNames) /\ Len(st) = Len(p) + Len(SendSeam)
          /\ \A i \in 1..Len(p) : st[i] = p[i]
          /\ \A i \in 1..Len(SendSeam) : st[Len(p) + i] = SendSeam[i]
      BY <1>1, SeamStages, Joined
    <2> HIDE DEF st
    <2>2. 1 \in 1..2 /\ 2 \in 1..2
      OBVIOUS
    <2>3. /\ st \in Seq(StageNames) /\ Len(st) = 8 /\ st[1] = "shape" /\ st[2] = "authenticate"
          /\ \A i \in 1..6 : st[2 + i] = SendSeam[i]
      BY <1>1, <2>1, <2>2, SeamStages
    <2> QED BY <2>3 DEF st
  <1>4. Guarded(p \o SendSeam) /\ Authenticated(p \o SendSeam)
    BY <1>1, <1>2, SeamStages, SeamGuarded, OpeningKeepsGuards
  <1> QED BY <1>3, <1>4 DEF p

\* Every entrance is guarded: each list of stages puts the checks before the
\* kernel, and the authentication before the kernel and before a stream.
LEMMA StagesGuarded ==
    ASSUME NEW request
    PROVE  /\ Stages(request) \in Seq(StageNames) /\ Len(Stages(request)) \in Nat /\ Len(Stages(request)) >= 1
           /\ Guarded(Stages(request))
           /\ request.binding # "stream" => Authenticated(Stages(request))
           /\ request.binding = "stream" =>
                 \A i \in 1..Len(Stages(request)) : Stages(request)[i] \notin {"open", "authenticate"}
  <1>1. CASE request.binding = "stream"
    <2>1. Stages(request) = FrameStages
      BY <1>1 DEF Stages
    <2> QED BY <1>1, <2>1, FrameStagesList, FrameGuarded
  <1>2. CASE request.binding = "http"
    <2> DEFINE rpc == request.rpc
               tail == IF rpc = "Send" THEN SendSeam ELSE Handler(rpc)
    <2>1. Stages(request) = HttpOpening(rpc) \o tail
      BY <1>2 DEF Stages, HttpStages, HttpOpening
    <2>2. tail \in Seq(StageNames) /\ Guarded(tail) /\ Len(tail) >= 1
      <3>1. CASE rpc = "Send"
        <4>1. tail = SendSeam
          BY <3>1
        <4> HIDE DEF tail
        <4> QED BY <4>1, SeamStages, SeamGuarded
      <3>2. CASE rpc # "Send"
        BY <3>2, HandlerGuarded
      <3> QED BY <3>1, <3>2
    <2>3. rpc = "Send" => \E i \in 1..Len(HttpOpening(rpc)) : HttpOpening(rpc)[i] = "authenticate"
      BY HttpOpeningStages DEF PublicRpcs
    <2>4. Authenticated(tail) \/ \E i \in 1..Len(HttpOpening(rpc)) : HttpOpening(rpc)[i] = "authenticate"
      BY <2>3, HandlerGuarded
    <2> HIDE DEF tail
    <2>5. Guarded(HttpOpening(rpc) \o tail) /\ Authenticated(HttpOpening(rpc) \o tail)
      BY <2>2, <2>4, HttpOpeningStages, OpeningKeepsGuards
    <2>6. /\ HttpOpening(rpc) \o tail \in Seq(StageNames)
          /\ Len(HttpOpening(rpc) \o tail) \in Nat /\ Len(HttpOpening(rpc) \o tail) >= 1
      <3>1. HttpOpening(rpc) \in Seq(StageNames)
        BY HttpOpeningStages
      <3> QED BY <2>2, <3>1, Joined
    <2> QED BY <1>2, <2>1, <2>5, <2>6
  <1>3. CASE request.binding \notin {"stream", "http"}
    <2>1. Stages(request) = Handler(request.rpc)
      BY <1>3 DEF Stages
    <2>2. CASE request.rpc = "Send"
      <3>1. Handler(request.rpc) = <<"shape", "authenticate">> \o SendSeam
        BY <2>2, Zenon DEF Handler, ControlRpcs
      <3> QED BY <1>3, <2>1, <3>1, SendStages
    <2>3. CASE request.rpc # "Send"
      BY <1>3, <2>1, <2>3, HandlerGuarded
    <2> QED BY <2>2, <2>3
  <1> QED BY <1>1, <1>2, <1>3

\* The envelope of a request with the sender it authenticated as.
Bound(request, at) == [request.env EXCEPT !.sender = at.identity.sender]

\* What the checks behind a call have established.
Walks(q, engine) ==
    /\ q = [stage |-> q.stage, request |-> q.request, charges |-> q.charges,
            consulted |-> q.consulted, identity |-> q.identity, bound |-> q.bound]
    /\ WellFormed(q.request)
    /\ q.stage \in 1..Len(Stages(q.request))
    /\ q.request.binding = "stream" \/ Before(Stages(q.request), "authenticate", q.stage) =>
          q.identity # Nobody
    /\ Before(Stages(q.request), "mode", q.stage) =>
          AuthorizeMode(q.identity, Bound(q.request, q)) = Pass
    /\ q.charges = IF Before(Stages(q.request), "rate", q.stage) THEN 1 ELSE 0
    /\ Before(Stages(q.request), "engine", q.stage) /\ engine =>
          q.consulted \in {"Allow", "absent"}

\* A stream was opened by somebody.
Served(t) ==
    \/ t = Closed
    \/ {"identity", "bound"} \subseteq DOMAIN t /\ t.identity # Nobody

\* The requests of the plans.
Asked == UNION {UNION {Range(p[c]) : c \in Clients} : p \in Plans}

IngressInv ==
    /\ plan \in [Clients -> Seq(Asked)]
    /\ DOMAIN call = Clients /\ DOMAIN stream = Clients
    /\ \A c \in Clients : call[c] = NoCall \/ Walks(call[c], conf.engine)
    /\ \A c \in Clients : Served(stream[c])
    /\ \E S : history \in Seq(S)
    /\ Gated

\* The requests of the plans are well formed.
LEMMA AskedWellFormed == \A r \in Asked : WellFormed(r)
  <1> SUFFICES ASSUME NEW r \in Asked PROVE WellFormed(r)
    OBVIOUS
  <1>1. PICK p \in Plans : \E c \in Clients : r \in Range(p[c])
    BY DEF Asked
  <1>2. PICK c \in Clients : r \in Range(p[c])
    BY <1>1
  <1>3. PICK i \in DOMAIN p[c] : r = p[c][i]
    BY <1>2 DEF Range
  <1> QED BY <1>3, IngressConstants

\* At the start nobody has called.
LEMMA IngressBegins == IngressInit => IngressInv
  <1> SUFFICES ASSUME IngressInit PROVE IngressInv
    OBVIOUS
  <1>1. plan \in [Clients -> Seq(Asked)]
    <2>1. plan \in Plans
      BY DEF IngressInit
    <2>2. ASSUME NEW c \in Clients PROVE plan[c] \in Seq(Asked)
      <3>1. Range(plan[c]) \subseteq Asked
        BY <2>1 DEF Asked
      <3>2. plan[c] \in Seq(Range(plan[c]))
        BY <2>1, IngressConstants
      <3> HIDE DEF Asked
      <3>3. \A i \in 1..Len(plan[c]) : plan[c][i] \in Range(plan[c])
        BY <3>2
      <3> QED BY <3>1, <3>2, <3>3
    <2>3. DOMAIN plan = Clients /\ plan = [c \in DOMAIN plan |-> plan[c]]
      BY <2>1, IngressConstants
    <2> QED BY <2>2, <2>3
  <1>2. call = [c \in Clients |-> NoCall] /\ stream = [c \in Clients |-> Closed] /\ history = <<>>
    BY DEF IngressInit
  <1>3. history \in Seq({}) /\ Len(history) = 0
    BY <1>2
  <1>4. Gated
    BY <1>3 DEF Gated
  <1> QED BY <1>1, <1>2, <1>3, <1>4 DEF IngressInv, Served

\* The check of a stage that passes.
LEMMA Passed ==
    ASSUME NEW stage, NEW q, NEW pick,
           Check(stage, q.request, q, session, pick) \in {Pass} \cup KernelAccepts
    PROVE  /\ stage = "authenticate" => AuthenticateMetadata(conf, Metadata(q.request), rotated) # Nobody
           /\ stage = "mode" => AuthorizeMode(q.identity, Bound(q.request, q)) = Pass
           /\ stage = "engine" /\ EngineAsked(conf, Bound(q.request, q), session) => pick.engine = "Allow"
           /\ stage = "process" => KernelVerdict(Bound(q.request, q), session) \in {Pass} \cup KernelAccepts
  <1> USE DEF Pass, KernelAccepts
  <1> DEFINE res(x) == Check(x, q.request, q, session, pick)
  <1>0. res("authenticate") = (IF AuthenticateMetadata(conf, Metadata(q.request), rotated) = Nobody
                               THEN "Unauthenticated" ELSE Pass)
    BY DEF Check, Bound
  <1>3. res("mode") = AuthorizeMode(q.identity, Bound(q.request, q))
    BY DEF Check, Bound
  <1>4. res("engine") = (IF EngineAsked(conf, Bound(q.request, q), session) /\ pick.engine # "Allow"
                         THEN "PolicyDenied" ELSE Pass)
    BY DEF Check, Bound
  <1>5. res("process") = KernelVerdict(Bound(q.request, q), session)
    BY DEF Check, Bound
  <1>1. res(stage) \in {Pass} \cup KernelAccepts
    OBVIOUS
  <1> HIDE DEF res
  <1>2. AuthorizeMode(q.identity, Bound(q.request, q)) \in {"Forbidden", Pass}
    BY DEF AuthorizeMode
  <1> QED BY <1>0, <1>1, <1>2, <1>3, <1>4, <1>5

\* The call behind a stage that is not its last.
Onward(q, stage, pick) ==
    LET next == [q EXCEPT !.stage = @ + 1] IN
    CASE stage = "authenticate" ->
            [next EXCEPT !.identity = AuthenticateMetadata(conf, Metadata(q.request), rotated)]
      [] stage = "rate" -> [next EXCEPT !.charges = @ + 1]
      [] stage = "engine" ->
            [next EXCEPT !.consulted =
               IF EngineAsked(conf, Bound(q.request, q), session) THEN pick.engine ELSE "absent"]
      [] OTHER -> next

\* The fields of a call.
LEMMA CallFields ==
    ASSUME NEW stage, NEW request, NEW charges, NEW consulted, NEW identity, NEW bound, NEW t,
           t = [stage |-> stage, request |-> request, charges |-> charges, consulted |-> consulted,
                identity |-> identity, bound |-> bound]
    PROVE  /\ t.stage = stage /\ t.request = request /\ t.charges = charges
           /\ t.consulted = consulted /\ t.identity = identity /\ t.bound = bound
  OBVIOUS

\* A call that walks on carries what it has established with it.
LEMMA WalksOn ==
    ASSUME NEW q, Walks(q, conf.engine), NEW pick, NEW stage, stage = Stages(q.request)[q.stage],
           q.stage # Len(Stages(q.request)),
           Check(stage, q.request, q, session, pick) \in {Pass} \cup KernelAccepts,
           NEW t, t = Onward(q, stage, pick)
    PROVE  Walks(t, conf.engine)
  <1> DEFINE st == Stages(q.request)
             next == [q EXCEPT !.stage = @ + 1]
  <1>1. st \in Seq(StageNames) /\ Len(st) \in Nat /\ Guarded(st)
    BY StagesGuarded
  <1>2. /\ q = [stage |-> q.stage, request |-> q.request, charges |-> q.charges,
                consulted |-> q.consulted, identity |-> q.identity, bound |-> q.bound]
        /\ WellFormed(q.request)
        /\ q.stage \in 1..Len(st)
        /\ q.request.binding = "stream" \/ Before(st, "authenticate", q.stage) => q.identity # Nobody
        /\ Before(st, "mode", q.stage) => AuthorizeMode(q.identity, Bound(q.request, q)) = Pass
        /\ q.charges = IF Before(st, "rate", q.stage) THEN 1 ELSE 0
        /\ Before(st, "engine", q.stage) /\ conf.engine => q.consulted \in {"Allow", "absent"}
    BY DEF Walks
  <1>3. q.stage + 1 \in 1..Len(st) /\ q.stage \in Nat /\ stage = st[q.stage]
    BY <1>1, <1>2
  <1>4. next = [stage |-> q.stage + 1, request |-> q.request, charges |-> q.charges,
                consulted |-> q.consulted, identity |-> q.identity, bound |-> q.bound]
    BY <1>2
  <1> HIDE DEF st, next
  <1>5. \A x : Before(st, x, q.stage + 1) <=> Before(st, x, q.stage) \/ x = stage
    <2> SUFFICES ASSUME NEW x PROVE Before(st, x, q.stage + 1) <=> Before(st, x, q.stage) \/ x = stage
      OBVIOUS
    <2>1. \A j : j \in 1..(q.stage + 1 - 1) <=> j \in 1..(q.stage - 1) \/ j = q.stage
      BY <1>2, <1>3
    <2> QED BY <1>3, <2>1 DEF Before
  <1>7. CASE stage = "authenticate"
    <2> DEFINE id == AuthenticateMetadata(conf, Metadata(q.request), rotated)
    <2>1. id # Nobody
      BY <1>7, Passed
    <2> HIDE DEF id
    <2>2. t = [next EXCEPT !.identity = id]
      BY <1>7 DEF id, next, Onward
    <2>3. t = [stage |-> q.stage + 1, request |-> q.request, charges |-> q.charges,
               consulted |-> q.consulted, identity |-> id, bound |-> q.bound]
      BY <1>4, <2>2
    <2>4. /\ t.stage = q.stage + 1 /\ t.request = q.request /\ t.charges = q.charges
          /\ t.consulted = q.consulted /\ t.identity = id /\ t.bound = q.bound
      BY <2>3, CallFields
    <2>5. ~Before(st, "mode", q.stage + 1)
      <3> SUFFICES ASSUME NEW j \in 1..q.stage, st[j] = "mode" PROVE FALSE
        BY <1>3 DEF Before
      <3>0. j \in 1..Len(st) /\ q.stage \in 1..Len(st) /\ st[q.stage] = "authenticate"
        BY <1>1, <1>2, <1>3, <1>7
      <3>1. q.stage < j
        BY <1>1, <3>0 DEF Guarded
      <3> QED BY <1>3, <3>1
    <2>6. \A x \in {"rate", "engine"} : Before(st, x, q.stage + 1) => Before(st, x, q.stage)
      BY <1>5, <1>7
    <2>7. \A x \in {"rate", "engine"} : Before(st, x, q.stage) => Before(st, x, q.stage + 1)
      BY <1>5
    <2> QED BY <1>2, <1>3, <2>1, <2>3, <2>4, <2>5, <2>6, <2>7 DEF Walks, st
  <1>8. CASE stage = "rate"
    <2>1. t = [next EXCEPT !.charges = @ + 1]
      BY <1>8 DEF next, Onward
    <2>2. t = [stage |-> q.stage + 1, request |-> q.request, charges |-> q.charges + 1,
               consulted |-> q.consulted, identity |-> q.identity, bound |-> q.bound]
      BY <1>4, <2>1
    <2>3. /\ t.stage = q.stage + 1 /\ t.request = q.request /\ t.charges = q.charges + 1
          /\ t.consulted = q.consulted /\ t.identity = q.identity /\ t.bound = q.bound
      BY <2>2, CallFields
    <2>4. ~Before(st, "rate", q.stage)
      <3> SUFFICES ASSUME NEW j \in 1..(q.stage - 1), st[j] = "rate" PROVE FALSE
        BY DEF Before
      <3>1. j \in 1..Len(st)
        BY <1>1, <1>2, <1>3
      <3>2. j = q.stage
        BY <1>2, <1>3, <1>8, <3>1, <1>1 DEF Guarded
      <3> QED BY <1>3, <3>2
    <2>5. Before(st, "rate", q.stage + 1)
      BY <1>5, <1>8
    <2>6. t.charges = 1
      BY <1>2, <2>3, <2>4
    <2>7. \A x \in {"authenticate", "mode", "engine"} : Before(st, x, q.stage + 1) => Before(st, x, q.stage)
      BY <1>5, <1>8
    <2>8. Bound(t.request, t) = Bound(q.request, q)
      BY <2>3 DEF Bound
    <2> QED BY <1>2, <1>3, <2>2, <2>3, <2>5, <2>6, <2>7, <2>8 DEF Walks, st
  <1>9. CASE stage = "engine"
    <2> DEFINE said == IF EngineAsked(conf, Bound(q.request, q), session) THEN pick.engine ELSE "absent"
    <2>1. said \in {"Allow", "absent"}
      BY <1>9, Passed
    <2> HIDE DEF said
    <2>2. t = [next EXCEPT !.consulted = said]
      BY <1>9 DEF said, next, Onward
    <2>3. t = [stage |-> q.stage + 1, request |-> q.request, charges |-> q.charges,
               consulted |-> said, identity |-> q.identity, bound |-> q.bound]
      BY <1>4, <2>2
    <2>4. /\ t.stage = q.stage + 1 /\ t.request = q.request /\ t.charges = q.charges
          /\ t.consulted = said /\ t.identity = q.identity /\ t.bound = q.bound
      BY <2>3, CallFields
    <2>5. \A x \in {"authenticate", "mode", "rate"} : Before(st, x, q.stage + 1) <=> Before(st, x, q.stage)
      BY <1>5, <1>9
    <2>6. Bound(t.request, t) = Bound(q.request, q)
      BY <2>4 DEF Bound
    <2> QED BY <1>2, <1>3, <2>1, <2>3, <2>4, <2>5, <2>6 DEF Walks, st
  <1>10. CASE stage \notin {"authenticate", "rate", "engine"}
    <2>1. t = next
      BY <1>10 DEF next, Onward
    <2>2. /\ t.stage = q.stage + 1 /\ t.request = q.request /\ t.charges = q.charges
          /\ t.consulted = q.consulted /\ t.identity = q.identity /\ t.bound = q.bound
      BY <1>4, <2>1
    <2>3. \A x \in {"authenticate", "rate", "engine"} : Before(st, x, q.stage + 1) <=> Before(st, x, q.stage)
      BY <1>5, <1>10
    <2>4. Bound(t.request, t) = Bound(q.request, q)
      BY <2>2 DEF Bound
    <2>5. Before(st, "mode", q.stage + 1) => AuthorizeMode(t.identity, Bound(t.request, t)) = Pass
      BY <1>2, <1>5, <2>2, <2>4, Passed
    <2> QED BY <1>2, <1>3, <1>4, <2>1, <2>2, <2>3, <2>4, <2>5 DEF Walks, st
  <1> QED BY <1>7, <1>8, <1>9, <1>10

\* A call begins with nothing behind it; a frame with its stream's identity.
LEMMA BeginStep ==
    ASSUME IngressInv, NEW c \in Clients, Begin(c)
    PROVE  IngressInv'
  <1> DEFINE request == Head(plan[c])
             q == [stage |-> 1, request |-> request, charges |-> 0, consulted |-> "no",
                   identity |-> IF request.binding = "stream" THEN stream[c].identity ELSE Nobody,
                   bound |-> IF request.binding = "stream" THEN stream[c].bound ELSE ""]
  <1>1. /\ plan \in [Clients -> Seq(Asked)] /\ DOMAIN call = Clients /\ DOMAIN stream = Clients
        /\ plan[c] \in Seq(Asked) /\ plan[c] # <<>>
    BY DEF IngressInv, Begin
  <1>2. /\ call' = [call EXCEPT ![c] = q]
        /\ plan' = [plan EXCEPT ![c] = Tail(plan[c])]
        /\ request.binding = "stream" => stream[c].open
        /\ conf' = conf /\ history' = history /\ stream' = stream
    BY DEF Begin
  <1>3. request \in Asked /\ Tail(plan[c]) \in Seq(Asked)
    BY <1>1
  <1>4. WellFormed(request)
    BY <1>3, AskedWellFormed
  <1>5. plan' \in [Clients -> Seq(Asked)]
    BY <1>1, <1>2, <1>3
  <1> HIDE DEF request
  <1>6. Walks(q, conf.engine)
    <2>1. /\ q.stage = 1 /\ q.request = request /\ q.charges = 0
          /\ q.identity = (IF request.binding = "stream" THEN stream[c].identity ELSE Nobody)
          /\ q = [stage |-> q.stage, request |-> q.request, charges |-> q.charges,
                  consulted |-> q.consulted, identity |-> q.identity, bound |-> q.bound]
      OBVIOUS
    <2> HIDE DEF q
    <2>2. q.stage \in 1..Len(Stages(request))
      BY <2>1, StagesGuarded
    <2>3. \A x : ~Before(Stages(request), x, 1)
      BY DEF Before
    <2>4. request.binding = "stream" => q.identity # Nobody
      <3> SUFFICES ASSUME request.binding = "stream" PROVE q.identity # Nobody
        OBVIOUS
      <3>1. Served(stream[c]) /\ stream[c].open
        BY <1>2 DEF IngressInv
      <3>2. stream[c].identity # Nobody
        BY <3>1 DEF Served, Closed
      <3> QED BY <2>1, <3>2
    <2> QED BY <1>4, <2>1, <2>2, <2>3, <2>4 DEF Walks
  <1> HIDE DEF q
  <1>7. \A d \in Clients : call'[d] = NoCall \/ Walks(call'[d], conf'.engine)
    BY <1>1, <1>2, <1>6 DEF IngressInv
  <1>8. Gated'
    BY <1>2 DEF IngressInv, Gated
  <1> QED BY <1>1, <1>2, <1>5, <1>7, <1>8 DEF IngressInv

\* A call that ends, by a refusal or by the request timeout.
LEMMA CallEnds ==
    ASSUME IngressInv, NEW c \in Clients, call' = [call EXCEPT ![c] = NoCall],
           stream' \in {stream, [stream EXCEPT ![c] = Closed]},
           conf' = conf, plan' = plan, history' = history
    PROVE  IngressInv'
  <1>1. \A d \in Clients : call'[d] = NoCall \/ Walks(call'[d], conf'.engine)
    BY DEF IngressInv
  <1>2. DOMAIN stream' = Clients /\ \A d \in Clients : Served(stream'[d])
    BY DEF IngressInv, Served
  <1>3. Gated'
    BY DEF IngressInv, Gated
  <1> QED BY <1>1, <1>2, <1>3 DEF IngressInv

\* Of the calls, the kernel and a stream take only those whose identity is known.
LEMMA KnownCaller ==
    ASSUME NEW q, NEW engine, Walks(q, engine), Stages(q.request)[q.stage] \in {"process", "open"}
    PROVE  q.identity # Nobody
  <1>1. CASE q.request.binding = "stream"
    BY <1>1 DEF Walks
  <1>2. CASE q.request.binding # "stream"
    <2>1. Before(Stages(q.request), "authenticate", q.stage)
      BY <1>2, StagesGuarded DEF Walks, Authenticated
    <2> QED BY <2>1 DEF Walks
  <1> QED BY <1>1, <1>2

\* What a passing stage does to the streams.
LEMMA StreamStep ==
    ASSUME IngressInv, NEW c \in Clients, call[c] # NoCall, NEW pick, Passes(c, pick)
    PROVE  DOMAIN stream' = Clients /\ \A d \in Clients : Served(stream'[d])
  <1> DEFINE stage == StageOf(c)
             env == [call[c].request.env EXCEPT !.sender = call[c].identity.sender]
             new == CASE stage = "open" -> [open |-> TRUE, identity |-> call[c].identity, bound |-> ""]
                      [] stage = "live" -> [stream[c] EXCEPT !.bound = env.session]
                      [] OTHER -> stream[c]
  <1>1. stream' = [stream EXCEPT ![c] = new]
    BY DEF Passes
  <1>2. DOMAIN stream = Clients /\ \A d \in Clients : Served(stream[d])
    BY DEF IngressInv
  <1>3. Served(new)
    <2>1. CASE stage = "open"
      <3>1. call[c].identity # Nobody
        BY <2>1, KnownCaller DEF IngressInv, StageOf
      <3>2. new = [open |-> TRUE, identity |-> call[c].identity, bound |-> ""]
        BY <2>1
      <3> HIDE DEF new
      <3> QED BY <3>1, <3>2 DEF Served
    <2>2. CASE stage = "live"
      <3> DEFINE sid == env.session
      <3>1. new = [stream[c] EXCEPT !.bound = sid]
        BY <2>2
      <3> HIDE DEF new, sid
      <3>2. CASE stream[c] = Closed
        <4>1. new = Closed
          BY <3>1, <3>2 DEF Closed
        <4> QED BY <4>1 DEF Served
      <3>3. CASE stream[c] # Closed
        <4>1. {"identity", "bound"} \subseteq DOMAIN stream[c] /\ stream[c].identity # Nobody
          BY <1>2, <3>3 DEF Served
        <4>2. DOMAIN new = DOMAIN stream[c] /\ new.identity = stream[c].identity
          BY <3>1, <4>1
        <4> QED BY <4>1, <4>2 DEF Served
      <3> QED BY <3>2, <3>3
    <2>3. CASE stage \notin {"open", "live"}
      <3>1. new = stream[c]
        BY <2>3
      <3> QED BY <1>2, <3>1
    <2> QED BY <2>1, <2>2, <2>3
  <1> HIDE DEF new
  <1> QED BY <1>1, <1>2, <1>3

\* What a passing stage does to the history.
LEMMA HistoryStep ==
    ASSUME IngressInv, NEW c \in Clients, call[c] # NoCall, NEW pick, Passes(c, pick)
    PROVE  (\E S : history' \in Seq(S)) /\ Gated'
  <1> DEFINE q == call[c]
             env == Bound(q.request, q)
             e == Entry(c, env)
  <1>1. history' = history \/ (StageOf(c) = "process" /\ history' = Append(history, e))
    BY DEF Passes, Apply, Bound
  <1>2. conf' = conf
    BY DEF Passes
  <1>3. PICK S : history \in Seq(S)
    BY DEF IngressInv
  <1>4. \A i \in 1..Len(history) :
           /\ history[i].identity # Nobody
           /\ history[i].env.sender = history[i].identity.sender
           /\ AuthorizeMode(history[i].identity, history[i].env) = Pass
           /\ history[i].charges = 1
           /\ conf.engine => history[i].consulted \in {"Allow", "absent"}
    BY DEF IngressInv, Gated
  <1>5. CASE history' = history
    BY <1>2, <1>3, <1>4, <1>5 DEF Gated
  <1>6. CASE StageOf(c) = "process" /\ history' = Append(history, e)
    <2>1. Walks(q, conf.engine) /\ Stages(q.request)[q.stage] = "process"
      BY <1>6 DEF IngressInv, StageOf
    <2>2. q.identity # Nobody
      BY <2>1, KnownCaller
    <2>3. /\ Before(Stages(q.request), "mode", q.stage) /\ Before(Stages(q.request), "rate", q.stage)
          /\ Before(Stages(q.request), "engine", q.stage)
      BY <2>1, StagesGuarded DEF Walks, Guarded
    <2>4. /\ AuthorizeMode(q.identity, env) = Pass /\ q.charges = 1
          /\ conf.engine => q.consulted \in {"Allow", "absent"}
      BY <2>1, <2>3 DEF Walks
    <2>5. env.sender = q.identity.sender
      BY <2>1 DEF Walks, WellFormed, Bound
    <2>6. e.env = env /\ e.identity = q.identity /\ e.charges = q.charges /\ e.consulted = q.consulted
      BY DEF Entry
    <2> HIDE DEF e, env, q
    <2>7. /\ e.identity # Nobody /\ e.env.sender = e.identity.sender
          /\ AuthorizeMode(e.identity, e.env) = Pass /\ e.charges = 1
          /\ conf.engine => e.consulted \in {"Allow", "absent"}
      BY <2>2, <2>4, <2>5, <2>6
    <2>8. /\ history' \in Seq(S \cup {e}) /\ Len(history') = Len(history) + 1 /\ Len(history) \in Nat
          /\ \A i \in 1..Len(history) : history'[i] = history[i]
          /\ history'[Len(history) + 1] = e
      BY <1>3, <1>6
    <2>9. \A i \in 1..Len(history') : i \in 1..Len(history) \/ i = Len(history) + 1
      BY <2>8
    <2>10. Gated'
      BY <1>2, <1>4, <2>7, <2>8, <2>9 DEF Gated
    <2> QED BY <2>8, <2>10
  <1> QED BY <1>1, <1>5, <1>6

\* A stage passes.
LEMMA PassesStep ==
    ASSUME IngressInv, NEW c \in Clients, call[c] # NoCall, NEW pick,
           Check(StageOf(c), call[c].request, call[c], session, pick) \in {Pass} \cup KernelAccepts,
           Passes(c, pick)
    PROVE  IngressInv'
  <1> DEFINE q == call[c]
             last == q.stage = Len(Stages(q.request))
             new == IF last THEN NoCall ELSE Onward(q, StageOf(c), pick)
  <1>1. DOMAIN call = Clients /\ plan \in [Clients -> Seq(Asked)] /\ plan' = plan /\ conf' = conf
    BY DEF IngressInv, Passes
  <1>2. Walks(q, conf.engine)
    BY DEF IngressInv
  <1>3. call' = [call EXCEPT ![c] = new]
    BY Zenon DEF Passes, Bound, Onward
  <1>4. ~last => Walks(Onward(q, StageOf(c), pick), conf.engine)
    BY <1>2, WalksOn DEF StageOf
  <1>5. new = NoCall \/ Walks(new, conf.engine)
    BY <1>4
  <1> HIDE DEF new
  <1>6. DOMAIN call' = Clients /\ \A d \in Clients : call'[d] = NoCall \/ Walks(call'[d], conf'.engine)
    BY <1>1, <1>3, <1>5 DEF IngressInv
  <1>7. DOMAIN stream' = Clients /\ \A d \in Clients : Served(stream'[d])
    BY StreamStep
  <1>8. (\E S : history' \in Seq(S)) /\ Gated'
    BY HistoryStep
  <1> QED BY <1>1, <1>6, <1>7, <1>8 DEF IngressInv

LEMMA IngressStep == IngressInv /\ [IngressNext]_ingressVars => IngressInv'
  <1> SUFFICES ASSUME IngressInv, [IngressNext]_ingressVars PROVE IngressInv'
    OBVIOUS
  <1>1. ASSUME NEW c \in Clients, Begin(c) PROVE IngressInv'
    BY <1>1, BeginStep
  <1>2. ASSUME NEW c \in Clients, Skip(c) PROVE IngressInv'
    <2>1. /\ plan[c] \in Seq(Asked) /\ plan[c] # <<>> /\ plan \in [Clients -> Seq(Asked)]
          /\ plan' = [plan EXCEPT ![c] = Tail(plan[c])]
          /\ conf' = conf /\ history' = history /\ call' = call /\ stream' = stream
      BY <1>2 DEF IngressInv, Skip
    <2>2. Tail(plan[c]) \in Seq(Asked)
      BY <2>1
    <2>3. plan' \in [Clients -> Seq(Asked)]
      BY <2>1, <2>2
    <2>4. Gated'
      BY <2>1 DEF IngressInv, Gated
    <2> QED BY <2>1, <2>3, <2>4 DEF IngressInv
  <1>3. ASSUME NEW c \in Clients, TimedOut(c) PROVE IngressInv'
    BY <1>3, CallEnds DEF TimedOut
  <1>4. ASSUME NEW c \in Clients, NEW pick \in Picks, Step(c, pick) PROVE IngressInv'
    <2> DEFINE err == Check(StageOf(c), call[c].request, call[c], session, pick)
    <2>1. call[c] # NoCall
      BY <1>4 DEF Step
    <2>2. CASE err \in {Pass} \cup KernelAccepts
      <3>1. Passes(c, pick)
        BY <1>4, <2>2 DEF Step
      <3> QED BY <2>1, <2>2, <3>1, PassesStep
    <2>3. CASE err \notin {Pass} \cup KernelAccepts
      <3>1. Refuses(c, err)
        BY <1>4, <2>3 DEF Step
      <3> HIDE DEF err
      <3>2. /\ call' = [call EXCEPT ![c] = NoCall]
            /\ stream' \in {stream, [stream EXCEPT ![c] = Closed]}
            /\ conf' = conf /\ plan' = plan /\ history' = history
        BY <3>1 DEF Refuses
      <3> QED BY <3>2, CallEnds
    <2> QED BY <2>2, <2>3
  <1>5. CASE Withdraw
    <2>1. conf' = conf /\ history' = history /\ plan' = plan /\ call' = call /\ stream' = stream
      BY <1>5 DEF Withdraw
    <2>2. Gated'
      BY <2>1 DEF IngressInv, Gated
    <2> QED BY <2>1, <2>2 DEF IngressInv
  <1>6. CASE UNCHANGED ingressVars
    <2>1. conf' = conf /\ history' = history /\ plan' = plan /\ call' = call /\ stream' = stream
      BY <1>6 DEF ingressVars
    <2>2. Gated'
      BY <2>1 DEF IngressInv, Gated
    <2> QED BY <2>1, <2>2 DEF IngressInv
  <1> QED BY <1>1, <1>2, <1>3, <1>4, <1>5, <1>6 DEF IngressNext

(* The verdicts: a call that nothing interrupts is answered by the first   *)
(* stage that stops it.                                                    *)

Caller(request) ==
    [identity |-> AuthenticateMetadata(conf, Metadata(request), rotated), bound |-> ""]

Result(request, sess, pick, i) == Check(Stages(request)[i], request, Caller(request), sess, pick)

Stops(res) == res \notin {Pass} \cup KernelAccepts

\* The first stage that stops a call answers it.
LEMMA FirstStop ==
    ASSUME NEW request, NEW sess, NEW pick, NEW m \in 1..Len(Stages(request)),
           Stops(Result(request, sess, pick, m)),
           \A i \in 1..(m - 1) : ~Stops(Result(request, sess, pick, i))
    PROVE  Verdict(request, sess, pick)
              = Answer(request, Stages(request)[m], Result(request, sess, pick, m))
  <1> DEFINE res(i) == Result(request, sess, pick, i)
             stops == {i \in 1..Len(Stages(request)) : res(i) \notin {Pass} \cup KernelAccepts}
             first == CHOOSE i \in stops : \A j \in stops : i <= j
  <1>0. Len(Stages(request)) \in Nat
    BY StagesGuarded
  <1>1. m \in stops /\ \A j \in stops : m <= j
    <2>1. m \in stops
      BY DEF Stops
    <2>2. ASSUME NEW j \in stops, ~(m <= j) PROVE FALSE
      <3>1. j \in 1..(m - 1)
        BY <1>0, <2>2
      <3> QED BY <2>2, <3>1 DEF Stops
    <2> QED BY <2>1, <2>2
  <1>2. first \in stops /\ \A j \in stops : first <= j
    BY <1>1
  <1>3. first = m
    BY <1>0, <1>1, <1>2
  <1>4. Verdict(request, sess, pick) = IF stops = {} THEN Done(res(Len(Stages(request))))
                                       ELSE Answer(request, Stages(request)[first], res(first))
    BY Zenon DEF Verdict, Result, Caller
  <1> HIDE DEF stops, first, res
  <1>5. stops # {}
    BY <1>1
  <1>6. Verdict(request, sess, pick) = Answer(request, Stages(request)[m], res(m))
    BY <1>3, <1>4, <1>5
  <1> QED BY <1>6 DEF res

\* A call is accepted when no stage stops it, and only then.
LEMMA AcceptedUnstopped ==
    ASSUME NEW request, NEW sess, NEW pick
    PROVE  /\ Accepts(Verdict(request, sess, pick)) <=>
                 \A i \in 1..Len(Stages(request)) : ~Stops(Result(request, sess, pick, i))
           /\ Accepts(Verdict(request, sess, pick)) =>
                 Verdict(request, sess, pick) = Done(Result(request, sess, pick, Len(Stages(request))))
  <1> DEFINE res(i) == Result(request, sess, pick, i)
             stops == {i \in 1..Len(Stages(request)) : res(i) \notin {Pass} \cup KernelAccepts}
             first == CHOOSE i \in stops : \A j \in stops : i <= j
             v == Verdict(request, sess, pick)
  <1>1. v = IF stops = {} THEN Done(res(Len(Stages(request))))
            ELSE Answer(request, Stages(request)[first], res(first))
    BY Zenon DEF Verdict, Result, Caller
  <1>2. \A r, x, e : Answer(r, x, e).how # "ok"
    BY DEF Answer
  <1>3. \A x : Done(x).how = "ok"
    BY DEF Done
  <1>4. stops = {} <=> \A i \in 1..Len(Stages(request)) : ~Stops(res(i))
    BY DEF Stops
  <1> HIDE DEF stops, first, res, v
  <1>5. CASE stops = {}
    <2>1. v = Done(res(Len(Stages(request))))
      BY <1>1, <1>5
    <2> QED BY <1>3, <1>4, <1>5, <2>1 DEF Accepts, v, res
  <1>6. CASE stops # {}
    <2>1. v = Answer(request, Stages(request)[first], res(first))
      BY <1>1, <1>6
    <2>2. ~Accepts(v)
      BY <1>2, <2>1 DEF Accepts
    <2> QED BY <1>4, <1>6, <2>2 DEF v, res
  <1> QED BY <1>5, <1>6

\* What comes before the authentication of a call.
LEMMA BeforeAuthentication ==
    ASSUME NEW request, request.binding # "stream", request.rpc \notin PublicRpcs
    PROVE  \E k \in 1..Len(Stages(request)) :
              /\ Stages(request)[k] = "authenticate"
              /\ \A i \in 1..(k - 1) :
                    /\ Stages(request)[i] \in
                          {"preflight", "route", "method", "content_type", "accept", "shape"}
                    /\ request.binding = "http" => Stages(request)[i] # "shape"
  <1> DEFINE rpc == request.rpc
  <1>1. CASE request.binding = "http"
    <2> DEFINE tail == IF rpc = "Send" THEN SendSeam ELSE Handler(rpc)
    <2>1. Stages(request) = HttpOpening(rpc) \o tail
      BY <1>1 DEF Stages, HttpStages, HttpOpening
    <2>2. tail \in Seq(StageNames)
      <3>1. CASE rpc = "Send"
        <4>1. tail = SendSeam
          BY <3>1
        <4> HIDE DEF tail
        <4> QED BY <4>1, SeamStages
      <3>2. CASE rpc # "Send"
        BY <3>2, HandlerGuarded
      <3> QED BY <3>1, <3>2
    <2> HIDE DEF tail
    <2>3. HttpOpening(rpc) \in Seq(StageNames)
      BY HttpOpeningStages
    <2>4. PICK k \in 1..Len(HttpOpening(rpc)) :
             /\ HttpOpening(rpc)[k] = "authenticate"
             /\ \A i \in 1..(k - 1) : HttpOpening(rpc)[i] \in
                   {"preflight", "route", "method", "content_type", "accept"}
      BY HttpOpeningStages
    <2>5. /\ Len(HttpOpening(rpc)) \in Nat /\ Len(tail) \in Nat
          /\ Len(Stages(request)) = Len(HttpOpening(rpc)) + Len(tail)
          /\ \A i \in 1..Len(HttpOpening(rpc)) : Stages(request)[i] = HttpOpening(rpc)[i]
      BY <2>1, <2>2, <2>3, Joined
    <2>6. k \in 1..Len(Stages(request)) /\ Stages(request)[k] = "authenticate"
      BY <2>4, <2>5
    <2>7. ASSUME NEW i \in 1..(k - 1)
          PROVE  Stages(request)[i] \in {"preflight", "route", "method", "content_type", "accept"}
      <3>1. i \in 1..Len(HttpOpening(rpc))
        BY <2>4, <2>5
      <3> QED BY <2>4, <2>5, <3>1
    <2> QED BY <2>6, <2>7
  <1>2. CASE request.binding # "http" /\ rpc = "Send"
    <2>1. Stages(request) = <<"shape", "authenticate">> \o SendSeam
      <3>1. Stages(request) = Handler(rpc)
        BY <1>2 DEF Stages
      <3>2. Handler(rpc) = <<"shape", "authenticate">> \o SendSeam
        BY <1>2, Zenon DEF Handler, ControlRpcs
      <3> QED BY <3>1, <3>2
    <2>2. /\ Len(Stages(request)) = 8 /\ Stages(request)[1] = "shape"
          /\ Stages(request)[2] = "authenticate"
      BY <2>1, SendStages
    <2>3. 2 \in 1..Len(Stages(request)) /\ \A i \in 1..(2 - 1) : i = 1
      BY <2>2
    <2> QED BY <1>2, <2>2, <2>3
  <1>3. CASE request.binding # "http" /\ rpc # "Send"
    <2>1. Stages(request) = Handler(rpc)
      BY <1>3 DEF Stages
    <2>2. Handler(rpc) \in {<<"authenticate", "known", "authority", "control">>,
                            <<"authenticate", "known", "member", "access", "known", "answer">>,
                            <<"authenticate", "known", "member", "access", "rate", "answer">>,
                            <<"authenticate", "open">>, <<"authenticate", "answer">>}
      BY <1>3, Zenon DEF Handler, PublicRpcs
    <2>3. Handler(rpc)[1] = "authenticate"
      BY <2>2
    <2>4. 1 \in 1..Len(Handler(rpc)) /\ \A i \in 1..(1 - 1) : FALSE
      BY <1>3, HandlerGuarded
    <2> QED BY <2>1, <2>3, <2>4
  <1> QED BY <1>1, <1>2, <1>3

\* The status of a caller that is not authenticated.
LEMMA UnauthorisedStatus == StatusResponse(CodedStatus("Unauthenticated")) = 401
  <1>1. ErrorCode["Unauthenticated"] = "UNAUTHENTICATED"
    BY DEF ErrorCode
  <1>2. "UNAUTHENTICATED" \in DOMAIN HttpStatus /\ HttpStatus["UNAUTHENTICATED"] = 401
    BY DEF HttpStatus, RegistryCodes
  <1>3. GrpcStatus["UNAUTHENTICATED"] = 16
    BY DEF GrpcStatus, RegistryCodes
  <1> QED BY <1>1, <1>2, <1>3 DEF StatusResponse, CodedStatus

\* What stands before the session answers alike whether there is one.
LEMMA StrangerStops ==
    ASSUME NEW p, p.binding # "stream", p.rpc \notin PublicRpcs,
           AuthenticateMetadata(conf, Metadata(p), rotated) = Nobody
    PROVE  /\ Verdict(p, session, Willing) = Verdict(p, NoSession, Willing)
           /\ p.binding = "http" =>
                 \/ Verdict(p, session, Willing).how = "bare"
                 \/ Verdict(p, session, Willing).status = 401
  <1> DEFINE st == Stages(p)
             res(i) == Result(p, session, Willing, i)
             none(i) == Result(p, NoSession, Willing, i)
  <1>0. Len(st) \in Nat
    BY StagesGuarded
  <1>1. PICK k \in 1..Len(st) :
           /\ st[k] = "authenticate"
           /\ \A i \in 1..(k - 1) :
                 /\ st[i] \in {"preflight", "route", "method", "content_type", "accept", "shape"}
                 /\ p.binding = "http" => st[i] # "shape"
    BY BeforeAuthentication
  <1>2. \A i \in 1..k : res(i) = none(i)
    <2> SUFFICES ASSUME NEW i \in 1..k PROVE res(i) = none(i)
      OBVIOUS
    <2>1. st[i] \in {"preflight", "route", "method", "content_type", "accept", "shape", "authenticate"}
      BY <1>0, <1>1
    <2> HIDE DEF st
    <2>2. Check(st[i], p, Caller(p), session, Willing) = Check(st[i], p, Caller(p), NoSession, Willing)
      BY <2>1 DEF Check
    <2> QED BY <2>2 DEF Result, st
  <1>3. res(k) = "Unauthenticated" /\ Stops(res(k))
    <2>1. res(k) = Check("authenticate", p, Caller(p), session, Willing)
      BY <1>1 DEF Result
    <2>2. Check("authenticate", p, Caller(p), session, Willing) = "Unauthenticated"
      BY DEF Check
    <2> QED BY <2>1, <2>2 DEF Stops, Pass, KernelAccepts
  <1> DEFINE stops == {i \in 1..k : Stops(res(i))}
  <1>4. stops \in SUBSET Nat /\ k \in stops
    BY <1>0, <1>1, <1>3
  <1>5. PICK m \in stops : \A j \in stops : m <= j
    BY <1>4, EarliestNatural
  <1>6. m \in 1..Len(st) /\ m \in 1..k /\ Stops(res(m)) /\ \A i \in 1..(m - 1) : i \in 1..k /\ ~Stops(res(i))
    BY <1>0, <1>1, <1>5
  <1>7. Verdict(p, session, Willing) = Answer(p, st[m], res(m))
    BY <1>6, FirstStop
  <1>8. Verdict(p, NoSession, Willing) = Answer(p, st[m], none(m))
    <2>1. Stops(none(m)) /\ \A i \in 1..(m - 1) : ~Stops(none(i))
      BY <1>2, <1>6
    <2> QED BY <1>6, <2>1, FirstStop
  <1>9. Verdict(p, session, Willing) = Verdict(p, NoSession, Willing)
    BY <1>2, <1>6, <1>7, <1>8
  <1>10. ASSUME p.binding = "http", m # k PROVE Answer(p, st[m], res(m)).how = "bare"
    <2>1. m \in 1..(k - 1)
      BY <1>0, <1>1, <1>6, <1>10
    <2>2. st[m] \in {"preflight", "route", "method", "content_type", "accept"}
      BY <1>1, <1>10, <2>1
    <2> DEFINE x == st[m]
    <2>3. res(m) = Check(x, p, Caller(p), session, Willing)
      BY DEF Result
    <2> HIDE DEF x
    <2>4. Check(x, p, Caller(p), session, Willing) \in {"204", "404", "405", "415", "406", Pass}
      BY <2>2 DEF Check, x
    <2>5. res(m) \in BareStatuses
      BY <1>6, <2>3, <2>4 DEF Stops, BareStatuses
    <2> HIDE DEF res
    <2> QED BY <2>5 DEF Answer
  <1>11. ASSUME p.binding = "http", m = k PROVE Answer(p, st[m], res(m)).status = 401
    <2>1. st[m] = "authenticate" /\ res(m) = "Unauthenticated"
      BY <1>1, <1>3, <1>11
    <2>2. Answer(p, "authenticate", "Unauthenticated").status
             = StatusResponse(CodedStatus("Unauthenticated"))
      BY <1>11 DEF Answer, BareStatuses
    <2> HIDE DEF res, st
    <2> QED BY <2>1, <2>2, UnauthorisedStatus
  <1> QED BY <1>7, <1>9, <1>10, <1>11

\* What the stages of Send answer.
LEMMA SendAnswers ==
    ASSUME NEW env, NEW identity, NEW sess
    PROVE  /\ EnvelopeShape(env) \notin BareStatuses \cup {"InvalidRequest"}
           /\ SenderBinding(identity, env) \notin BareStatuses \cup {"InvalidRequest"}
           /\ AuthorizeMode(identity, env) \notin BareStatuses \cup {"InvalidRequest"}
           /\ KernelVerdict(env, sess) \notin BareStatuses \cup {"InvalidRequest"}
  <1>1. EnvelopeShape(env) \in {"InvalidMacpVersion", "InvalidEnvelope", "PayloadTooLarge", Pass}
    BY DEF EnvelopeShape
  <1>2. SenderBinding(identity, env) \in {"Unauthenticated", Pass}
    BY DEF SenderBinding
  <1>3. AuthorizeMode(identity, env) \in {"Forbidden", Pass}
    BY DEF AuthorizeMode
  <1>4. KernelVerdict(env, sess) \in
           {"InvalidSessionId", "UnknownMode", "duplicate", "SessionAlreadyExists", "accepted",
            "InvalidPayload", "broadcast", "UnknownSession", "InvalidEnvelope", "SessionNotOpen",
            "Forbidden"}
    BY DEF KernelVerdict
  <1> QED BY <1>1, <1>2, <1>3, <1>4 DEF BareStatuses, Pass

\* An Ack is the same over gRPC and over HTTP.
LEMMA SameAck ==
    ASSUME NEW p, NEW q, p.rpc = "Send", q.rpc = "Send", p.binding = "grpc", q.binding = "http",
           NEW stage \in {"shape", "sender", "mode", "rate", "engine", "process"},
           NEW err, err \notin BareStatuses \cup {"InvalidRequest"}
    PROVE  Answer(p, stage, err) = Answer(q, stage, err)
  <1>1. Answer(p, stage, err) = [how |-> "ack", code |-> ErrorCode[err]]
    BY DEF Answer
  <1>2. Answer(q, stage, err) = [how |-> "ack", code |-> ErrorCode[err]]
    BY DEF Answer
  <1> QED BY <1>1, <1>2

\* A request over another binding is otherwise the same.
LEMMA OverFields ==
    ASSUME NEW p, WellFormed(p), NEW binding
    PROVE  /\ Over(p, binding).binding = binding /\ Over(p, binding).rpc = p.rpc
           /\ Over(p, binding).cred = p.cred /\ Over(p, binding).env = p.env
           /\ Over(p, binding).faults = p.faults
  BY DEF WellFormed, Over

\* The checks of an envelope look at the envelope, not at the binding.
LEMMA SameChecks ==
    ASSUME NEW p, NEW q, p.env = q.env, NEW at, NEW sess, NEW pick,
           NEW stage \in {"shape", "scoped", "bound", "sender", "session", "mode", "rate", "engine",
                          "live", "process"}
    PROVE  Check(stage, p, at, sess, pick) = Check(stage, q, at, sess, pick)
  BY DEF Check

\* The stages of Send over gRPC.
LEMMA GrpcSend ==
    ASSUME NEW g, g.rpc = "Send", g.binding = "grpc"
    PROVE  /\ Len(Stages(g)) = 8 /\ Stages(g)[1] = "shape" /\ Stages(g)[2] = "authenticate"
           /\ \A i \in 1..6 : Stages(g)[2 + i] = SendSeam[i]
  <1>1. Stages(g) = Handler(g.rpc)
    BY DEF Stages
  <1>2. Handler(g.rpc) = <<"shape", "authenticate">> \o SendSeam
    BY Zenon DEF Handler, ControlRpcs
  <1> QED BY <1>1, <1>2, SendStages

\* The stages of Send over HTTP.
LEMMA HttpSend ==
    ASSUME NEW h, h.rpc = "Send", h.binding = "http"
    PROVE  /\ Len(Stages(h)) = 13
           /\ \A i \in 1..7 : Stages(h)[i] \in
                 {"preflight", "route", "method", "content_type", "authenticate", "body", "decode"}
           /\ \A i \in 1..6 : Stages(h)[7 + i] = SendSeam[i]
  <1> DEFINE o == HttpOpening("Send")
  <1>1. Stages(h) = o \o SendSeam
    BY DEF Stages, HttpStages, HttpOpening
  <1>2. /\ o \in Seq(StageNames) /\ Len(o) = 7 /\ o[1] = "preflight" /\ o[2] = "route" /\ o[3] = "method"
        /\ o[4] = "content_type" /\ o[5] = "authenticate" /\ o[6] = "body" /\ o[7] = "decode"
    BY HttpOpeningStages
  <1> HIDE DEF o
  <1> DEFINE st == o \o SendSeam
  <1>3. /\ Len(st) = Len(o) + Len(SendSeam)
        /\ \A i \in 1..Len(o) : st[i] = o[i]
        /\ \A i \in 1..Len(SendSeam) : st[Len(o) + i] = SendSeam[i]
    BY <1>2, SeamStages, Joined
  <1> HIDE DEF st
  <1>4. \A i \in 1..7 : o[i] \in
           {"preflight", "route", "method", "content_type", "authenticate", "body", "decode"}
    BY <1>2
  <1>5. Stages(h) = st
    BY <1>1 DEF st
  <1>6. /\ Len(st) = 13
        /\ \A i \in 1..7 : st[i] \in
              {"preflight", "route", "method", "content_type", "authenticate", "body", "decode"}
        /\ \A i \in 1..6 : st[7 + i] = SendSeam[i]
    BY <1>2, <1>3, <1>4, SeamStages
  <1> QED BY <1>5, <1>6

\* One envelope, one credential: what the three bindings make of it.
LEMMA OneAnswer ==
    ASSUME NEW p, WellFormed(p), p.rpc = "Send", p.binding = "grpc", p.faults = {},
           p.cred.header = "authorization",
           AuthenticateMetadata(conf, p.cred, rotated) # Nobody, NEW pick
    PROVE  LET grpc == Verdict(Over(p, "grpc"), session, pick)
               http == Verdict(Over(p, "http"), session, pick)
               frame == Verdict(Over(p, "stream"), session, pick)
           IN  /\ grpc = http
               /\ Accepts(frame) => frame = grpc
               /\ Accepts(grpc) /\ ~Accepts(frame) =>
                   \/ p.env.session \in {"", "blank"}
                   \/ session # NoSession /\ (session.state # "Open" \/ session.mode # p.env.mode)
  <1> DEFINE g == Over(p, "grpc")
             h == Over(p, "http")
             f == Over(p, "stream")
             at == [identity |-> AuthenticateMetadata(conf, p.cred, rotated), bound |-> ""]
             chk(x) == Check(x, p, at, session, pick)
             resg(i) == Result(g, session, pick, i)
             resh(i) == Result(h, session, pick, i)
             resf(i) == Result(f, session, pick, i)
             seam(i) == chk(SendSeam[i])
  <1>1. /\ g.rpc = "Send" /\ g.binding = "grpc" /\ g.cred = p.cred /\ g.env = p.env /\ g.faults = {}
        /\ h.rpc = "Send" /\ h.binding = "http" /\ h.cred = p.cred /\ h.env = p.env /\ h.faults = {}
        /\ f.rpc = "Send" /\ f.binding = "stream" /\ f.cred = p.cred /\ f.env = p.env /\ f.faults = {}
    BY OverFields
  <1> HIDE DEF g, h, f
  <1>2. Metadata(g) = p.cred /\ Metadata(h) = p.cred /\ Metadata(f) = p.cred
    BY <1>1 DEF Metadata, MetadataFromHeaders
  <1>3. Caller(g) = at /\ Caller(h) = at /\ Caller(f) = at
    BY <1>2 DEF Caller
  <1>4. at.identity # Nobody /\ at.bound = ""
    OBVIOUS
  <1> HIDE DEF at
  <1>5. \A x \in {"shape", "scoped", "bound", "sender", "session", "mode", "rate", "engine", "live", "process"} :
           /\ Check(x, g, at, session, pick) = chk(x)
           /\ Check(x, h, at, session, pick) = chk(x)
           /\ Check(x, f, at, session, pick) = chk(x)
    BY <1>1, SameChecks
  <1>6. \A i \in 1..6 : SendSeam[i] \in {"shape", "sender", "mode", "rate", "engine", "process"}
    BY SeamStages
  <1>7. /\ Len(Stages(g)) = 8 /\ resg(1) = seam(1) /\ ~Stops(resg(2))
        /\ \A i \in 1..6 : resg(2 + i) = seam(i)
    <2>1. /\ Len(Stages(g)) = 8 /\ Stages(g)[1] = "shape" /\ Stages(g)[2] = "authenticate"
          /\ \A i \in 1..6 : Stages(g)[2 + i] = SendSeam[i]
      BY <1>1, GrpcSend
    <2>2. resg(1) = seam(1)
      BY <1>3, <1>5, <2>1, SeamStages DEF Result
    <2>3. ~Stops(resg(2))
      <3>1. Check("authenticate", g, at, session, pick) = Pass
        BY <1>2 DEF Check
      <3> QED BY <1>3, <2>1, <3>1 DEF Result, Stops
    <2>4. \A i \in 1..6 : resg(2 + i) = seam(i)
      BY <1>3, <1>5, <1>6, <2>1 DEF Result
    <2> QED BY <2>1, <2>2, <2>3, <2>4
  <1>8. /\ Len(Stages(h)) = 13 /\ \A i \in 1..7 : ~Stops(resh(i))
        /\ \A i \in 1..6 : resh(7 + i) = seam(i)
    <2>1. /\ Len(Stages(h)) = 13
          /\ \A i \in 1..7 : Stages(h)[i] \in
                {"preflight", "route", "method", "content_type", "authenticate", "body", "decode"}
          /\ \A i \in 1..6 : Stages(h)[7 + i] = SendSeam[i]
      BY <1>1, HttpSend
    <2>2. ASSUME NEW i \in 1..7 PROVE ~Stops(resh(i))
      <3> DEFINE x == Stages(h)[i]
      <3>1. x \in {"preflight", "route", "method", "content_type", "authenticate", "body", "decode"}
        BY <2>1
      <3>2. resh(i) = Check(x, h, at, session, pick)
        BY <1>3 DEF Result
      <3> HIDE DEF x
      <3>3. Check(x, h, at, session, pick) = Pass
        BY <1>1, <1>2, <3>1 DEF Check
      <3> QED BY <3>2, <3>3 DEF Stops
    <2>3. \A i \in 1..6 : resh(7 + i) = seam(i)
      BY <1>3, <1>5, <1>6, <2>1 DEF Result
    <2> QED BY <2>1, <2>2, <2>3
  <1>9. \A i \in 1..6 : seam(i) \notin BareStatuses \cup {"InvalidRequest"}
    <2> SUFFICES ASSUME NEW i \in 1..6 PROVE seam(i) \notin BareStatuses \cup {"InvalidRequest"}
      OBVIOUS
    <2> DEFINE x == SendSeam[i]
               env == [p.env EXCEPT !.sender = at.identity.sender]
    <2>1. x \in {"shape", "sender", "mode", "rate", "engine", "process"}
      BY <1>6
    <2> HIDE DEF x
    <2>2. chk(x) \in {EnvelopeShape(p.env), SenderBinding(at.identity, p.env), AuthorizeMode(at.identity, env),
                      KernelVerdict(env, session), "RateLimited", "PolicyDenied", Pass}
      BY <2>1 DEF Check
    <2> HIDE DEF chk, env
    <2> QED BY <2>2, SendAnswers DEF x, BareStatuses, Pass
  <1>10. Verdict(g, session, pick) = Verdict(h, session, pick)
    <2>1. CASE \E i \in 1..6 : Stops(seam(i))
      <3> DEFINE stops == {i \in 1..6 : Stops(seam(i))}
      <3>1. stops \in SUBSET Nat /\ stops # {}
        BY <2>1
      <3>2. PICK m \in stops : \A j \in stops : m <= j
        BY <3>1, EarliestNatural
      <3>3. m \in 1..6 /\ Stops(seam(m)) /\ \A i \in 1..(m - 1) : ~Stops(seam(i))
        BY <3>2
      <3> HIDE DEF seam, resg, resh
      <3>4. Verdict(h, session, pick) = Answer(h, SendSeam[m], seam(m))
        <4>1. 7 + m \in 1..Len(Stages(h)) /\ Stops(resh(7 + m))
          BY <1>8, <3>3
        <4>2. ASSUME NEW i \in 1..(7 + m - 1) PROVE ~Stops(resh(i))
          <5>1. CASE i <= 7
            BY <1>8, <5>1
          <5>2. CASE ~(i <= 7)
            <6>1. i - 7 \in 1..(m - 1) /\ i - 7 \in 1..6 /\ 7 + (i - 7) = i
              BY <3>3, <5>2
            <6> QED BY <1>8, <3>3, <6>1
          <5> QED BY <5>1, <5>2
        <4>3. Verdict(h, session, pick) = Answer(h, Stages(h)[7 + m], resh(7 + m))
          BY <4>1, <4>2, FirstStop DEF resh
        <4>4. Stages(h)[7 + m] = SendSeam[m]
          BY <1>1, <3>3, HttpSend
        <4> QED BY <1>8, <3>3, <4>3, <4>4
      <3>5. Verdict(g, session, pick) = Answer(g, SendSeam[m], seam(m))
        <4>1. CASE m = 1
          <5>1. 1 \in 1..Len(Stages(g)) /\ Stops(resg(1)) /\ \A i \in 1..(1 - 1) : ~Stops(resg(i))
            BY <1>7, <3>3, <4>1
          <5>2. Verdict(g, session, pick) = Answer(g, Stages(g)[1], resg(1))
            BY <5>1, FirstStop DEF resg
          <5>3. Stages(g)[1] = SendSeam[m]
            BY <1>1, <4>1, GrpcSend, SeamStages
          <5> QED BY <1>7, <4>1, <5>2, <5>3
        <4>2. CASE m # 1
          <5>1. 2 + m \in 1..Len(Stages(g)) /\ Stops(resg(2 + m))
            BY <1>7, <3>3
          <5>2. ASSUME NEW i \in 1..(2 + m - 1) PROVE ~Stops(resg(i))
            <6>1. CASE i = 1
              <7>1. ~Stops(seam(1))
                BY <3>3, <4>2
              <7> QED BY <1>7, <6>1, <7>1
            <6>2. CASE i = 2
              BY <1>7, <6>2
            <6>3. CASE i # 1 /\ i # 2
              <7>1. i - 2 \in 1..(m - 1) /\ i - 2 \in 1..6 /\ 2 + (i - 2) = i
                BY <3>3, <6>3
              <7> QED BY <1>7, <3>3, <7>1
            <6> QED BY <6>1, <6>2, <6>3
          <5>3. Verdict(g, session, pick) = Answer(g, Stages(g)[2 + m], resg(2 + m))
            BY <5>1, <5>2, FirstStop DEF resg
          <5>4. Stages(g)[2 + m] = SendSeam[m]
            BY <1>1, <3>3, GrpcSend
          <5> QED BY <1>7, <3>3, <5>3, <5>4
        <4> QED BY <4>1, <4>2
      <3>6. Answer(g, SendSeam[m], seam(m)) = Answer(h, SendSeam[m], seam(m))
        BY <1>1, <1>6, <1>9, <3>3, SameAck
      <3> QED BY <3>4, <3>5, <3>6
    <2>2. CASE \A i \in 1..6 : ~Stops(seam(i))
      <3> HIDE DEF seam, resg, resh
      <3>1. \A i \in 1..Len(Stages(h)) : ~Stops(resh(i))
        <4> SUFFICES ASSUME NEW i \in 1..13 PROVE ~Stops(resh(i))
          BY <1>8
        <4>1. CASE i <= 7
          BY <1>8, <4>1
        <4>2. CASE ~(i <= 7)
          <5>1. i - 7 \in 1..6 /\ 7 + (i - 7) = i
            BY <4>2
          <5> QED BY <1>8, <2>2, <5>1
        <4> QED BY <4>1, <4>2
      <3>2. \A i \in 1..Len(Stages(g)) : ~Stops(resg(i))
        <4> SUFFICES ASSUME NEW i \in 1..8 PROVE ~Stops(resg(i))
          BY <1>7
        <4>1. CASE i = 1
          BY <1>7, <2>2, <4>1
        <4>2. CASE i = 2
          BY <1>7, <4>2
        <4>3. CASE i # 1 /\ i # 2
          <5>1. i - 2 \in 1..6 /\ 2 + (i - 2) = i
            BY <4>3
          <5> QED BY <1>7, <2>2, <5>1
        <4> QED BY <4>1, <4>2, <4>3
      <3>3. Verdict(h, session, pick) = Done(resh(13))
        BY <1>8, <3>1, AcceptedUnstopped DEF resh
      <3>4. Verdict(g, session, pick) = Done(resg(8))
        BY <1>7, <3>2, AcceptedUnstopped DEF resg
      <3>5. resh(13) = seam(6) /\ resg(8) = seam(6)
        <4>1. 6 \in 1..6 /\ 7 + 6 = 13 /\ 2 + 6 = 8
          OBVIOUS
        <4> QED BY <1>7, <1>8, <4>1
      <3> QED BY <3>3, <3>4, <3>5
    <2> QED BY <2>1, <2>2
  <1>11. /\ Len(Stages(f)) = 10
         /\ resf(1) = chk("shape") /\ resf(2) = chk("scoped") /\ resf(3) = chk("bound")
         /\ resf(4) = chk("sender") /\ resf(5) = chk("session") /\ resf(6) = chk("mode")
         /\ resf(7) = chk("engine") /\ resf(8) = chk("rate") /\ resf(9) = chk("live")
         /\ resf(10) = chk("process")
    <2>1. Stages(f) = FrameStages
      BY <1>1 DEF Stages
    <2> HIDE DEF chk
    <2> QED BY <1>3, <1>5, <2>1, FrameStagesList DEF Result
  <1>12. /\ seam(1) = chk("shape") /\ seam(2) = chk("sender") /\ seam(3) = chk("mode")
         /\ seam(4) = chk("rate") /\ seam(5) = chk("engine") /\ seam(6) = chk("process")
    BY SeamStages
  <1>13. ~Stops(chk("bound")) /\ ~Stops(chk("live"))
    <2>1. chk("bound") = Pass /\ chk("live") = Pass
      BY <1>4 DEF Check
    <2> QED BY <2>1 DEF Stops
  <1>14. Accepts(Verdict(g, session, pick)) <=> \A i \in 1..6 : ~Stops(seam(i))
    <2>1. Accepts(Verdict(g, session, pick)) <=> \A i \in 1..8 : ~Stops(resg(i))
      BY <1>7, AcceptedUnstopped
    <2> HIDE DEF seam, resg
    <2>2. ASSUME \A i \in 1..8 : ~Stops(resg(i)), NEW i \in 1..6 PROVE ~Stops(seam(i))
      <3>1. 2 + i \in 1..8
        OBVIOUS
      <3> QED BY <1>7, <2>2, <3>1
    <2>3. ASSUME \A i \in 1..6 : ~Stops(seam(i)), NEW i \in 1..8 PROVE ~Stops(resg(i))
      <3>1. CASE i = 1
        BY <1>7, <2>3, <3>1
      <3>2. CASE i = 2
        BY <1>7, <3>2
      <3>3. CASE i # 1 /\ i # 2
        <4>1. i - 2 \in 1..6 /\ 2 + (i - 2) = i
          BY <3>3
        <4> QED BY <1>7, <2>3, <4>1
      <3> QED BY <3>1, <3>2, <3>3
    <2> QED BY <2>1, <2>2, <2>3
  <1>15. Accepts(Verdict(f, session, pick)) <=>
            /\ ~Stops(chk("scoped")) /\ ~Stops(chk("session"))
            /\ Accepts(Verdict(g, session, pick))
    <2>1. Accepts(Verdict(f, session, pick)) <=> \A i \in 1..10 : ~Stops(resf(i))
      BY <1>11, AcceptedUnstopped
    <2> HIDE DEF seam, resf, chk
    <2>2. (\A i \in 1..10 : ~Stops(resf(i))) <=>
             /\ ~Stops(resf(1)) /\ ~Stops(resf(2)) /\ ~Stops(resf(3)) /\ ~Stops(resf(4)) /\ ~Stops(resf(5))
             /\ ~Stops(resf(6)) /\ ~Stops(resf(7)) /\ ~Stops(resf(8)) /\ ~Stops(resf(9)) /\ ~Stops(resf(10))
      OBVIOUS
    <2>3. (\A i \in 1..6 : ~Stops(seam(i))) <=>
             /\ ~Stops(seam(1)) /\ ~Stops(seam(2)) /\ ~Stops(seam(3)) /\ ~Stops(seam(4))
             /\ ~Stops(seam(5)) /\ ~Stops(seam(6))
      OBVIOUS
    <2> QED BY <1>11, <1>12, <1>13, <1>14, <2>1, <2>2, <2>3
  <1>16. ASSUME Accepts(Verdict(f, session, pick)) PROVE Verdict(f, session, pick) = Verdict(g, session, pick)
    <2>1. Accepts(Verdict(g, session, pick))
      BY <1>15, <1>16
    <2>2. Verdict(f, session, pick) = Done(resf(10)) /\ Verdict(g, session, pick) = Done(resg(8))
      BY <1>7, <1>11, <1>16, <2>1, AcceptedUnstopped
    <2>3. resg(8) = seam(6)
      <3>1. 6 \in 1..6 /\ 2 + 6 = 8
        OBVIOUS
      <3> HIDE DEF resg, seam
      <3> QED BY <1>7, <3>1
    <2> HIDE DEF resf, resg, seam, chk
    <2> QED BY <1>11, <1>12, <2>2, <2>3
  <1>17. ASSUME Accepts(Verdict(g, session, pick)), Stops(chk("scoped")) PROVE p.env.session \in {"", "blank"}
    <2>1. p.env.session \in {"", "blank"} \/ p.env.mode = ""
      BY <1>17 DEF Check, Stops
    <2>2. EnvelopeShape(p.env) = Pass
      <3>0. seam(1) = EnvelopeShape(p.env)
        <4>1. chk("shape") = EnvelopeShape(p.env)
          BY DEF Check
        <4> HIDE DEF chk, seam
        <4> QED BY <1>12, <4>1
      <3>1. ~Stops(seam(1)) /\ seam(1) = EnvelopeShape(p.env)
        <4> HIDE DEF seam
        <4>1. 1 \in 1..6
          OBVIOUS
        <4> QED BY <1>14, <1>17, <3>0, <4>1
      <3>2. EnvelopeShape(p.env) \in {"InvalidMacpVersion", "InvalidEnvelope", "PayloadTooLarge", Pass}
        BY DEF EnvelopeShape
      <3> HIDE DEF seam
      <3> QED BY <3>1, <3>2 DEF Stops, KernelAccepts, Pass
    <2>3. ASSUME p.env.mode = "" PROVE p.env.session = ""
      BY <2>2, <2>3 DEF EnvelopeShape, Pass, Ambient
    <2> QED BY <2>1, <2>3
  <1>18. ASSUME Stops(chk("session"))
         PROVE  session # NoSession /\ (session.state # "Open" \/ session.mode # p.env.mode)
    <2> DEFINE env == [p.env EXCEPT !.sender = at.identity.sender]
    <2>1. FrameSession(env, session) # Pass
      BY <1>18 DEF Check, Stops
    <2>2. env.mode = p.env.mode
      BY DEF WellFormed
    <2> HIDE DEF env
    <2>3. CASE env.type = "SessionStart" \/ session = NoSession
      BY <2>1, <2>3 DEF FrameSession
    <2>4. CASE ~(env.type = "SessionStart" \/ session = NoSession) /\ session.mode = env.mode /\ session.state = "Open"
      BY <2>1, <2>4 DEF FrameSession
    <2> QED BY <2>2, <2>3, <2>4
  <1> HIDE DEF chk
  <1> QED BY <1>10, <1>15, <1>16, <1>17, <1>18 DEF g, h, f

\* Every binding gates the same way (authorize_send, process_stream_envelope,
\* serve): whatever reaches the kernel was authenticated, authorised, charged
\* once and let through by the engine; gRPC, HTTP and a stream take the same
\* envelopes; and a caller without a credential learns nothing of the session.
THEOREM EntrancesTheorem == IngressSpec => []EntrancesGuarded
  <1>1. IngressInv => EntrancesGuarded
    <2> SUFFICES ASSUME IngressInv PROVE EntrancesGuarded
      OBVIOUS
    <2>1. Gated
      BY DEF IngressInv
    <2>2. BindingsAgree
      <3> SUFFICES ASSUME NEW p \in Probes, NEW pick \in Picks,
                          p.rpc = "Send", p.binding = "grpc", p.faults = {},
                          p.cred.header = "authorization",
                          AuthenticateMetadata(conf, p.cred, rotated) # Nobody
                   PROVE  LET grpc == Verdict(Over(p, "grpc"), session, pick)
                              http == Verdict(Over(p, "http"), session, pick)
                              frame == Verdict(Over(p, "stream"), session, pick)
                          IN  /\ grpc = http
                              /\ Accepts(frame) => frame = grpc
                              /\ Accepts(grpc) /\ ~Accepts(frame) =>
                                  \/ p.env.session \in {"", "blank"}
                                  \/ session # NoSession /\ (session.state # "Open" \/ session.mode # p.env.mode)
        BY Zenon DEF BindingsAgree
      <3>1. WellFormed(p)
        BY IngressConstants
      <3> QED BY <3>1, OneAnswer
    <2>3. StrangersLearnNothing
      BY StrangerStops, Zenon DEF StrangersLearnNothing
    <2> QED BY <2>1, <2>2, <2>3 DEF EntrancesGuarded
  <1> QED BY IngressBegins, IngressStep, <1>1, PTL DEF IngressSpec

-----------------------------------------------------------------------------
(* The receipts.                                                           *)

\* What the decoder gives.
IsDecoded(p) ==
    /\ p = [text |-> [f \in StringFields |-> p.text[f]],
            outcome_positive |-> p.outcome_positive, supersedes |-> p.supersedes]
    /\ p.outcome_positive \in BOOLEAN
    /\ \/ p.supersedes = NoReference
       \/ p.supersedes = [set |-> TRUE, session_id |-> p.supersedes.session_id,
                          commitment_hash |-> p.supersedes.commitment_hash]

LEMMA DecodesWhole == ASSUME NEW wire PROVE IsDecoded(Decode(wire))
  BY DEF Decode, IsDecoded

\* The two members that are no strings.
LEMMA NoString == "outcome_positive" \notin StringFields /\ "supersedes" \notin StringFields
  BY CommitmentHashConstants DEF TagOf

\* The members that are projected.
Members(p) == StringFields \cup {"outcome_positive"} \cup (IF p.supersedes.set THEN {"supersedes"} ELSE {})

LEMMA ProjectedMembers ==
    ASSUME NEW p
    PROVE  /\ Project(p)[1] = "object" /\ DOMAIN Project(p)[2] = Members(p)
           /\ \A f \in StringFields : Project(p)[2][f] = Str(p.text[f])
           /\ Project(p)[2]["outcome_positive"] = Bool(p.outcome_positive)
           /\ p.supersedes.set => Project(p)[2]["supersedes"] = ProjectReference(p.supersedes)
  BY NoString DEF Project, Object, Members

\* A reference is read back as it was written.
LEMMA ReferenceKeeps ==
    ASSUME NEW r
    PROVE  /\ IsReference(ProjectReference(r))
           /\ StringOr(ProjectReference(r)[2], "session_id") = r.session_id
           /\ StringOr(ProjectReference(r)[2], "commitment_hash") = r.commitment_hash
  BY DEF IsReference, IsObject, ProjectReference, Object, Str, StringOr, StringsOnly

\* What is projected is read back as it was.
LEMMA ProjectKeeps ==
    ASSUME NEW p, IsDecoded(p)
    PROVE  IsPayload(Project(p)) /\ PayloadOf(Project(p)) = p
  <1> DEFINE v == Project(p)
             q == PayloadOf(v)
  <1>1. /\ v[1] = "object" /\ DOMAIN v[2] = Members(p)
        /\ \A f \in StringFields : v[2][f] = Str(p.text[f])
        /\ v[2]["outcome_positive"] = Bool(p.outcome_positive)
        /\ p.supersedes.set => v[2]["supersedes"] = ProjectReference(p.supersedes)
    BY ProjectedMembers
  <1>2. /\ "outcome_positive" \in DOMAIN v[2]
        /\ ("supersedes" \in DOMAIN v[2]) <=> p.supersedes.set
        /\ \A f \in StringFields : f \in DOMAIN v[2]
        /\ DOMAIN v[2] \subseteq StringFields \cup {"outcome_positive", "supersedes"}
    BY <1>1, NoString DEF Members
  <1> HIDE DEF v
  <1>3. IsPayload(v)
    BY <1>1, <1>2, ReferenceKeeps DEF IsPayload, IsObject, StringsOnly, Str, Bool
  <1>4. q.text = [f \in StringFields |-> p.text[f]]
    <2>1. \A f \in StringFields : StringOr(v[2], f) = p.text[f]
      <3> TAKE f \in StringFields
      <3>1. v[2][f] = <<"string", p.text[f]>> /\ f \in DOMAIN v[2]
        BY <1>1, <1>2 DEF Str
      <3>2. v[2][f][2] = p.text[f]
        BY <3>1
      <3> QED BY <3>1, <3>2 DEF StringOr
    <2> QED BY <2>1 DEF PayloadOf
  <1>5. q.outcome_positive = p.outcome_positive
    BY <1>1, <1>2 DEF PayloadOf, Bool, IsDecoded
  <1>6. q.supersedes = p.supersedes
    <2>1. CASE p.supersedes = NoReference
      <3>0. ~p.supersedes.set
        <4>1. NoReference.set = FALSE
          BY DEF NoReference
        <4> QED BY <2>1, <4>1, Zenon
      <3>1. "supersedes" \notin DOMAIN v[2]
        BY <1>2, <3>0
      <3>2. q.supersedes = NoReference
        BY <3>1 DEF PayloadOf
      <3> QED BY <2>1, <3>2
    <2>2. CASE p.supersedes = [set |-> TRUE, session_id |-> p.supersedes.session_id,
                               commitment_hash |-> p.supersedes.commitment_hash]
      <3>1. p.supersedes.set
        BY <2>2
      <3>2. "supersedes" \in DOMAIN v[2] /\ v[2].supersedes = ProjectReference(p.supersedes)
        BY <1>1, <1>2, <3>1
      <3>3. q.supersedes = [set |-> TRUE, session_id |-> StringOr(v[2].supersedes[2], "session_id"),
                            commitment_hash |-> StringOr(v[2].supersedes[2], "commitment_hash")]
        BY <3>2 DEF PayloadOf
      <3>4. q.supersedes = [set |-> TRUE, session_id |-> p.supersedes.session_id,
                            commitment_hash |-> p.supersedes.commitment_hash]
        BY <3>2, <3>3, ReferenceKeeps
      <3> QED BY <2>2, <3>4
    <2> QED BY <2>1, <2>2 DEF IsDecoded
  <1>7. q = [text |-> q.text, outcome_positive |-> q.outcome_positive, supersedes |-> q.supersedes]
    BY DEF PayloadOf
  <1> HIDE DEF q
  <1>8. q = p
    BY <1>4, <1>5, <1>6, <1>7 DEF IsDecoded
  <1> QED BY <1>3, <1>8 DEF v, q

\* The members of a receipt.
HasMembers(r, s, wire, config) ==
    LET body == Unsigned(s, wire, config.name) IN
    /\ DOMAIN r = {"format", "session", "commitment", "hash", "wire", "name", "attestations"}
    /\ r.format = "macp-receipt/1" /\ r.commitment = Project(Decode(wire))
    /\ r.hash = HashOfWire(wire) /\ r.wire = [form |-> "bytes", bytes |-> wire]
    /\ r.attestations = IF config.signer = NoSigner THEN <<>> ELSE <<Jws(config.signer, body)>>
    /\ ReceiptBody(r) = body

LEMMA BuiltMembers ==
    ASSUME NEW s, NEW wire, NEW config
    PROVE  HasMembers(Build(s, wire, config), s, wire, config)
  <1> DEFINE body == Unsigned(s, wire, config.name)
             r == Build(s, wire, config)
             D == {"format", "session", "commitment", "hash", "wire", "name"}
  <1>1. DOMAIN body = D
    BY DEF Unsigned
  <1>2. /\ body.format = "macp-receipt/1" /\ body.commitment = Project(Decode(wire))
        /\ body.hash = HashOfWire(wire) /\ body.wire = [form |-> "bytes", bytes |-> wire]
    BY DEF Unsigned
  <1>3. body = [m \in D |-> body[m]]
    BY DEF Unsigned
  <1> HIDE DEF body
  <1>4. r = [m \in D \cup {"attestations"} |->
                IF m = "attestations"
                THEN IF config.signer = NoSigner THEN <<>> ELSE <<Jws(config.signer, body)>>
                ELSE body[m]]
    BY <1>1 DEF Build, body
  <1> HIDE DEF r
  <1>5. DOMAIN r = D \cup {"attestations"} /\ \A m \in D : r[m] = body[m]
    BY <1>4
  <1>6. ReceiptBody(r) = [m \in D |-> body[m]]
    BY <1>5 DEF ReceiptBody
  <1>7. r.attestations = IF config.signer = NoSigner THEN <<>> ELSE <<Jws(config.signer, body)>>
    BY <1>4
  <1>8. ReceiptBody(r) = body
    BY <1>3, <1>6
  <1> QED BY <1>2, <1>5, <1>7, <1>8 DEF r, body, HasMembers

\* The integrity of what is issued needs no key.
LEMMA BuiltMatches ==
    ASSUME NEW r, NEW wire, Hashable(wire), r.commitment = Project(Decode(wire)),
           r.hash = HashOfWire(wire), r.wire = [form |-> "bytes", bytes |-> wire]
    PROVE  Integrity(r) = "match"
  <1>1. IsPayload(r.commitment) /\ PayloadOf(r.commitment) = Decode(wire)
    BY DecodesWhole, ProjectKeeps
  <1>2. r.hash = Hash(PayloadOf(r.commitment))
    BY <1>1 DEF HashOfWire
  <1>3. IsCanonical(r.hash)
    BY DEF IsCanonical, HashOfWire, Hash
  <1>4. VerifyCommitmentHash(r.wire.bytes, r.hash) = "match"
    BY <1>3 DEF VerifyCommitmentHash
  <1>5. r.wire.form = "bytes" /\ r.wire.bytes = wire
    OBVIOUS
  <1> QED BY <1>1, <1>2, <1>4, <1>5 DEF Integrity

\* What integrity rests on, for any text.
LEMMA MatchMeans ==
    ASSUME NEW r, Integrity(r) = "match"
    PROVE  /\ r.hash = Hash(PayloadOf(r.commitment))
           /\ r.wire.form = "bytes" =>
                Hashable(r.wire.bytes) /\ Project(Decode(r.wire.bytes)) = r.commitment
  <1>1. IsPayload(r.commitment) /\ r.hash = Hash(PayloadOf(r.commitment))
    BY DEF Integrity
  <1>2. ASSUME r.wire.form = "bytes" 
        PROVE  Hashable(r.wire.bytes) /\ Project(Decode(r.wire.bytes)) = r.commitment
    <2> DEFINE said == VerifyCommitmentHash(r.wire.bytes, r.hash)
    <2>1. "match" = IF said = "match" /\ Project(Decode(r.wire.bytes)) # r.commitment
                    THEN "mismatch" ELSE said
      BY <1>1, <1>2 DEF Integrity
    <2>2. said = "match" /\ Project(Decode(r.wire.bytes)) = r.commitment
      BY <2>1
    <2> QED BY <2>2 DEF VerifyCommitmentHash
  <1> QED BY <1>1, <1>2

\* A text is attested by a signature over its whole body.
LEMMA AttestedMeans ==
    ASSUME NEW r, NEW keys, VerifyReceipt(r, keys).verdict = "attested"
    PROVE  \E i \in DOMAIN r.attestations :
             LET g == r.attestations[i].signature IN
             g.body = ReceiptBody(r) /\ g.header.kid \in DOMAIN keys /\ keys[g.header.kid] = g.key
  <1> DEFINE outcomes == [i \in DOMAIN r.attestations |->
                            Attestation(r.attestations[i], ReceiptBody(r), keys)]
  <1>1. VerifyReceipt(r, keys).verdict
          = IF \E i \in DOMAIN outcomes : outcomes[i] = "valid" THEN "attested" ELSE "integrity_only"
    BY DEF VerifyReceipt
  <1>2. PICK i \in DOMAIN r.attestations : outcomes[i] = "valid"
    BY <1>1
  <1> DEFINE a == r.attestations[i]
  <1>3. Attestation(a, ReceiptBody(r), keys) = "valid"
    BY <1>2
  <1> HIDE DEF a
  <1>4. /\ a.header.kid \in DOMAIN keys
        /\ a.signature = [key |-> keys[a.header.kid], header |-> a.header, body |-> ReceiptBody(r)]
    BY <1>3 DEF Attestation
  <1>5. a.signature.body = ReceiptBody(r) /\ a.signature.header = a.header
        /\ a.signature.key = keys[a.header.kid]
    BY <1>4
  <1> QED BY <1>4, <1>5 DEF a

\* An encoding is a sequence of fields, and only the reference is nested.
IsWire(wire) ==
    /\ wire \in Seq(ToSet(wire))
    /\ \A i \in DOMAIN wire :
        /\ wire[i].body \in Seq(ToSet(wire[i].body))
        /\ wire[i].tag # TagOf.supersedes => wire[i].body = <<>>

\* No first fault, no fault.
LEMMA NoFault ==
    ASSUME NEW faults, DOMAIN faults \subseteq Nat, FirstFault(faults) = "none",
           \A i \in DOMAIN faults : 1 .. i \subseteq DOMAIN faults
    PROVE  \A i \in DOMAIN faults : faults[i] = "none"
  <1> DEFINE T == {i \in DOMAIN faults : faults[i] # "none"}
             First(i) == faults[i] # "none" /\ \A j \in 1 .. i - 1 : faults[j] = "none"
  <1> SUFFICES ASSUME T # {} PROVE FALSE
    OBVIOUS
  <1>1. PICK n \in T : \A m \in T : n <= m
    BY EarliestNatural
  <1>2. n \in DOMAIN faults /\ First(n)
    <2>1. ASSUME NEW j \in 1 .. n - 1 PROVE faults[j] = "none"
      <3>1. j \in DOMAIN faults /\ ~(n <= j)
        BY <1>1, <2>1
      <3> QED BY <1>1, <3>1
    <2> QED BY <1>1, <2>1
  <1>3. FirstFault(faults) = faults[CHOOSE i \in DOMAIN faults : First(i)]
    BY <1>2 DEF FirstFault
  <1>4. First(CHOOSE i \in DOMAIN faults : First(i))
    <2> HIDE DEF First
    <2> QED BY <1>2
  <1> QED BY <1>3, <1>4

\* Bytes that have a hash have no field but the known ones.
LEMMA ScanMeans ==
    ASSUME NEW wire, IsWire(wire), Hashable(wire)
    PROVE  \A i \in DOMAIN wire :
             /\ wire[i].tag \in PayloadTags
             /\ \A j \in DOMAIN wire[i].body : wire[i].body[j].tag \in CommitmentRefTags
  <1> DEFINE Nested(f) == f.tag = TagOf.supersedes /\ f.type = "len"
             faults == [i \in DOMAIN wire |->
                          IF FieldFault(wire[i], PayloadTags) = "none" /\ wire[i].tag = TagOf.supersedes
                                /\ wire[i].type = "len"
                          THEN ScanReference(wire[i].body)
                          ELSE FieldFault(wire[i], PayloadTags)]
  <1>1. \A i \in DOMAIN wire : 1 .. i \subseteq DOMAIN wire /\ i \in Nat
    BY DEF IsWire
  <1>2. \A i \in DOMAIN wire : faults[i] = "none"
    <2>1. FirstFault(faults) = "none"
      BY DEF Hashable, ScanKnownFields
    <2>2. DOMAIN faults = DOMAIN wire
      OBVIOUS
    <2> HIDE DEF faults
    <2> QED BY <1>1, <2>1, <2>2, NoFault
  <1>3. ASSUME NEW f, NEW known \in {PayloadTags, CommitmentRefTags}, FieldFault(f, known) = "none"
        PROVE  f.tag \in known
    BY <1>3 DEF FieldFault
  <1> TAKE i \in DOMAIN wire
  <1>4. CASE Nested(wire[i]) /\ FieldFault(wire[i], PayloadTags) = "none"
    <2> DEFINE body == wire[i].body
               inner == [j \in DOMAIN body |-> FieldFault(body[j], CommitmentRefTags)]
    <2>1. FirstFault(inner) = "none"
      BY <1>2, <1>4 DEF ScanReference
    <2>2. \A j \in DOMAIN body : 1 .. j \subseteq DOMAIN body /\ j \in Nat
      <3>1. body \in Seq(ToSet(body))
        BY DEF IsWire
      <3> HIDE DEF body
      <3> QED BY <3>1
    <2>3. DOMAIN inner = DOMAIN body
      OBVIOUS
    <2>4. \A j \in DOMAIN body : inner[j] = "none"
      <3> HIDE DEF inner, body
      <3> QED BY <2>1, <2>2, <2>3, NoFault
    <2>5. \A j \in DOMAIN body : FieldFault(body[j], CommitmentRefTags) = "none"
      BY <2>4
    <2> QED BY <1>3, <1>4, <2>5
  <1>5. CASE ~(Nested(wire[i]) /\ FieldFault(wire[i], PayloadTags) = "none")
    <2>1. FieldFault(wire[i], PayloadTags) = "none"
      BY <1>2, <1>5
    <2>2. wire[i].tag \in PayloadTags
      BY <1>3, <2>1
    <2>3. ~Nested(wire[i])
      BY <1>5, <2>1
    <2>4. wire[i].tag # TagOf.supersedes
      <3> SUFFICES ASSUME wire[i].tag = TagOf.supersedes PROVE FALSE
        OBVIOUS
      <3>1. wire[i].tag = 9
        BY DEF TagOf
      <3>2. wire[i].type = "len"
        BY <3>1 DEF Hashable, Decodes, TagOf
      <3> QED BY <2>3, <3>2
    <2>5. wire[i].body = <<>>
      BY <2>4 DEF IsWire
    <2> QED BY <2>2, <2>5
  <1> QED BY <1>4, <1>5

\* One more field leaves an encoding one.
LEMMA WireExtended ==
    ASSUME NEW wire, IsWire(wire), NEW f, f.body \in Seq(ToSet(f.body)),
           f.tag # TagOf.supersedes => f.body = <<>>
    PROVE  IsWire(wire \o <<f>>)
  <1> DEFINE w == wire \o <<f>>
             U == ToSet(wire) \cup {f}
  <1>1. wire \in Seq(U)
    BY DEF IsWire
  <1>2. /\ w \in Seq(U) /\ Len(w) = Len(wire) + 1
        /\ \A i \in 1 .. Len(wire) : w[i] = wire[i]
        /\ w[Len(wire) + 1] = f
    BY <1>1
  <1>3. Len(wire) \in Nat /\ DOMAIN wire = 1 .. Len(wire) /\ DOMAIN w = 1 .. (Len(wire) + 1)
    BY <1>1, <1>2
  <1> HIDE DEF w
  <1>4. w \in Seq(ToSet(w))
    BY <1>2 DEF ToSet
  <1>5. ASSUME NEW i \in DOMAIN w
        PROVE  w[i].body \in Seq(ToSet(w[i].body)) /\ (w[i].tag # TagOf.supersedes => w[i].body = <<>>)
    <2>1. w[i] = f \/ (i \in DOMAIN wire /\ w[i] = wire[i])
      BY <1>2, <1>3
    <2> QED BY <2>1 DEF IsWire
  <1>6. IsWire(w)
    BY <1>4, <1>5 DEF IsWire
  <1> QED BY <1>6 DEF w

-----------------------------------------------------------------------------
(* What is published.                                                      *)

\* A set of positions that is not empty has a greatest element.
LEMMA LatestPosition ==
    ASSUME NEW n \in Nat, NEW T \in SUBSET (1 .. n), T # {}
    PROVE  Max(T) \in T
  <1> DEFINE B == {k \in Nat : n - k \in T}
  <1>1. B \in SUBSET Nat /\ B # {}
    <2>1. PICK y \in T : TRUE
      OBVIOUS
    <2>2. n - y \in Nat /\ n - (n - y) = y
      BY <2>1
    <2> QED BY <2>1, <2>2
  <1>2. PICK k \in B : \A m \in B : k <= m
    BY <1>1, EarliestNatural
  <1>3. ASSUME NEW y \in T
        PROVE  n - k >= y
    <2>1. n - y \in Nat /\ n - (n - y) = y
      OBVIOUS
    <2>2. k <= n - y
      BY <1>2, <2>1
    <2> HIDE DEF B
    <2> QED BY <1>1, <1>2, <2>1, <2>2
  <1> QED BY <1>2, <1>3 DEF Max

\* What remains of a sequence when one element is removed.
LEMMA RemoveAtLeaves ==
    ASSUME NEW U, NEW s \in Seq(U), NEW n \in 1 .. Len(s)
    PROVE  /\ RemoveAt(s, n) \in Seq(U) /\ Len(RemoveAt(s, n)) = Len(s) - 1
           /\ \A j \in 1 .. Len(s) - 1 : RemoveAt(s, n)[j] = IF j < n THEN s[j] ELSE s[j + 1]
  <1> DEFINE a == SubSeq(s, 1, n - 1)
             b == SubSeq(s, n + 1, Len(s))
             c == a \o b
  <1>1. a \in Seq(U) /\ Len(a) = n - 1 /\ \A j \in 1 .. n - 1 : a[j] = s[j]
    OBVIOUS
  <1>2. b \in Seq(U) /\ Len(b) = Len(s) - n /\ \A j \in 1 .. Len(s) - n : b[j] = s[n + j]
    OBVIOUS
  <1> HIDE DEF a, b
  <1>3. c \in Seq(U)
    <2> HIDE DEF c
    <2>1. a \in Seq(U) /\ b \in Seq(U)
      BY <1>1, <1>2
    <2> QED BY <2>1 DEF c
  <1>4. /\ Len(c) = Len(a) + Len(b)
        /\ \A j \in 1 .. Len(a) : c[j] = a[j]
        /\ \A j \in 1 .. Len(b) : c[Len(a) + j] = b[j]
    <2>1. a \in Seq(U) /\ b \in Seq(U)
      BY <1>1, <1>2
    <2> QED BY <2>1
  <1>5. RemoveAt(s, n) = c
    BY DEF RemoveAt, a, b
  <1> HIDE DEF c
  <1>6. ASSUME NEW j \in 1 .. Len(s) - 1
        PROVE  c[j] = IF j < n THEN s[j] ELSE s[j + 1]
    <2>1. CASE j < n
      BY <1>1, <1>4, <2>1
    <2>2. CASE ~(j < n)
      <3>1. c[j] = b[j - (n - 1)] /\ j - (n - 1) \in 1 .. Len(s) - n
        <4>1. j - (n - 1) \in 1 .. Len(b) /\ Len(a) + (j - (n - 1)) = j /\ Len(b) = Len(s) - n
          BY <1>1, <1>2, <2>2
        <4> QED BY <1>4, <4>1
      <3>2. b[j - (n - 1)] = s[n + (j - (n - 1))]
        BY <1>2, <3>1
      <3>3. n + (j - (n - 1)) = j + 1
        OBVIOUS
      <3> QED BY <2>2, <3>1, <3>2, <3>3
    <2> QED BY <2>1, <2>2
  <1>7. Len(c) = Len(s) - 1
    BY <1>1, <1>2, <1>4
  <1> QED BY <1>3, <1>5, <1>6, <1>7

\* One key under each kid.
Distinct(keys) == \A i, j \in DOMAIN keys : keys[i].kid = keys[j].kid => i = j

\* The retired keys without the one that has the signer's kid.
Others(keys, kid) == RemoveFirstMatch(keys, LAMBDA k : k.kid = kid)

LEMMA OthersRemain ==
    ASSUME NEW U, NEW keys \in Seq(U), Distinct(keys), NEW kid
    PROVE  LET rest == Others(keys, kid) IN
           /\ rest \in Seq(U) /\ Distinct(rest)
           /\ \A j \in DOMAIN rest : rest[j].kid # kid /\ \E i \in DOMAIN keys : rest[j] = keys[i]
           /\ \A i \in DOMAIN keys : keys[i].kid # kid => \E j \in DOMAIN rest : rest[j] = keys[i]
  <1> DEFINE rest == Others(keys, kid)
             I == {i \in 1 .. Len(keys) : keys[i].kid = kid}
  <1>1. Len(keys) \in Nat /\ DOMAIN keys = 1 .. Len(keys)
    OBVIOUS
  <1>2. CASE I = {}
    <2>1. rest = keys
      BY <1>2 DEF Others, RemoveFirstMatch
    <2> HIDE DEF rest
    <2> QED BY <1>1, <1>2, <2>1 DEF rest
  <1>3. CASE I # {}
    <2> DEFINE n == Min(I)
    <2>1. n \in I
      <3>0. I \in SUBSET Nat
        BY <1>1
      <3>1. PICK m \in I : \A j \in I : m <= j
        BY <1>3, <3>0, EarliestNatural
      <3> QED BY <3>1 DEF Min
    <2>2. rest = RemoveAt(keys, n)
      BY <1>3 DEF Others, RemoveFirstMatch, SelectInSeq
    <2> HIDE DEF n, rest, I
    <2>3. n \in 1 .. Len(keys) /\ keys[n].kid = kid
      BY <2>1 DEF I
    <2>4. /\ rest \in Seq(U) /\ Len(rest) = Len(keys) - 1
          /\ \A j \in 1 .. Len(keys) - 1 : rest[j] = IF j < n THEN keys[j] ELSE keys[j + 1]
      BY <2>2, <2>3, RemoveAtLeaves
    <2>5. DOMAIN rest = 1 .. Len(keys) - 1
      BY <2>4
    <2> DEFINE at(j) == IF j < n THEN j ELSE j + 1
    <2>6. \A j \in DOMAIN rest : at(j) \in DOMAIN keys /\ at(j) # n /\ rest[j] = keys[at(j)]
      BY <1>1, <2>3, <2>4, <2>5
    <2>7. \A j \in DOMAIN rest : rest[j].kid # kid
      BY <1>1, <2>3, <2>6 DEF Distinct
    <2>8. Distinct(rest)
      <3> SUFFICES ASSUME NEW i \in DOMAIN rest, NEW j \in DOMAIN rest, rest[i].kid = rest[j].kid
                   PROVE  i = j
        BY DEF Distinct
      <3>1. at(i) = at(j)
        BY <2>6 DEF Distinct
      <3> QED BY <2>3, <2>5, <3>1
    <2>9. ASSUME NEW i \in DOMAIN keys, keys[i].kid # kid
          PROVE  \E j \in DOMAIN rest : rest[j] = keys[i]
      <3>1. i # n
        BY <2>3, <2>9
      <3>2. CASE i < n
        BY <1>1, <2>3, <2>4, <2>5, <3>2
      <3>3. CASE i > n
        <4>1. i - 1 \in DOMAIN rest /\ ~(i - 1 < n) /\ (i - 1) + 1 = i
          BY <1>1, <2>3, <2>5, <3>3
        <4> QED BY <2>4, <2>5, <4>1
      <3> QED BY <1>1, <2>3, <3>1, <3>2, <3>3
    <2> QED BY <2>4, <2>6, <2>7, <2>8, <2>9 DEF rest
  <1> QED BY <1>2, <1>3

\* Every kid of the retired keys is given once, none is missing and none of
\* the keys is private.
LEMMA RetiredSound ==
    ASSUME NEW doc, doc.keys \in Seq(ToSet(doc.keys)), ~RetiredRefused(doc)
    PROVE  /\ Distinct(doc.keys)
           /\ \A i \in DOMAIN doc.keys : ~doc.keys[i].private
  <1> DEFINE keys == doc.keys
  <1>1. \A i \in DOMAIN keys : ~keys[i].private /\ \A j \in 1 .. i - 1 : keys[j].kid # keys[i].kid
    BY DEF RetiredRefused
  <1>2. DOMAIN keys = 1 .. Len(keys) /\ Len(keys) \in Nat
    OBVIOUS
  <1> HIDE DEF keys
  <1>3. ASSUME NEW i \in DOMAIN keys, NEW j \in DOMAIN keys, keys[i].kid = keys[j].kid
        PROVE  i = j
    <2>1. ~(i < j) /\ ~(j < i)
      BY <1>1, <1>2, <1>3
    <2> QED BY <1>2, <2>1
  <1> QED BY <1>1, <1>3 DEF Distinct, keys

\* What a runtime publishes, started with e.
Publishes(e, keys) ==
    /\ keys \in Seq(ToSet(keys)) /\ Distinct(keys)
    /\ \A i \in DOMAIN keys : ~keys[i].private
    /\ FromEnv(e).signer # NoSigner => \E i \in DOMAIN keys :
         keys[i].kid = FromEnv(e).signer.kid /\ keys[i].x = FromEnv(e).signer.key
    /\ \A i \in DOMAIN e.retired.keys : \E j \in DOMAIN keys :
         keys[j].kid = e.retired.keys[i].kid /\ keys[j].x = e.retired.keys[i].x

\* The active key joins the retired ones, as one of them or as another.
LEMMA ActiveJoins ==
    ASSUME NEW keys, keys \in Seq(ToSet(keys)), Distinct(keys),
           \A i \in DOMAIN keys : ~keys[i].private,
           NEW signer, ~WithActiveClashes(keys, signer)
    PROVE  LET all == WithActive(keys, signer) IN
           /\ all \in Seq(ToSet(all)) /\ Distinct(all)
           /\ \A i \in DOMAIN all : ~all[i].private
           /\ 1 \in DOMAIN all /\ all[1].kid = signer.kid /\ all[1].x = signer.key
           /\ \A i \in DOMAIN keys : \E j \in DOMAIN all :
                all[j].kid = keys[i].kid /\ all[j].x = keys[i].x
  <1> DEFINE active == Public(signer.kid, signer.key)
             rest == Others(keys, signer.kid)
             all == <<active>> \o rest
             U == ToSet(keys) \cup {active}
  <1>1. active.kid = signer.kid /\ active.x = signer.key /\ active.private = FALSE
    BY DEF Public
  <1>2. /\ rest \in Seq(ToSet(keys)) /\ Distinct(rest)
        /\ \A j \in DOMAIN rest : rest[j].kid # signer.kid /\ \E i \in DOMAIN keys : rest[j] = keys[i]
        /\ \A i \in DOMAIN keys : keys[i].kid # signer.kid => \E j \in DOMAIN rest : rest[j] = keys[i]
    BY OthersRemain
  <1>3. all = WithActive(keys, signer)
    BY DEF WithActive, Others
  <1> HIDE DEF active, rest
  <1>4. rest \in Seq(U) /\ <<active>> \in Seq(U) /\ Len(<<active>>) = 1 /\ <<active>>[1] = active
    BY <1>2
  <1>5. /\ all \in Seq(U) /\ Len(all) = 1 + Len(rest)
        /\ all[1] = active /\ \A j \in 1 .. Len(rest) : all[1 + j] = rest[j]
    BY <1>4
  <1>6. /\ DOMAIN rest = 1 .. Len(rest) /\ Len(rest) \in Nat
        /\ DOMAIN all = 1 .. 1 + Len(rest)
    BY <1>4, <1>5
  <1> HIDE DEF all
  <1>7. \A i \in DOMAIN all : i = 1 \/ (i - 1 \in DOMAIN rest /\ all[i] = rest[i - 1])
    <2> TAKE i \in DOMAIN all
    <2>1. i # 1 => i - 1 \in 1 .. Len(rest) /\ 1 + (i - 1) = i
      BY <1>6
    <2> QED BY <1>5, <1>6, <2>1
  <1>8. all \in Seq(ToSet(all))
    BY <1>5 DEF ToSet
  <1>9. Distinct(all)
    <2> SUFFICES ASSUME NEW i \in DOMAIN all, NEW j \in DOMAIN all, all[i].kid = all[j].kid
                 PROVE  i = j
      BY DEF Distinct
    <2>1. i \in Int /\ j \in Int
      BY <1>6
    <2>2. CASE i = 1 \/ j = 1
      BY <1>1, <1>2, <1>5, <1>7, <2>2
    <2>3. CASE i # 1 /\ j # 1
      <3>1. i - 1 = j - 1
        BY <1>2, <1>7, <2>3 DEF Distinct
      <3> QED BY <2>1, <3>1
    <2> QED BY <2>2, <2>3
  <1>10. \A i \in DOMAIN all : ~all[i].private
    <2> TAKE i \in DOMAIN all
    <2>1. CASE i = 1
      <3>1. all[i].private = FALSE
        BY <1>1, <1>5, <2>1
      <3> QED BY <3>1, Zenon
    <2>2. CASE i # 1
      BY <1>2, <1>7, <2>2
    <2> QED BY <2>1, <2>2
  <1>11. ASSUME NEW i \in DOMAIN keys
         PROVE  \E j \in DOMAIN all : all[j].kid = keys[i].kid /\ all[j].x = keys[i].x
    <2>1. 1 \in DOMAIN all
      BY <1>6
    <2>2. CASE keys[i].kid = signer.kid
      <3>1. keys[i].x = signer.key
        BY <2>2 DEF WithActiveClashes
      <3> QED BY <1>1, <1>5, <2>1, <2>2, <3>1
    <2>3. CASE keys[i].kid # signer.kid
      <3>1. PICK j \in DOMAIN rest : rest[j] = keys[i]
        BY <1>2, <2>3
      <3>2. 1 + j \in DOMAIN all /\ all[1 + j] = rest[j]
        BY <1>5, <1>6
      <3> QED BY <3>1, <3>2
    <2> QED BY <2>2, <2>3
  <1>12. 1 \in DOMAIN all /\ all[1].kid = signer.kid /\ all[1].x = signer.key
    BY <1>1, <1>5, <1>6
  <1> QED BY <1>3, <1>8, <1>9, <1>10, <1>11, <1>12

\* Every environment that is not refused publishes sound keys.
LEMMA EnvPublishes ==
    ASSUME NEW e \in KeyEnvs, ~EnvRefused(e)
    PROVE  Publishes(e, FromEnv(e).keys)
  <1> DEFINE signer == Load(SigningText(e), e.kid)
  <1>1. e.retired.keys \in Seq(ToSet(e.retired.keys)) /\ ~RetiredRefused(e.retired)
    BY ReceiptConstants DEF EnvRefused
  <1>2. Distinct(e.retired.keys) /\ \A i \in DOMAIN e.retired.keys : ~e.retired.keys[i].private
    BY <1>1, RetiredSound
  <1>3. CASE ~Signs(e)
    <2>1. FromEnv(e).keys = e.retired.keys /\ FromEnv(e).signer = NoSigner
      BY <1>3 DEF FromEnv
    <2> QED BY <1>1, <1>2, <2>1 DEF Publishes
  <1>4. CASE Signs(e)
    <2>1. FromEnv(e).keys = WithActive(e.retired.keys, signer) /\ FromEnv(e).signer = signer
      BY <1>4 DEF FromEnv
    <2>2. ~WithActiveClashes(e.retired.keys, signer)
      BY <1>4 DEF EnvRefused
    <2> DEFINE all == WithActive(e.retired.keys, signer)
    <2> HIDE DEF signer
    <2>3. /\ all \in Seq(ToSet(all)) /\ Distinct(all)
          /\ \A i \in DOMAIN all : ~all[i].private
          /\ 1 \in DOMAIN all /\ all[1].kid = signer.kid /\ all[1].x = signer.key
          /\ \A i \in DOMAIN e.retired.keys : \E j \in DOMAIN all :
               all[j].kid = e.retired.keys[i].kid /\ all[j].x = e.retired.keys[i].x
      <3> DEFINE keys == e.retired.keys
      <3>1. keys \in Seq(ToSet(keys)) /\ Distinct(keys) /\ \A i \in DOMAIN keys : ~keys[i].private
        BY <1>1, <1>2
      <3>2. ~WithActiveClashes(keys, signer)
        BY <2>2
      <3> HIDE DEF keys
      <3> QED BY <3>1, <3>2, ActiveJoins, SMTT(30) DEF keys
    <2> HIDE DEF all
    <2> QED BY <2>1, <2>3 DEF Publishes, all
  <1> QED BY <1>3, <1>4

-----------------------------------------------------------------------------
(* The invariant.  A receipt that is stored was built by some              *)
(* configuration, whose key was published; and what a verifier trusts was  *)
(* published too.                                                          *)

Named(kid, key) == [kid |-> kid, key |-> key]

\* The receipt r of s was built from its wire, and signed, if at all, under a
\* key of names with one of the signatures.
BuiltFor(s, r, names, signed) ==
    /\ Hashable(Wires[s])
    /\ \E config :
        /\ r = Build(s, Wires[s], config)
        /\ config.signer # NoSigner =>
             /\ Named(config.signer.kid, config.signer.key) \in names
             /\ Jws(config.signer, Unsigned(s, Wires[s], config.name)).signature \in signed

ReceiptsInv ==
    /\ issuer = Down \/ \E e \in KeyEnvs : ~EnvRefused(e) /\ issuer = FromEnv(e)
    /\ issuer # Down => \A i \in DOMAIN issuer.keys : Named(issuer.keys[i].kid, issuer.keys[i].x) \in named
    /\ \A kid \in DOMAIN trusted : Named(kid, trusted[kid]) \in named
    /\ DOMAIN stored = DOMAIN Wires
    /\ \A s \in DOMAIN Wires : stored[s] # NoneStored => BuiltFor(s, stored[s], named, signatures)

LEMMA ReceiptsBegin == ReceiptsInit => ReceiptsInv
  <1> SUFFICES ASSUME ReceiptsInit PROVE ReceiptsInv
    OBVIOUS
  <1>1. /\ issuer = Down /\ DOMAIN trusted = {} /\ DOMAIN stored = DOMAIN Wires
        /\ \A s \in DOMAIN Wires : stored[s] = NoneStored
    BY DEF ReceiptsInit
  <1> QED BY <1>1 DEF ReceiptsInv

\* A process that is down is not up.
LEMMA UpOrDown == ~Down.up /\ \A e : FromEnv(e).up
  BY DEF Down, FromEnv

\* What was built stays built.
LEMMA BuiltStays ==
    ASSUME NEW N, NEW G, NEW M, NEW H, N \subseteq M, G \subseteq H, NEW s, NEW r, BuiltFor(s, r, N, G)
    PROVE  BuiltFor(s, r, M, H)
  BY DEF BuiltFor

LEMMA BootStep == ASSUME ReceiptsInv, NEW e \in KeyEnvs, BootReceipts(e) PROVE ReceiptsInv'
  <1>1. /\ issuer' = FromEnv(e) /\ ~EnvRefused(e) /\ named \subseteq named' /\ signatures' = signatures
        /\ stored' = stored /\ trusted' = trusted
        /\ \A i \in DOMAIN issuer'.keys : Named(issuer'.keys[i].kid, issuer'.keys[i].x) \in named'
    BY DEF BootReceipts, Named
  <1>2. \A s \in DOMAIN Wires : stored'[s] # NoneStored => BuiltFor(s, stored'[s], named', signatures')
    BY <1>1, BuiltStays DEF ReceiptsInv
  <1> QED BY <1>1, <1>2 DEF ReceiptsInv

LEMMA HaltStep == ASSUME ReceiptsInv, HaltReceipts PROVE ReceiptsInv'
  <1>1. /\ issuer' = Down /\ named' = named /\ signatures' = signatures
        /\ stored' = stored /\ trusted' = trusted
    BY DEF HaltReceipts
  <1>2. \A s \in DOMAIN Wires : stored'[s] # NoneStored => BuiltFor(s, stored'[s], named', signatures')
    BY <1>1, BuiltStays DEF ReceiptsInv
  <1> QED BY <1>1, <1>2 DEF ReceiptsInv

LEMMA IssueStep == ASSUME ReceiptsInv, NEW s \in DOMAIN Wires, IssueReceipt(s) PROVE ReceiptsInv'
  <1> DEFINE r == Build(s, Wires[s], issuer)
             j == Jws(issuer.signer, Unsigned(s, Wires[s], issuer.name))
  <1>1. /\ issuer' = issuer /\ named' = named /\ trusted' = trusted /\ issuer.up
        /\ Hashable(Wires[s]) /\ stored' \in {stored, [stored EXCEPT ![s] = r]}
        /\ signatures' = signatures \cup {r.attestations[i].signature : i \in DOMAIN r.attestations}
    BY DEF IssueReceipt
  <1>2. PICK e \in KeyEnvs : ~EnvRefused(e) /\ issuer = FromEnv(e)
    BY <1>1, UpOrDown DEF ReceiptsInv
  <1>3. issuer.signer # NoSigner => Named(issuer.signer.kid, issuer.signer.key) \in named
    <2>1. issuer # Down
      BY <1>1, UpOrDown
    <2>2. Publishes(e, issuer.keys)
      BY <1>2, EnvPublishes
    <2> QED BY <1>2, <2>1, <2>2 DEF ReceiptsInv, Publishes
  <1>4. issuer.signer # NoSigner => j.signature \in signatures'
    <2> SUFFICES ASSUME issuer.signer # NoSigner PROVE j.signature \in signatures'
      OBVIOUS
    <2>1. r.attestations = IF issuer.signer = NoSigner THEN <<>> ELSE <<j>>
      <3>1. HasMembers(r, s, Wires[s], issuer)
        BY BuiltMembers
      <3> HIDE DEF r
      <3> QED BY <3>1 DEF HasMembers
    <2> HIDE DEF r, j
    <2>2. 1 \in DOMAIN r.attestations /\ r.attestations[1] = j
      BY <2>1
    <2> QED BY <1>1, <2>2
  <1>5. BuiltFor(s, r, named', signatures')
    BY <1>1, <1>3, <1>4 DEF BuiltFor
  <1> HIDE DEF r
  <1>6. ASSUME NEW t \in DOMAIN Wires, stored'[t] # NoneStored PROVE BuiltFor(t, stored'[t], named', signatures')
    <2>1. CASE stored'[t] = stored[t]
      BY <1>1, <1>6, <2>1, BuiltStays DEF ReceiptsInv
    <2>2. CASE stored'[t] # stored[t]
      <3>1. t = s /\ stored'[t] = r
        BY <1>1, <2>2 DEF ReceiptsInv
      <3> QED BY <1>5, <3>1
    <2> QED BY <2>1, <2>2
  <1>7. DOMAIN stored' = DOMAIN Wires
    BY <1>1 DEF ReceiptsInv
  <1> QED BY <1>1, <1>6, <1>7 DEF ReceiptsInv

LEMMA FetchStep == ASSUME ReceiptsInv, FetchReceiptKeys PROVE ReceiptsInv'
  <1> DEFINE doc == issuer.keys
             usable == {i \in DOMAIN doc : doc[i].okp}
             stop == {i \in usable : doc[i].kid = "" \/ doc[i].x = ""}
             taken == {i \in usable : \A j \in stop : i < j}
             kids == {doc[i].kid : i \in taken}
             last(kid) == Max({i \in taken : doc[i].kid = kid})
  <1>1. /\ issuer' = issuer /\ named' = named /\ signatures' = signatures /\ issuer.up
        /\ stored' = stored /\ trusted' = AddJwks(doc, trusted)
    BY DEF FetchReceiptKeys
  <1>2. PICK e \in KeyEnvs : ~EnvRefused(e) /\ issuer = FromEnv(e)
    BY <1>1, UpOrDown DEF ReceiptsInv
  <1>3. issuer # Down
    BY <1>1, UpOrDown
  <1>4. doc \in Seq(ToSet(doc))
    BY <1>2, EnvPublishes DEF Publishes
  <1>5. Len(doc) \in Nat /\ DOMAIN doc = 1 .. Len(doc)
    BY <1>4
  <1>6. /\ DOMAIN trusted' = DOMAIN trusted \cup kids
        /\ \A kid \in DOMAIN trusted' :
             trusted'[kid] = IF kid \in kids THEN doc[last(kid)].x ELSE trusted[kid]
    BY <1>1 DEF AddJwks
  <1> HIDE DEF doc
  <1>7. taken \in SUBSET DOMAIN doc
    OBVIOUS
  <1> HIDE DEF taken
  <1>8. ASSUME NEW kid \in kids PROVE last(kid) \in DOMAIN doc /\ doc[last(kid)].kid = kid
    <2> DEFINE T == {i \in taken : doc[i].kid = kid}
    <2>1. T \in SUBSET (1 .. Len(doc)) /\ T # {}
      BY <1>5, <1>7
    <2>2. Max(T) \in T
      BY <1>5, <2>1, LatestPosition
    <2> QED BY <1>7, <2>2
  <1> HIDE DEF last, kids
  <1>9. ASSUME NEW kid \in DOMAIN trusted' PROVE Named(kid, trusted'[kid]) \in named
    <2>1. CASE kid \in kids
      BY <1>3, <1>6, <1>8, <2>1 DEF ReceiptsInv, doc
    <2>2. CASE kid \notin kids
      BY <1>6, <2>2 DEF ReceiptsInv
    <2> QED BY <2>1, <2>2
  <1>10. \A s \in DOMAIN Wires : stored'[s] # NoneStored => BuiltFor(s, stored'[s], named', signatures')
    BY <1>1, BuiltStays DEF ReceiptsInv
  <1> QED BY <1>1, <1>9, <1>10 DEF ReceiptsInv

LEMMA ReceiptsStep == ReceiptsInv /\ [ReceiptsNext]_receiptVars => ReceiptsInv'
  <1> SUFFICES ASSUME ReceiptsInv, [ReceiptsNext]_receiptVars PROVE ReceiptsInv'
    OBVIOUS
  <1>1. CASE UNCHANGED receiptVars
    BY <1>1 DEF receiptVars, ReceiptsInv
  <1> QED BY <1>1, BootStep, HaltStep, IssueStep, FetchStep DEF ReceiptsNext

-----------------------------------------------------------------------------
(* What a verifier is told.                                                *)

\* Every signature on r was made by the runtime, and its bytes, if any, are
\* an encoding.
Carries(r, signed) ==
    /\ \A i \in DOMAIN r.attestations : r.attestations[i].signature \in signed
    /\ r.wire.form = "bytes" => IsWire(r.wire.bytes)

\* What a verifier is told of a receipt that carries what the runtime made.
ToldTruly(r, keys, signed) ==
    LET v == VerifyReceipt(r, keys) IN
    /\ v.verdict = "attested" =>
         \E g \in signed :
             g.body = ReceiptBody(r) /\ g.header.kid \in DOMAIN keys /\ keys[g.header.kid] = g.key
    /\ v.integrity = "match" =>
         /\ r.hash = Hash(PayloadOf(r.commitment))
         /\ r.wire.form = "bytes" =>
              /\ Project(Decode(r.wire.bytes)) = r.commitment
              /\ \A i \in DOMAIN r.wire.bytes :
                   LET f == r.wire.bytes[i] IN
                   /\ f.tag \in PayloadTags
                   /\ \A j \in DOMAIN f.body : f.body[j].tag \in CommitmentRefTags

LEMMA CarriesTruth ==
    ASSUME NEW r, NEW keys, NEW signed, Carries(r, signed)
    PROVE  ToldTruly(r, keys, signed)
  <1> DEFINE v == VerifyReceipt(r, keys)
  <1>1. v.verdict = "attested" =>
         \E g \in signed :
             g.body = ReceiptBody(r) /\ g.header.kid \in DOMAIN keys /\ keys[g.header.kid] = g.key
    BY AttestedMeans DEF Carries
  <1>2. v.integrity = "match" => Integrity(r) = "match"
    BY DEF VerifyReceipt
  <1> HIDE DEF v
  <1>3. ASSUME v.integrity = "match"
        PROVE  /\ r.hash = Hash(PayloadOf(r.commitment))
               /\ r.wire.form = "bytes" =>
                    Hashable(r.wire.bytes) /\ Project(Decode(r.wire.bytes)) = r.commitment
    BY <1>2, <1>3, MatchMeans
  <1>4. ASSUME v.integrity = "match", r.wire.form = "bytes"
        PROVE  \A i \in DOMAIN r.wire.bytes :
                 /\ r.wire.bytes[i].tag \in PayloadTags
                 /\ \A j \in DOMAIN r.wire.bytes[i].body :
                      r.wire.bytes[i].body[j].tag \in CommitmentRefTags
    <2> DEFINE wire == r.wire.bytes
    <2>1. IsWire(wire) /\ Hashable(wire)
      BY <1>3, <1>4 DEF Carries
    <2> HIDE DEF wire
    <2> QED BY <2>1, ScanMeans DEF wire
  <1> QED BY <1>1, <1>3, <1>4 DEF ToldTruly, v

\* The shape of what is issued.
Issues(r, signed) ==
    /\ DOMAIN r = {"format", "session", "commitment", "hash", "wire", "name", "attestations"}
    /\ r.wire.form = "bytes" /\ IsWire(r.wire.bytes) /\ r.wire = [form |-> "bytes", bytes |-> r.wire.bytes]
    /\ \/ r.attestations = <<>>
       \/ \E a : /\ r.attestations = <<a>> /\ a.signature \in signed
                 /\ DOMAIN a = {"type", "parts", "detached", "header", "signature"}

LEMMA IssuedShape ==
    ASSUME NEW s \in DOMAIN Wires, NEW r, NEW names, NEW signed, BuiltFor(s, r, names, signed)
    PROVE  Issues(r, signed)
  <1>1. PICK config :
          /\ r = Build(s, Wires[s], config)
          /\ config.signer # NoSigner =>
               Jws(config.signer, Unsigned(s, Wires[s], config.name)).signature \in signed
    BY DEF BuiltFor
  <1> DEFINE j == Jws(config.signer, Unsigned(s, Wires[s], config.name))
  <1>2. HasMembers(r, s, Wires[s], config)
    BY <1>1, BuiltMembers
  <1>3. IsWire(Wires[s])
    BY ReceiptConstants DEF IsWire, ToSet
  <1>4. DOMAIN j = {"type", "parts", "detached", "header", "signature"}
    BY DEF Jws
  <1>5. r.attestations = IF config.signer = NoSigner THEN <<>> ELSE <<j>>
    BY <1>2 DEF HasMembers
  <1> HIDE DEF j
  <1>6. /\ DOMAIN r = {"format", "session", "commitment", "hash", "wire", "name", "attestations"}
        /\ r.wire = [form |-> "bytes", bytes |-> Wires[s]]
    BY <1>2 DEF HasMembers
  <1>7. r.wire.form = "bytes" /\ r.wire.bytes = Wires[s]
    BY <1>6
  <1>8. config.signer # NoSigner => j.signature \in signed
    BY <1>1 DEF j
  <1> QED BY <1>3, <1>4, <1>5, <1>6, <1>7, <1>8 DEF Issues

LEMMA IssuedCarries == ASSUME NEW r, NEW signed, Issues(r, signed) PROVE Carries(r, signed)
  <1>1. CASE r.attestations = <<>>
    <2>1. DOMAIN r.attestations = {}
      BY <1>1
    <2> QED BY <2>1 DEF Issues, Carries
  <1>2. ASSUME NEW a, r.attestations = <<a>>, a.signature \in signed PROVE Carries(r, signed)
    <2>1. \A i \in DOMAIN r.attestations : r.attestations[i] = a
      BY <1>2
    <2> QED BY <1>2, <2>1 DEF Issues, Carries
  <1> QED BY <1>1, <1>2 DEF Issues

\* An alteration keeps attestations and bytes, or takes those of another.
LEMMA CarriesSame ==
    ASSUME NEW r, NEW signed, Carries(r, signed), NEW x, x.attestations = r.attestations,
           x.wire = r.wire \/ x.wire.form # "bytes"
    PROVE  Carries(x, signed)
  BY DEF Carries

\* An attestation is altered in any member but its signature.
LEMMA CarriesAttestation ==
    ASSUME NEW r, NEW signed, Carries(r, signed), NEW x, x.wire = r.wire,
           NEW i \in DOMAIN r.attestations, NEW b, b.signature = r.attestations[i].signature,
           x.attestations = [r.attestations EXCEPT ![i] = b]
    PROVE  Carries(x, signed)
  <1>1. \A k \in DOMAIN x.attestations :
          k \in DOMAIN r.attestations /\ x.attestations[k].signature = r.attestations[k].signature
    OBVIOUS
  <1> QED BY <1>1 DEF Carries

\* The members of a receipt an alteration looks at.
LEMMA IssuedMembers ==
    ASSUME NEW r, NEW signed, Issues(r, signed)
    PROVE  /\ Carries(r, signed) /\ "attestations" \in DOMAIN r /\ "wire" \in DOMAIN r
           /\ "commitment" \in DOMAIN r /\ "hash" \in DOMAIN r /\ "format" \in DOMAIN r
           /\ IsWire(r.wire.bytes) /\ r.wire = [form |-> "bytes", bytes |-> r.wire.bytes]
           /\ \A i \in DOMAIN r.attestations :
                "signature" \in DOMAIN r.attestations[i] /\ "header" \in DOMAIN r.attestations[i]
  BY IssuedCarries DEF Issues

LEMMA SwappedCarries ==
    ASSUME NEW r, Issues(r, signatures), NEW x \in Swapped(r),
           \A s \in Issued : Issues(stored[s], signatures)
    PROVE  Carries(x, signatures)
  <1>1. Carries(r, signatures) /\ "attestations" \in DOMAIN r /\ "wire" \in DOMAIN r
    BY IssuedMembers
  <1>2. ASSUME NEW q, NEW m \in DOMAIN r, Issues(q, signatures), x = [r EXCEPT ![m] = q[m]]
        PROVE  Carries(x, signatures)
    <2>1. x.attestations \in {r.attestations, q.attestations} /\ x.wire \in {r.wire, q.wire}
      BY <1>1, <1>2
    <2>2. Carries(q, signatures)
      BY <1>2, IssuedMembers
    <2> QED BY <1>1, <2>1, <2>2 DEF Carries
  <1>3. ASSUME NEW q, Issues(q, signatures), x = [q EXCEPT !.attestations = r.attestations]
        PROVE  Carries(x, signatures)
    <2>1. Carries(q, signatures) /\ "attestations" \in DOMAIN q /\ "wire" \in DOMAIN q
      BY <1>3, IssuedMembers
    <2>2. x.attestations = r.attestations /\ x.wire = q.wire
      BY <1>3, <2>1
    <2> QED BY <1>1, <2>1, <2>2 DEF Carries
  <1>4. \/ \E s \in Issued, m \in DOMAIN r : x = [r EXCEPT ![m] = stored[s][m]]
        \/ \E s \in Issued : x = [stored[s] EXCEPT !.attestations = r.attestations]
    BY DEF Swapped
  <1> QED BY <1>2, <1>3, <1>4

LEMMA RespelledCarries ==
    ASSUME NEW r, Issues(r, signatures), NEW x \in Respelled(r)
    PROVE  Carries(x, signatures)
  <1>1. /\ Carries(r, signatures) /\ "attestations" \in DOMAIN r /\ "wire" \in DOMAIN r
        /\ "commitment" \in DOMAIN r /\ "hash" \in DOMAIN r /\ "format" \in DOMAIN r
    BY IssuedMembers
  <1>2. x.attestations = r.attestations /\ (x.wire = r.wire \/ x.wire.form # "bytes")
    <2>1. ASSUME NEW form \in {"absent", "garbage"}, x = [r EXCEPT !.wire = [form |-> form, bytes |-> <<>>]]
          PROVE  x.attestations = r.attestations /\ x.wire.form # "bytes"
      BY <1>1, <2>1
    <2>2. ASSUME NEW v,
                 \/ x = [r EXCEPT !.hash.form = v] \/ x = [r EXCEPT !.format = v]
                 \/ x = [r EXCEPT !.commitment[2] = v]
                 \/ x = [r EXCEPT !.commitment[2].outcome_positive = v]
          PROVE  x.attestations = r.attestations /\ x.wire = r.wire
      BY <1>1, <2>2
    <2>3. \/ \E form \in {"absent", "garbage"} : x = [r EXCEPT !.wire = [form |-> form, bytes |-> <<>>]]
          \/ \E v : \/ x = [r EXCEPT !.hash.form = v] \/ x = [r EXCEPT !.format = v]
                   \/ x = [r EXCEPT !.commitment[2] = v]
                   \/ x = [r EXCEPT !.commitment[2].outcome_positive = v]
      BY DEF Respelled
    <2> QED BY <2>1, <2>2, <2>3
  <1> QED BY <1>1, <1>2, CarriesSame

LEMMA OneField ==
    ASSUME NEW g
    PROVE  <<g>> \in Seq(ToSet(<<g>>)) /\ <<>> \in Seq(ToSet(<<>>))
  BY DEF ToSet

LEMMA LengthenedCarries ==
    ASSUME NEW r, Issues(r, signatures), NEW x \in Lengthened(r)
    PROVE  Carries(x, signatures)
  <1>1. /\ Carries(r, signatures) /\ "attestations" \in DOMAIN r /\ "wire" \in DOMAIN r
        /\ IsWire(r.wire.bytes) /\ r.wire = [form |-> "bytes", bytes |-> r.wire.bytes]
    BY IssuedMembers
  <1>2. PICK f : /\ x = [r EXCEPT !.wire.bytes = @ \o <<f>>]
                 /\ \/ \E tag, type, text : f = Field(tag, type, text, <<>>)
                    \/ f = Field(9, "len", "", <<Field(3, "len", "a", <<>>)>>)
    BY DEF Lengthened
  <1>3. f.body \in Seq(ToSet(f.body)) /\ (f.tag # TagOf.supersedes => f.body = <<>>)
    <2>1. TagOf.supersedes = 9
      BY DEF TagOf
    <2>2. f.body = <<>> \/ (f.tag = 9 /\ f.body = <<Field(3, "len", "a", <<>>)>>)
      <3>1. ASSUME NEW tag, NEW type, NEW text, NEW body, f = Field(tag, type, text, body)
            PROVE  f.tag = tag /\ f.body = body
        BY <3>1 DEF Field
      <3> DEFINE inner == <<Field(3, "len", "a", <<>>)>>
      <3>2. (\E tag, type, text : f = Field(tag, type, text, <<>>)) \/ f = Field(9, "len", "", inner)
        BY <1>2
      <3> HIDE DEF inner
      <3>3. CASE \E tag, type, text : f = Field(tag, type, text, <<>>)
        BY <3>1, <3>3
      <3>4. CASE f = Field(9, "len", "", inner)
        BY <3>1, <3>4 DEF inner
      <3> QED BY <3>2, <3>3, <3>4
    <2> QED BY <2>1, <2>2, OneField
  <1>4. x.attestations = r.attestations /\ x.wire = [r.wire EXCEPT !.bytes = @ \o <<f>>]
    BY <1>1, <1>2
  <1>5. x.wire.bytes = r.wire.bytes \o <<f>>
    BY <1>1, <1>4
  <1>6. IsWire(x.wire.bytes)
    BY <1>1, <1>3, <1>5, WireExtended
  <1> QED BY <1>1, <1>4, <1>6 DEF Carries

LEMMA ReclaimedCarries ==
    ASSUME NEW r, Issues(r, signatures), NEW x \in Reclaimed(r)
    PROVE  Carries(x, signatures)
  <1>1. /\ Carries(r, signatures) /\ "attestations" \in DOMAIN r /\ "wire" \in DOMAIN r
        /\ \A i \in DOMAIN r.attestations :
             "signature" \in DOMAIN r.attestations[i] /\ "header" \in DOMAIN r.attestations[i]
    BY IssuedMembers
  <1>2. PICK i \in DOMAIN r.attestations :
          \/ \E kid : x = [r EXCEPT !.attestations[i].header.kid = kid]
          \/ x = [r EXCEPT !.attestations[i].header.alg = "none"]
          \/ x = [r EXCEPT !.attestations[i].parts = 2]
          \/ x = [r EXCEPT !.attestations[i].type = "vendor"]
    BY DEF Reclaimed
  <1> DEFINE a == r.attestations[i]
  <1>3. PICK b : /\ b.signature = a.signature
                 /\ x = [r EXCEPT !.attestations = [@ EXCEPT ![i] = b]]
    <2>1. ASSUME NEW kid, x = [r EXCEPT !.attestations[i].header.kid = kid]
          PROVE  /\ [a EXCEPT !.header.kid = kid].signature = a.signature
                 /\ x = [r EXCEPT !.attestations = [@ EXCEPT ![i] = [a EXCEPT !.header.kid = kid]]]
      BY <1>1, <2>1
    <2>2. ASSUME x = [r EXCEPT !.attestations[i].header.alg = "none"]
          PROVE  /\ [a EXCEPT !.header.alg = "none"].signature = a.signature
                 /\ x = [r EXCEPT !.attestations = [@ EXCEPT ![i] = [a EXCEPT !.header.alg = "none"]]]
      BY <1>1, <2>2
    <2>3. ASSUME x = [r EXCEPT !.attestations[i].parts = 2]
          PROVE  /\ [a EXCEPT !.parts = 2].signature = a.signature
                 /\ x = [r EXCEPT !.attestations = [@ EXCEPT ![i] = [a EXCEPT !.parts = 2]]]
      BY <1>1, <2>3
    <2>4. ASSUME x = [r EXCEPT !.attestations[i].type = "vendor"]
          PROVE  /\ [a EXCEPT !.type = "vendor"].signature = a.signature
                 /\ x = [r EXCEPT !.attestations = [@ EXCEPT ![i] = [a EXCEPT !.type = "vendor"]]]
      BY <1>1, <2>4
    <2> QED BY <1>2, <2>1, <2>2, <2>3, <2>4
  <1>4. x.wire = r.wire /\ x.attestations = [r.attestations EXCEPT ![i] = b]
    BY <1>1, <1>3
  <1> QED BY <1>1, <1>3, <1>4, CarriesAttestation

\* However a stored receipt is altered, no signature is made and no field is
\* hidden.
LEMMA AlteredCarries ==
    ASSUME NEW r, Issues(r, signatures), NEW x \in Altered(r),
           \A s \in Issued : Issues(stored[s], signatures)
    PROVE  Carries(x, signatures)
  BY SwappedCarries, RespelledCarries, LengthenedCarries, ReclaimedCarries DEF Altered

\* What was issued verifies under every set of published keys.
LEMMA IssuedStands ==
    ASSUME ReceiptsInv, NEW s \in Issued
    PROVE  LET v == VerifyReceipt(stored[s], trusted) IN
           /\ v.integrity = "match"
           /\ \A i \in DOMAIN v.attestations :
                LET signature == stored[s].attestations[i].signature IN
                /\ KidsKept => v.attestations[i] \in {"valid", "unknown_key"}
                /\ signature.header.kid \in DOMAIN trusted
                     /\ trusted[signature.header.kid] = signature.key => v.verdict = "attested"
  <1> DEFINE r == stored[s]
             v == VerifyReceipt(r, trusted)
             outcomes == [i \in DOMAIN r.attestations |->
                            Attestation(r.attestations[i], ReceiptBody(r), trusted)]
  <1>1. s \in DOMAIN Wires /\ BuiltFor(s, r, named, signatures)
    BY DEF Issued, ReceiptsInv
  <1>2. Hashable(Wires[s])
    BY <1>1 DEF BuiltFor
  <1>3. PICK config :
          /\ r = Build(s, Wires[s], config)
          /\ config.signer # NoSigner => Named(config.signer.kid, config.signer.key) \in named
    BY <1>1 DEF BuiltFor
  <1> DEFINE body == Unsigned(s, Wires[s], config.name)
             j == Jws(config.signer, body)
  <1>4. HasMembers(r, s, Wires[s], config)
    BY <1>3, BuiltMembers
  <1> HIDE DEF r
  <1>5. /\ r.format = "macp-receipt/1" /\ r.commitment = Project(Decode(Wires[s]))
        /\ r.hash = HashOfWire(Wires[s]) /\ r.wire = [form |-> "bytes", bytes |-> Wires[s]]
        /\ r.attestations = IF config.signer = NoSigner THEN <<>> ELSE <<j>>
        /\ ReceiptBody(r) = body
    BY <1>4 DEF HasMembers
  <1>6. Integrity(r) = "match"
    BY <1>2, <1>5, BuiltMatches
  <1>7. /\ v.integrity = "match" /\ v.attestations = outcomes
        /\ v.verdict = IF \E i \in DOMAIN outcomes : outcomes[i] = "valid"
                       THEN "attested" ELSE "integrity_only"
    BY <1>5, <1>6 DEF VerifyReceipt
  <1> HIDE DEF v
  <1>8. ASSUME NEW i \in DOMAIN outcomes
        PROVE  /\ config.signer # NoSigner /\ r.attestations[i] = j
               /\ outcomes[i] = Attestation(j, body, trusted)
    <2> HIDE DEF j, body
    <2>1. i \in DOMAIN r.attestations
      BY <1>8
    <2>2. config.signer # NoSigner
      BY <1>5, <2>1
    <2>3. r.attestations[i] = j
      BY <1>5, <2>1, <2>2
    <2> QED BY <1>5, <2>1, <2>2, <2>3
  <1>9. /\ j.signature.header.kid = config.signer.kid /\ j.signature.key = config.signer.key
        /\ Attestation(j, body, trusted) =
             IF config.signer.kid \notin DOMAIN trusted THEN "unknown_key"
             ELSE IF trusted[config.signer.kid] = config.signer.key THEN "valid" ELSE "invalid"
    <2> HIDE DEF body
    <2>1. /\ j.type = "jws" /\ j.parts = 3 /\ j.detached = TRUE
          /\ j.header = JwsHeader(config.signer.kid)
          /\ j.signature = [key |-> config.signer.key, header |-> JwsHeader(config.signer.kid), body |-> body]
      BY DEF Jws
    <2>2. /\ JwsHeader(config.signer.kid).object = TRUE /\ JwsHeader(config.signer.kid).alg = "EdDSA"
          /\ JwsHeader(config.signer.kid).kid = config.signer.kid
      BY DEF JwsHeader
    <2> HIDE DEF j
    <2>3. j.signature.header.kid = config.signer.kid /\ j.signature.key = config.signer.key
      BY <2>1, <2>2
    <2>4. (j.signature = [key |-> trusted[j.header.kid], header |-> j.header, body |-> body])
            <=> trusted[config.signer.kid] = config.signer.key
      BY <2>1, <2>2
    <2>5. Attestation(j, body, trusted) =
             IF config.signer.kid \notin DOMAIN trusted THEN "unknown_key"
             ELSE IF trusted[config.signer.kid] = config.signer.key THEN "valid" ELSE "invalid"
      BY <2>1, <2>2, <2>4 DEF Attestation
    <2> QED BY <2>3, <2>5
  <1> HIDE DEF j, body, outcomes
  <1>10. ASSUME NEW i \in DOMAIN outcomes, KidsKept PROVE outcomes[i] \in {"valid", "unknown_key"}
    <2>1. Named(config.signer.kid, config.signer.key) \in named
      BY <1>3, <1>8, <1>10
    <2>2. config.signer.kid \in DOMAIN trusted =>
            Named(config.signer.kid, trusted[config.signer.kid]) \in named
      BY DEF ReceiptsInv
    <2>3. config.signer.kid \in DOMAIN trusted => trusted[config.signer.kid] = config.signer.key
      BY <1>10, <2>1, <2>2 DEF KidsKept, Named
    <2> QED BY <1>8, <1>9, <1>10, <2>3
  <1>11. ASSUME NEW i \in DOMAIN outcomes, config.signer.kid \in DOMAIN trusted,
                trusted[config.signer.kid] = config.signer.key
         PROVE  v.verdict = "attested"
    BY <1>7, <1>8, <1>9, <1>11
  <1> QED BY <1>7, <1>8, <1>9, <1>10, <1>11 DEF r, v

\* What is published, of the invariant.
LEMMA PublishedHolds == ReceiptsInv => PublishedSound
  <1> SUFFICES ASSUME ReceiptsInv, issuer.up PROVE PublishedSound
    BY DEF PublishedSound
  <1>1. PICK e \in KeyEnvs : ~EnvRefused(e) /\ issuer = FromEnv(e)
    BY UpOrDown DEF ReceiptsInv
  <1>2. Publishes(e, issuer.keys)
    BY <1>1, EnvPublishes
  <1> QED BY <1>1, <1>2 DEF PublishedSound, Publishes, Distinct

\* Decision receipts mean what they say, for every set of sessions, wires
\* and environments and however often the runtime is restarted: the runtime's
\* keys serve every receipt it issued (receipt/keys.rs, receipt/build.rs), and
\* nothing else passes for one (receipt/verify.rs, commitment_hash.rs).
THEOREM ReceiptsTheorem == ReceiptsSpec => []ReceiptsSound
  <1>1. ReceiptsInv => ReceiptsSound
    <2> SUFFICES ASSUME ReceiptsInv PROVE ReceiptsSound
      OBVIOUS
    <2>1. ReceiptsStand
      BY IssuedStands DEF ReceiptsStand
    <2>2. AttestedAsSigned
      <3>1. ASSUME NEW s \in Issued PROVE Issues(stored[s], signatures)
        BY <3>1, IssuedShape DEF Issued, ReceiptsInv
      <3>2. ASSUME NEW s \in Issued, NEW r \in Altered(stored[s]) PROVE ToldTruly(r, trusted, signatures)
        BY <3>1, <3>2, AlteredCarries, CarriesTruth
      <3> QED BY <3>2 DEF AttestedAsSigned, ToldTruly
    <2> QED BY <2>1, <2>2, PublishedHolds DEF ReceiptsSound, KeysServe
  <1> QED BY <1>1, ReceiptsBegin, ReceiptsStep, PTL DEF ReceiptsSpec
=============================================================================
