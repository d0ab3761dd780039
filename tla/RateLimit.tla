----------------------------- MODULE RateLimit ------------------------------
(***************************************************************************)
(* The per-sender rate limits of the security layer                        *)
(* (crates/macp-auth/src/security.rs): a sliding window of the instants at *)
(* which a sender was let through, one map of deques for session starts    *)
(* and one for everything else.                                            *)
(*                                                                         *)
(* check_bucket reads the clock and then waits for the map's mutex, so the *)
(* instants enter a deque out of order when two requests of a sender race. *)
(* MaxWait bounds that wait: without one nothing can be said of a window.  *)
(***************************************************************************)
EXTENDS Integers, Sequences

CONSTANTS
    Senders,      \* the authenticated senders
    Requests,     \* the requests in flight at once
    Limits,       \* the limit of the bucket of each kind, "start" and "message"
    Window,       \* RateLimitConfig.window
    SweepEvery,   \* SWEEP_EVERY
    Loads,        \* bound: the kinds of request of each sender, in a behaviour
    MaxWait,      \* bound: how long a request waits for the mutex
    MaxTime       \* bound: the instants the clock shows

ASSUME RateLimitConstants ==
    /\ Limits \in [{"start", "message"} -> Nat]
    /\ Loads \subseteq [Senders -> SUBSET {"start", "message"}]
    /\ Window \in Nat /\ MaxTime \in Nat
    /\ SweepEvery \in Nat \ {0}
    /\ MaxWait \in Nat

VARIABLES
    load,      \* the member of Loads the behaviour is about
    clock,     \* Instant::now()
    waiting,   \* the requests between the reading of the clock and the mutex
    events,    \* start_events and message_events: per sender, its deque
    counter,   \* start_sweep_counter and message_sweep_counter, modulo SweepEvery
    granted,   \* history: the instants of a sender's requests that passed, in their order
    refused    \* history: the request the last step refused

rateVars == <<load, clock, waiting, events, counter, granted, refused>>

Kinds == DOMAIN Limits

NoRequest == [kind |-> "none"]

\* An absent entry of the map and an empty deque behave alike.
RateInit ==
    /\ load \in Loads
    /\ clock = 0
    /\ waiting = [r \in Requests |-> NoRequest]
    /\ events = [k \in Kinds |-> [s \in Senders |-> <<>>]]
    /\ counter = [k \in Kinds |-> 0]
    /\ granted = [k \in Kinds |-> [s \in Senders |-> <<>>]]
    /\ refused = NoRequest

-----------------------------------------------------------------------------

\* Instant::duration_since, which saturates at zero.
DurationSince(now, earlier) == IF now > earlier THEN now - earlier ELSE 0

Elapsed(now, instant) == DurationSince(now, instant) > Window

\* The sweep that looks at the oldest instant instead.
SweepFront(map, now) ==
    [s \in Senders |->
        IF map[s] # <<>> /\ ~Elapsed(now, map[s][1]) THEN map[s] ELSE <<>>]

\* The stale-sender sweep: a sender stays when the instant at the back of its
\* deque is within the window.
Sweep(map, now) ==
    [s \in Senders |->
        IF map[s] # <<>> /\ ~Elapsed(now, map[s][Len(map[s])]) THEN map[s] ELSE <<>>]

\* The pop_front loop: it stops at the first instant within the window, so
\* an older one behind it stays.
PopElapsed(deque, now) ==
    LET live == {i \in 1..Len(deque) : ~Elapsed(now, deque[i])}
    IN  IF live = {} THEN <<>>
        ELSE LET first == CHOOSE i \in live : \A j \in live : i <= j
             IN  SubSeq(deque, first, Len(deque))

-----------------------------------------------------------------------------

\* enforce_rate_limit picks the bucket; check_bucket reads the clock.
EnforceRateLimit(r, s, is_session_start) ==
    LET kind == IF is_session_start THEN "start" ELSE "message" IN
    /\ waiting[r] = NoRequest
    /\ kind \in load[s]
    /\ waiting' = [waiting EXCEPT ![r] = [sender |-> s, now |-> clock, kind |-> kind]]
    /\ refused' = NoRequest
    /\ UNCHANGED <<load, clock, events, counter, granted>>

\* check_bucket, under the mutex.
CheckBucket(r) ==
    /\ waiting[r] # NoRequest
    /\ LET s == waiting[r].sender
           k == waiting[r].kind
           now == waiting[r].now
           map == IF counter[k] = 0 THEN Sweep(events[k], now) ELSE events[k]
           deque == PopElapsed(map[s], now)
       IN  /\ IF Len(deque) >= Limits[k]
              THEN /\ events' = [events EXCEPT ![k] = [map EXCEPT ![s] = deque]]
                   /\ refused' = waiting[r]
                   /\ UNCHANGED granted
              ELSE /\ events' = [events EXCEPT ![k] = [map EXCEPT ![s] = Append(deque, now)]]
                   /\ granted' = [granted EXCEPT ![k][s] = Append(@, now)]
                   /\ refused' = NoRequest
           /\ counter' = [counter EXCEPT ![k] = (@ + 1) % SweepEvery]
    /\ waiting' = [waiting EXCEPT ![r] = NoRequest]
    /\ UNCHANGED <<load, clock>>

\* The request is dropped while it waits (a timeout, a closed connection).
Abandon(r) ==
    /\ waiting[r] # NoRequest
    /\ waiting' = [waiting EXCEPT ![r] = NoRequest]
    /\ refused' = NoRequest
    /\ UNCHANGED <<load, clock, events, counter, granted>>

RateTick ==
    /\ clock < MaxTime
    /\ \A r \in Requests : waiting[r] # NoRequest => clock - waiting[r].now < MaxWait
    /\ clock' = clock + 1
    /\ refused' = NoRequest
    /\ UNCHANGED <<load, waiting, events, counter, granted>>

RateNext ==
    \/ \E r \in Requests, s \in Senders, b \in BOOLEAN : EnforceRateLimit(r, s, b)
    \/ \E r \in Requests : CheckBucket(r) \/ Abandon(r)
    \/ RateTick

RateSpec == RateInit /\ [][RateNext]_rateVars

-----------------------------------------------------------------------------

\* Of more requests of a sender than the limit, as they were let through, the
\* last carries an instant later than the first's by more than a window less
\* twice the longest wait for the mutex: no such window holds them all.
WindowBound ==
    \A k \in Kinds, s \in Senders :
        \A i, j \in DOMAIN granted[k][s] :
            j - i >= Limits[k] => granted[k][s][j] - granted[k][s][i] > Window - 2 * MaxWait

\* A sender that is answered RateLimited had as many requests let through as
\* the limit allows, none of them older than the window and one wait.
RefusedForCause ==
    refused # NoRequest =>
        LET passed == granted[refused.kind][refused.sender]
            limit == Limits[refused.kind]
        IN  /\ Len(passed) >= limit
            /\ \A i \in DOMAIN passed :
                i > Len(passed) - limit => passed[i] >= refused.now - Window - MaxWait

\* The limit the layer promises (check_bucket), whatever the races between
\* the clock and the mutex and whenever the sweep runs: it lets no more
\* through than the limit, and refuses no request for less.
LimitHonoured == WindowBound /\ RefusedForCause
=============================================================================
