------------------------------- MODULE Stream -------------------------------
(***************************************************************************)
(* A session's live stream: the in-memory log as subscribers read it       *)
(* (log_store.rs), the broadcast bus (src/stream_bus.rs), the kernel's     *)
(* order of append, announcement, compaction and publication               *)
(* (src/runtime.rs), the SubscriptionCursor (src/server.rs) and the two    *)
(* bindings over it: gRPC StreamSession and server-sent events             *)
(* (src/http/sse.rs).                                                      *)
(*                                                                         *)
(* The n-th accepted envelope is the number n: its id, for the dedup       *)
(* filter, and its ordinal.  Handlers hold the session's mutex; a snapshot *)
(* of the log is read without it.  What makes the in-memory log agree with *)
(* the durable one is the module Kernel's business.                        *)
(***************************************************************************)
EXTENDS Integers, Sequences, SequencesExt

CONSTANTS
    Bindings,       \* the bindings clients use, among "grpc" and "sse"
    Capacity,       \* DEFAULT_SESSION_STREAM_CAPACITY
    MaxEnvelopes,   \* bound: the envelopes a session accepts
    MaxSubscribes,  \* bound: the connections and subscribe frames of the client
    MaxRestarts,    \* bound: the restarts of the process
    MaxDrops        \* bound: the handlers dropped at an await

ASSUME StreamConstants ==
    /\ Bindings \subseteq {"grpc", "sse"}
    /\ Capacity \in Nat \ {0}
    /\ MaxEnvelopes \in Nat /\ MaxSubscribes \in Nat /\ MaxRestarts \in Nat
    /\ MaxDrops \in Nat

VARIABLES
    state,       \* the session's state; "Ended" is Cancelled or Expired
    log,         \* the log: ordinals above base and up to top
    resident,    \* whether the registry holds the session
    cached,      \* whether the in-memory log holds it
    op,          \* the steps left to the handler that holds the mutex
    lost,        \* history: the dropped handlers and the steps they did not take
    sub,         \* the subscriber's connection
    client,      \* what the client holds, across its connections
    subscribes,  \* how often the client subscribed
    restarts     \* how often the process restarted

session == <<state, log, resident, cached, op, lost>>
vars == <<session, sub, client, subscribes, restarts>>

-----------------------------------------------------------------------------
(* Connections.                                                            *)

Away == [pc |-> "away"]

Ended(why) == [pc |-> "ended", why |-> why]

\* enum Ending.
StillOpen == [kind |-> "open"]
Resolved(n) == [kind |-> "resolved", last_ordinal |-> n]
Fatal == [kind |-> "fatal"]

\* SubscriptionCursor, and the subscription it serves: receiver tells
\* whether it has one, pending what that was sent and has not handed on, and
\* lifecycle whether an event waits on its lifecycle receiver.  An empty
\* dedup set is an unarmed filter: either skips nothing.  next_live_ordinal
\* is 0 before the first snapshot.
Cursor(pc, after, receiver) ==
    [pc |-> pc, after |-> after, floor |-> after, receiver |-> receiver, pending |-> <<>>,
     replay |-> <<>>, dedup |-> {}, next_live_ordinal |-> 0, ending |-> StillOpen,
     lifecycle |-> FALSE]

Connected == sub.pc \notin {"away", "ended"}

\* numbered: it subscribed by position, so it knows which ordinals it holds;
\* blind: a snapshot of its was read after the session's eviction; moved: it
\* subscribed at its position on a stream that was already open; ahead: it
\* named a position the session had not reached.
NewClient ==
    [binding |-> "none", numbered |-> FALSE, blind |-> FALSE, moved |-> FALSE, ahead |-> FALSE,
     from |-> 0, got |-> <<>>]

\* The position a client resumes from: the id of the last event, or, where
\* the binding delivers no ordinals, a count.
Held ==
    IF client.binding = "sse" /\ client.got # <<>>
    THEN Last(client.got).ordinal
    ELSE client.from + Len(client.got)

Init ==
    /\ state = "None" /\ log = [base |-> 0, top |-> 0]
    /\ resident = FALSE /\ cached = FALSE
    /\ op = <<>> /\ lost = <<>>
    /\ sub = Away /\ client = NewClient
    /\ subscribes = 0 /\ restarts = 0

-----------------------------------------------------------------------------
(* The kernel's side.  An accepted envelope is appended to the log and     *)
(* applied to the session; the rest follows with the mutex held.           *)

\* SessionStart, a message or a synthetic accept.
Accept ==
    /\ op = <<>> /\ state \in {"None", "Open"} /\ log.top < MaxEnvelopes
    /\ log' = [log EXCEPT !.top = @ + 1]
    /\ state' = "Open" /\ resident' = TRUE /\ cached' = TRUE
    /\ op' = <<"publish">>
    /\ UNCHANGED <<lost, sub, client, subscribes, restarts>>

\* The message that resolves the session.
AcceptResolving ==
    /\ op = <<>> /\ state = "Open" /\ log.top < MaxEnvelopes
    /\ log' = [log EXCEPT !.top = @ + 1]
    /\ state' = "Resolved"
    /\ op' = <<"announce", "compact", "publish">>
    /\ UNCHANGED <<resident, cached, lost, sub, client, subscribes, restarts>>

\* A cancellation, or an expiry by the cleanup (which compact) or by a
\* request (which does not): an entry that consumes no ordinal.
End ==
    /\ op = <<>> /\ state = "Open"
    /\ state' = "Ended"
    /\ op' \in {<<"compact", "announce">>, <<"announce">>}
    /\ UNCHANGED <<log, resident, cached, lost, sub, client, subscribes, restarts>>

\* Mutant: no lifecycle event.
AnnounceNothing ==
    /\ op # <<>> /\ Head(op) = "announce"
    /\ op' = Tail(op)
    /\ UNCHANGED <<state, log, resident, cached, lost, sub, client, subscribes, restarts>>

\* The Resolved, Cancelled or Expired lifecycle event.
Announce ==
    /\ op # <<>> /\ Head(op) = "announce"
    /\ op' = Tail(op)
    /\ sub' = IF Connected /\ client.binding = "sse" THEN [sub EXCEPT !.lifecycle = TRUE] ELSE sub
    /\ UNCHANGED <<state, log, resident, cached, lost, client, subscribes, restarts>>

\* maybe_compact_log, where it is configured and succeeds.
Compact ==
    /\ op # <<>> /\ Head(op) = "compact"
    /\ op' = Tail(op)
    /\ log' = [log EXCEPT !.base = log.top] \/ log' = log
    /\ UNCHANGED <<state, resident, cached, lost, sub, client, subscribes, restarts>>

\* Mutant: the envelope reaches no subscriber.
PublishNothing ==
    /\ op # <<>> /\ Head(op) = "publish"
    /\ op' = Tail(op)
    /\ UNCHANGED <<state, log, resident, cached, lost, sub, client, subscribes, restarts>>

\* publish_accepted_envelope.  With no receiver the channel keeps nothing.
Publish ==
    /\ op # <<>> /\ Head(op) = "publish"
    /\ op' = Tail(op)
    /\ sub' = IF Connected /\ sub.receiver THEN [sub EXCEPT !.pending = Append(@, log.top)] ELSE sub
    /\ UNCHANGED <<state, log, resident, cached, lost, client, subscribes, restarts>>

\* A request dropped at an await behind its commit: the mutex is released
\* and the steps left are never taken.
Drop ==
    /\ Len(lost) < MaxDrops /\ op # <<>>
    /\ op' = <<>>
    /\ lost' = Append(lost, [steps |-> ToSet(op), at |-> log.top])
    /\ UNCHANGED <<state, log, resident, cached, sub, client, subscribes, restarts>>

\* evict_stale_sessions: first the registry, then the in-memory log.  The
\* channel stays while it has a receiver.
Evict ==
    /\ op = <<>> /\ resident /\ state \in {"Resolved", "Ended"}
    /\ resident' = FALSE
    /\ UNCHANGED <<state, log, cached, op, lost, sub, client, subscribes, restarts>>

ForgetLog ==
    /\ state # "None" /\ ~resident /\ cached
    /\ cached' = FALSE
    /\ UNCHANGED <<state, log, resident, op, lost, sub, client, subscribes, restarts>>

\* The process stops, at any step, and recovers: every stream is lost, and
\* every session is back, an evicted one too.
Restart ==
    /\ restarts < MaxRestarts
    /\ restarts' = restarts + 1
    /\ op' = <<>>
    /\ resident' = (state # "None") /\ cached' = (state # "None")
    /\ sub' = IF Connected THEN Away ELSE sub
    /\ UNCHANGED <<state, log, lost, client, subscribes>>

-----------------------------------------------------------------------------
(* Subscribing.                                                            *)

\* get_incoming_after_with_high_water: nothing is known of a log that is
\* not in memory.
HighWater == IF cached THEN log.top ELSE 0

Available(after) == ~cached \/ after >= log.base

IncomingAfter(after) ==
    LET first == IF after > log.base THEN after ELSE log.base
        n     == IF cached /\ log.top > first THEN log.top - first ELSE 0
    IN  [i \in 1 .. n |-> [ordinal |-> first + i, id |-> first + i]]

\* One more subscription of the client, at `after`: it goes on with what it
\* holds, or starts over.
Subscribing(binding, after) ==
    /\ subscribes < MaxSubscribes
    /\ subscribes' = subscribes + 1
    /\ client' = IF client.numbered /\ after = Held
                 THEN [client EXCEPT !.moved = @ \/ Connected]
                 ELSE [NewClient EXCEPT !.binding = binding, !.numbered = TRUE,
                                        !.ahead = after > log.top, !.from = after]

\* sse::subscribe, up to the floor it opens the cursor at.  A new client may
\* name any position, one ahead of the session included.
SubscribeSse(after) ==
    /\ sub = Away /\ client.binding \in {"none", "sse"} /\ "sse" \in Bindings
    /\ client.numbered => after = Held
    /\ Subscribing("sse", after)
    /\ sub' = [Cursor("authorize", after, FALSE)
                 EXCEPT !.floor = IF after > HighWater THEN HighWater ELSE after]
    /\ UNCHANGED <<session, restarts>>

\* A subscribe frame that opens a gRPC stream.
SubscribeGrpc ==
    /\ sub = Away /\ client.binding \in {"none", "grpc"} /\ "grpc" \in Bindings
    /\ LET after == IF client.numbered THEN Held ELSE 0
       IN  Subscribing("grpc", after) /\ sub' = Cursor("authorize", after, FALSE)
    /\ UNCHANGED <<session, restarts>>

\* bind_live: an envelope frame that opens a gRPC stream; the kernel sees the
\* envelope once the receiver exists.  It gets what is published from now on.
BindLive ==
    /\ sub = Away /\ client = NewClient /\ "grpc" \in Bindings
    /\ client' = [NewClient EXCEPT !.binding = "grpc",
                                   !.from = IF Contains(op, "publish") THEN log.top - 1 ELSE log.top]
    /\ sub' = Cursor("drain", 0, TRUE)
    /\ UNCHANGED <<session, subscribes, restarts>>

\* A subscribe frame on a bound gRPC stream: the receiver and what it has
\* buffered since the last frame stay.
SubscribeFrame(after) ==
    /\ sub.pc = "stream" /\ client.binding = "grpc"
    /\ after = 0 \/ (client.numbered /\ after = Held)
    /\ Subscribing("grpc", after)
    /\ sub' = [sub EXCEPT !.pc = "authorize", !.after = after, !.floor = after]
    /\ UNCHANGED <<session, restarts>>

\* authorize_subscription: the registry only, under the session's mutex.
Authorize ==
    /\ sub.pc = "authorize"
    /\ resident => op = <<>>
    /\ sub' = IF resident THEN [sub EXCEPT !.pc = "receiver"] ELSE Ended("unknown")
    /\ UNCHANGED <<session, client, subscribes, restarts>>

\* subscribe_session_stream.
AttachReceiver ==
    /\ sub.pc = "receiver"
    /\ sub' = [sub EXCEPT !.pc = "snapshot", !.receiver = TRUE]
    /\ UNCHANGED <<session, client, subscribes, restarts>>

\* Mutant: the filter is not armed.
LoadSnapshotUnarmed ==
    /\ sub.pc = "snapshot" /\ Available(sub.floor)
    /\ sub' = [sub EXCEPT !.pc = IF client.binding = "sse" THEN "observe" ELSE "drain",
                          !.replay = IncomingAfter(sub.floor),
                          !.next_live_ordinal = HighWater + 1]
    /\ client' = [client EXCEPT !.blind = @ \/ ~cached]
    /\ UNCHANGED <<session, subscribes, restarts>>

\* SubscriptionCursor::load_snapshot.
LoadSnapshot ==
    /\ sub.pc = "snapshot" /\ Available(sub.floor)
    /\ LET replay == IncomingAfter(sub.floor)
       IN  sub' = [sub EXCEPT
                     !.pc = IF client.binding = "sse" THEN "observe" ELSE "drain",
                     !.replay = replay,
                     !.dedup = IF replay = <<>> THEN @ ELSE {replay[i].id : i \in DOMAIN replay},
                     !.next_live_ordinal = HighWater + 1]
    /\ client' = [client EXCEPT !.blind = @ \/ ~cached]
    /\ UNCHANGED <<session, subscribes, restarts>>

\* The range was compacted away: the client is told, unless its own position
\* is above the floor and still available.
HistoryUnavailable ==
    /\ sub.pc = "snapshot" /\ ~Available(sub.floor)
    /\ sub' = IF sub.floor < sub.after /\ Available(sub.after)
              THEN [sub EXCEPT !.pc = "authorize", !.floor = sub.after, !.receiver = FALSE, !.pending = <<>>]
              ELSE Ended("unavailable")
    /\ UNCHANGED <<session, client, subscribes, restarts>>

\* Subscription::observe: the registry's session, under its mutex, or the
\* stored one.  A terminal observation is final.
Observe ==
    /\ sub.pc = "observe"
    /\ resident => op = <<>>
    /\ sub' = [sub EXCEPT !.pc = "stream",
                          !.ending = CASE state = "Resolved" -> Resolved(HighWater)
                                       [] state = "Ended"    -> Fatal
                                       [] OTHER              -> StillOpen]
    /\ UNCHANGED <<session, client, subscribes, restarts>>

-----------------------------------------------------------------------------
(* Streaming.  The client keeps reading, or its connection is lost.        *)

\* The last ordinal of a resolved session has been delivered.
Complete == sub.ending.kind = "resolved" /\ Held >= sub.ending.last_ordinal

Streaming == sub.pc \in {"drain", "stream"} /\ ~Complete

\* try_next found nothing more: a gRPC stream waits for frames again.
Drained ==
    /\ sub.pc = "drain" /\ sub.replay = <<>> /\ sub.pending = <<>>
    /\ sub' = [sub EXCEPT !.pc = "stream"]
    /\ UNCHANGED <<session, client, subscribes, restarts>>

\* An event stream drops what the client already holds.
Deliver(item) ==
    client' = IF client.binding = "sse" /\ item.ordinal <= Held
              THEN client
              ELSE [client EXCEPT !.got = Append(@, item)]

DeliverReplay ==
    /\ Streaming /\ sub.replay # <<>>
    /\ Deliver(Head(sub.replay))
    /\ sub' = [sub EXCEPT !.replay = Tail(@)]
    /\ UNCHANGED <<session, subscribes, restarts>>

\* The receiver was overrun.
Lagging == Len(sub.pending) > Capacity

LiveReady == Streaming /\ sub.replay = <<>> /\ sub.pending # <<>>

\* should_skip_replayed: an envelope of the replay comes a second time.
SkipReplayed ==
    /\ LiveReady /\ ~Lagging /\ Head(sub.pending) \in sub.dedup
    /\ sub' = [sub EXCEPT !.pending = Tail(@), !.dedup = @ \ {Head(sub.pending)}]
    /\ UNCHANGED <<session, client, subscribes, restarts>>

\* The first other envelope disarms the filter, and is numbered.
DeliverLive ==
    /\ LiveReady /\ ~Lagging /\ Head(sub.pending) \notin sub.dedup
    /\ Deliver([ordinal |-> sub.next_live_ordinal, id |-> Head(sub.pending)])
    /\ sub' = [sub EXCEPT !.pending = Tail(@), !.dedup = {},
                          !.next_live_ordinal = IF @ = 0 THEN 0 ELSE @ + 1]
    /\ UNCHANGED <<session, subscribes, restarts>>

\* Mutant: the stream goes on with what the channel still has.
LaggedUntold ==
    /\ LiveReady /\ Lagging
    /\ sub' = [sub EXCEPT !.pending = SubSeq(@, Len(@) - Capacity + 1, Len(@))]
    /\ UNCHANGED <<session, client, subscribes, restarts>>

\* STREAM_LAGGED: the client is told to subscribe again.
Lagged ==
    /\ LiveReady /\ Lagging
    /\ sub' = Away
    /\ UNCHANGED <<session, client, subscribes, restarts>>

\* A lifecycle event of this session.  The bus is shared: an overrun
\* receiver, whose events may be lost, observes just the same.
Lifecycle ==
    /\ Streaming /\ sub.lifecycle /\ sub.ending = StillOpen
    /\ sub' = [sub EXCEPT !.pc = "observe", !.lifecycle = FALSE]
    /\ UNCHANGED <<session, client, subscribes, restarts>>

\* A resolved session: the stream ends behind the resolving envelope.
EndResolved ==
    /\ sub.pc = "stream" /\ Complete
    /\ sub' = Ended("resolved")
    /\ UNCHANGED <<session, client, subscribes, restarts>>

\* Mutant: nothing is drained.
EndNotOpenAtOnce ==
    /\ Streaming /\ sub.ending = Fatal
    /\ sub' = Ended("not_open")
    /\ UNCHANGED <<session, client, subscribes, restarts>>

\* A cancelled or expired session: SESSION_NOT_OPEN once the receiver is
\* drained.
EndNotOpen ==
    /\ Streaming /\ sub.ending = Fatal
    /\ sub.replay = <<>> /\ sub.pending = <<>>
    /\ sub' = Ended("not_open")
    /\ UNCHANGED <<session, client, subscribes, restarts>>

\* The connection is lost.  Without a position the client starts over.
Disconnect ==
    /\ Connected
    /\ sub' = Away
    /\ client' = IF client.numbered THEN client ELSE NewClient
    /\ UNCHANGED <<session, subscribes, restarts>>

-----------------------------------------------------------------------------
Handler == Announce \/ Compact \/ Publish

Subscriber ==
    \/ Authorize \/ AttachReceiver \/ LoadSnapshot \/ HistoryUnavailable \/ Observe
    \/ DeliverReplay \/ SkipReplayed \/ DeliverLive \/ Drained \/ Lagged \/ Lifecycle
    \/ EndResolved \/ EndNotOpen

Next ==
    \/ Accept \/ AcceptResolving \/ End \/ Announce \/ Compact \/ Publish \/ Drop
    \/ Evict \/ ForgetLog \/ Restart
    \/ \E after \in 0 .. MaxEnvelopes + 1 : SubscribeSse(after) \/ SubscribeFrame(after)
    \/ SubscribeGrpc \/ BindLive
    \/ Subscriber \/ Disconnect

\* A handler that holds the mutex goes on, and so does a stream whose client
\* reads.  Nobody has to send, connect or be evicted.
Spec == Init /\ [][Next]_vars /\ WF_vars(Handler) /\ WF_vars(Subscriber)

-----------------------------------------------------------------------------
Items == [ordinal : 0 .. 2 * MaxEnvelopes, id : 1 .. MaxEnvelopes]

\* Type correctness of the session, the bus and the subscriber.
TypeOK ==
    /\ state \in {"None", "Open", "Resolved", "Ended"}
    /\ log \in [base : 0 .. MaxEnvelopes, top : 0 .. MaxEnvelopes]
    /\ resident \in BOOLEAN /\ cached \in BOOLEAN
    /\ op \in Seq({"announce", "compact", "publish"})
    /\ sub.pc \in {"away", "ended", "authorize", "receiver", "snapshot", "observe", "drain", "stream"}
    /\ Connected => sub.replay \in Seq(Items) /\ sub.pending \in Seq(1 .. MaxEnvelopes)
    /\ client.binding \in {"none"} \cup Bindings
    /\ client.got \in Seq(Items)
    /\ subscribes \in 0 .. MaxSubscribes /\ restarts \in 0 .. MaxRestarts

Unpublished == {l.at : l \in {l \in ToSet(lost) : "publish" \in l.steps}}

Unannounced == \E l \in ToSet(lost) : "announce" \in l.steps

\* Whatever is dropped or lost on the way, a client that resumes from the
\* position it holds misses nothing but envelopes that were never published:
\* a live ordinal is never ahead of the envelope it is given to
\* (SubscriptionCursor::number, src/server.rs).  A client that named a
\* position ahead of the session, or moved an open stream, may miss more: live
\* ordinals lag behind an unpublished envelope, and a repeated one is counted.
NothingSkipped ==
    LET ids == {client.got[i].id : i \in DOMAIN client.got}
    IN  (~client.blind /\ ~client.moved /\ ~client.ahead) =>
            \A m \in ids : \A n \in client.from + 1 .. m : n \in ids \cup Unpublished

\* Across snapshots, live delivery, lag, lost connections and restarts, a
\* client gets every envelope behind its position once, in order and with
\* its ordinal, on either binding (SubscriptionCursor, src/server.rs, and the
\* resume numbering of src/http/sse.rs).  Left out are a session evicted
\* while the subscription was being opened and a subscribe frame that moves
\* an open stream, whose new dedup set forgets what the receiver still has.
DeliveredExactly ==
    (~client.blind /\ ~client.moved) =>
        \A i \in DOMAIN client.got :
            LET item == client.got[i]
            IN  /\ item.id = client.from + i
                /\ client.numbered => item.ordinal = item.id

\* The same, where no handler was dropped before it had published.
PublishedExactly == Unpublished = {} => DeliveredExactly

\* An event stream that ends as a resolved or as a closed session has
\* delivered everything the session accepted, while its log is in memory
\* (subscribe_events, src/http/sse.rs: "Everything accepted before the
\* terminal entry is already on this receiver").
EndedIsComplete ==
    [][(sub' # sub /\ sub' \in {Ended("resolved"), Ended("not_open")} /\ cached /\ Unpublished = {})
         => Held >= log.top]_vars

\* An event stream of a session that has ended comes to its own end: the
\* lifecycle event fixes the target and the bus brings what is missing.
StreamEnds ==
    (Connected /\ client.binding = "sse" /\ state \in {"Resolved", "Ended"})
        ~> (~Connected \/ Unannounced \/ Unpublished # {})

\* An accepted envelope reaches a subscriber that stays connected.
DeliveredEventually ==
    \A n \in 1 .. MaxEnvelopes :
        (Connected /\ cached /\ log.top >= n) ~> (~Connected \/ ~cached \/ Unpublished # {} \/ Held >= n)

\* A subscriber's record is exact (SubscriptionCursor): whatever is lost, a
\* resume skips nothing, and with everything published nothing comes twice,
\* out of order or under another ordinal.
ResumedExactly == NothingSkipped /\ PublishedExactly

\* A subscriber waits for nothing for ever: what is accepted reaches it, and
\* the stream of a session that ended comes to its end (subscribe_events,
\* publish_accepted_envelope).
StreamServes == StreamEnds /\ DeliveredEventually
=============================================================================
