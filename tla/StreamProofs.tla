---------------------------- MODULE StreamProofs ----------------------------
(***************************************************************************)
(* Proofs about the module Stream: whatever the handlers, the restarts and *)
(* the connections do, a client's record stays exact (ResumedTheorem), and *)
(* a stream that ends as complete is complete (EndedTheorem).              *)
(*                                                                         *)
(* The lemmas speak of a cursor c, a client k and the numbers that tell    *)
(* where the session is, as parameters: top, the envelopes accepted; pub,  *)
(* those handed to the bus; base, those compacted away; U, those whose     *)
(* handler was dropped before it published; gone, whether the session was  *)
(* evicted; kept, whether its log is in memory.  The last part applies     *)
(* them to the variables, one action at a time.                            *)
(***************************************************************************)
EXTENDS Stream, SequenceTheorems, TLAPS

\* A handler that still has to publish, and what is published so far.
HasPublish(o) == \E i \in DOMAIN o : o[i] = "publish"
Pub == IF HasPublish(op) THEN log.top - 1 ELSE log.top

\* The terminal states, and a connection before and behind its snapshot.
Terminal == {"Resolved", "Ended"}
Opening == {"authorize", "receiver", "snapshot"}
Serving == {"observe", "drain", "stream"}

\* What a handler may have left to do.
Ops == {<<>>, <<"publish">>, <<"announce">>, <<"compact", "publish">>, <<"compact", "announce">>,
        <<"announce", "compact", "publish">>}

\* The session: a handler runs only on a resident session, a log that was
\* compacted is that of a terminal session and is compacted to its top.
SessionInv ==
    /\ state \in {"None", "Open"} \cup Terminal
    /\ log \in [base : Nat, top : Nat]
    /\ resident \in BOOLEAN /\ cached \in BOOLEAN
    /\ op \in Ops
    /\ lost \in Seq([steps : SUBSET {"announce", "compact", "publish"}, at : Nat])
    /\ op \notin {<<>>, <<"publish">>} => state \in Terminal
    /\ HasPublish(op) => log.top >= 1
    /\ state = "None" <=> log.top = 0
    /\ resident => cached /\ state # "None"
    /\ ~resident => op = <<>> /\ state # "Open"
    /\ log.base > 0 => state \in Terminal /\ log.base = log.top

\* The types the proofs use: no bound on the ordinals.
Item == [ordinal : Nat, id : Nat]

Clients ==
    [binding : {"none", "grpc", "sse"}, numbered : BOOLEAN, blind : BOOLEAN, moved : BOOLEAN,
     ahead : BOOLEAN, from : Nat, got : Seq(Item)]

Cursors ==
    [pc : Opening \cup Serving, after : Nat, floor : Nat, receiver : BOOLEAN, pending : Seq(Nat),
     replay : Seq(Item), dedup : SUBSET Nat, next_live_ordinal : Nat,
     ending : {StillOpen, Fatal} \cup {Resolved(n) : n \in Nat}, lifecycle : BOOLEAN]

\* What a client holds.
Ids(k) == {k.got[i].id : i \in DOMAIN k.got}
HeldBy(k) ==
    IF k.binding = "sse" /\ k.got # <<>> THEN k.got[Len(k.got)].ordinal ELSE k.from + Len(k.got)

\* A client that none of the exceptions of ResumedExactly concerns.
Plain(k) == k.blind = FALSE /\ k.moved = FALSE

\* A position the client named and no envelope has confirmed.
Guessed(k) == k.ahead = TRUE /\ k.got = <<>>

\* The two halves of ResumedExactly, for a client k.
NoGap(k, U) == \A m \in Ids(k) : \A n \in k.from + 1 .. m : n \in Ids(k) \cup U

Exact(k) ==
    \A i \in DOMAIN k.got :
        k.got[i].id = k.from + i /\ (k.numbered = TRUE => k.got[i].ordinal = k.got[i].id)

\* A position is never ahead of the envelope it came with, nor, unless it was
\* guessed, of the session: that is what makes a resume lossless.
Reached(k, top) ==
    /\ k.got # <<>> => HeldBy(k) <= k.got[Len(k.got)].id
    /\ ~Guessed(k) => HeldBy(k) <= top

\* The record of a client.
ClientInv(k, top, U) ==
    /\ k.binding = "sse" => k.numbered = TRUE /\ k.moved = FALSE
    /\ k.binding # "sse" => k.ahead = FALSE
    /\ Plain(k) => /\ k.ahead = FALSE => NoGap(k, U)
                   /\ U = {} => Exact(k)
                   /\ k.numbered = TRUE => Reached(k, top)

\* What the receiver holds was published, in order, and with nothing dropped it
\* is the last of what was published.
PendingInv(c, pub, U) ==
    /\ c.receiver = FALSE => c.pending = <<>> /\ c.pc \in {"authorize", "receiver"}
    /\ \A i \in DOMAIN c.pending : c.pending[i] \in 1 .. pub
    /\ \A i, j \in DOMAIN c.pending : i < j => c.pending[i] < c.pending[j]
    /\ U = {} => \A i \in DOMAIN c.pending : c.pending[i] = pub - Len(c.pending) + i

\* A connection that is being opened stands at the client's position.
OpeningInv(c, k, pub, top, base, gone) ==
    /\ k.numbered = TRUE
    /\ c.pc # "authorize" => top >= 1
    /\ Plain(k) \/ k.binding = "sse" =>
         /\ c.after = HeldBy(k) /\ c.floor <= c.after
         /\ c.dedup = {} \/ (c.after = 0 /\ k.binding # "sse")
    /\ Plain(k) =>
         /\ c.floor < c.after => Guessed(k) \/ (c.pc = "authorize" /\ gone)
         /\ \A i \in DOMAIN c.pending : c.floor < c.pending[i]
         /\ c.pc = "authorize" => c.floor <= top \/ base > 0
         /\ c.pc = "authorize" /\ c.receiver = TRUE => c.floor = 0
         /\ c.pc # "authorize" => c.floor <= pub \/ (base > 0 /\ pub = top)

\* The ordinal in front of what is left of the replay.
Behind(c) == c.next_live_ordinal - 1 - Len(c.replay)

\* The replay is a run of ordinals up to the snapshot's high water.
ReplayInv(c) ==
    /\ c.replay # <<>> => Len(c.replay) < c.next_live_ordinal
    /\ \A i \in DOMAIN c.replay :
         c.replay[i].id = Behind(c) + i /\ c.replay[i].ordinal = Behind(c) + i

\* The next live ordinal is at most that of the next envelope that is not
\* filtered, and the client stands right in front of the replay.
NumberedInv(c, k, pub, top) ==
    /\ c.next_live_ordinal \in 1 .. top + 1
    /\ HeldBy(k) = Behind(c) \/ (Guessed(k) /\ HeldBy(k) > Behind(c))
    /\ \A d \in c.dedup : d < c.next_live_ordinal
    /\ \A i \in DOMAIN c.pending : c.pending[i] \in c.dedup \/ c.pending[i] >= c.next_live_ordinal
    /\ pub < top => top \in c.dedup \/ top >= c.next_live_ordinal

\* An envelope behind the client's position is held, in the replay, with the
\* receiver, or was never published.
Covered(c, k, pub, U) ==
    \A n \in k.from + 1 .. pub :
        \/ n \in Ids(k) \cup U
        \/ n \in Behind(c) + 1 .. c.next_live_ordinal - 1
        \/ \E i \in DOMAIN c.pending : c.pending[i] = n

\* A connection behind its snapshot.
ServingInv(c, k, pub, top, U) ==
    /\ ReplayInv(c)
    /\ Plain(k) => /\ k.ahead = FALSE => Covered(c, k, pub, U)
                   /\ k.numbered = TRUE => /\ NumberedInv(c, k, pub, top)
                                           /\ U = {} => pub - Len(c.pending) < c.next_live_ordinal
                   /\ k.numbered = FALSE =>
                        /\ c.dedup = {} /\ c.replay = <<>> /\ k.ahead = FALSE
                        /\ U = {} => pub - Len(c.pending) = k.from + Len(k.got)

\* An event stream, the exceptions included: what its ending relies on.
EventsInv(c, k, pub, top, U, kept) ==
    /\ top >= 1 /\ HeldBy(k) >= Behind(c) /\ c.next_live_ordinal >= 1
    /\ \A d \in c.dedup : d < c.next_live_ordinal
    /\ kept /\ U = {} => pub - Len(c.pending) < c.next_live_ordinal

\* An ending other than open was observed with the handler done.
EndingInv(c, k) ==
    /\ k.binding # "sse" => c.ending = StillOpen /\ c.pc # "observe" /\ c.lifecycle = FALSE
    /\ c.ending.kind # "open" =>
         /\ op = <<>> /\ state \in Terminal
         /\ c.ending.kind = "resolved" /\ cached => c.ending.last_ordinal = log.top

\* Evicted.
Gone == ~resident /\ state \in Terminal

\* The connection of the client.
ConnectionInv(c, k) ==
    /\ k.binding # "none"
    /\ PendingInv(c, Pub, Unpublished)
    /\ c.pc \in Opening => OpeningInv(c, k, Pub, log.top, log.base, Gone)
    /\ c.pc \in Serving => ServingInv(c, k, Pub, log.top, Unpublished)
    /\ c.pc \in Serving /\ k.binding = "sse" => EventsInv(c, k, Pub, log.top, Unpublished, cached)
    /\ EndingInv(c, k)

\* The inductive invariant.
StreamInv ==
    /\ SessionInv
    /\ client \in Clients
    /\ client.binding = "none" => client.numbered = FALSE
    /\ ClientInv(client, log.top, Unpublished)
    /\ (sub \in Cursors /\ ConnectionInv(sub, client)) \/ sub.pc \in {"away", "ended"}

-----------------------------------------------------------------------------
\* The updates of the actions, as relations the provers can leave closed.
Took(k, item, k2) == k2 = [k EXCEPT !.got = Append(@, item)]

Gets(c, n, c2) == c2 = IF c.receiver = TRUE THEN [c EXCEPT !.pending = Append(@, n)] ELSE c

Loads(c, pc, replay, high, c2) ==
    c2 = [c EXCEPT !.pc = pc, !.replay = replay,
                   !.dedup = IF replay = <<>> THEN @ ELSE {replay[i].id : i \in DOMAIN replay},
                   !.next_live_ordinal = high + 1]

Looks(k, kept, k2) == k2 = [k EXCEPT !.blind = @ \/ ~kept]

Replays(c, c2) == c2 = [c EXCEPT !.replay = Tail(@)]

Skips(c, c2) == c2 = [c EXCEPT !.pending = Tail(@), !.dedup = @ \ {Head(c.pending)}]

\* Sums the provers do not rearrange on their own.
LEMMA Sums ==
    /\ \A a \in Int : (a + 1) - 1 = a
    /\ \A a, b \in Int : a - 1 - (b - 1) = (a - 1 - b) + 1
    /\ \A a, b, i \in Int : a - b + (i + 1) = a - (b - 1) + i
  OBVIOUS

\* One step of a handler.
LEMMA OpSteps ==
    ASSUME NEW o \in Ops, o # <<>>
    PROVE  /\ Tail(o) \in Ops
           /\ Head(o) = "publish" => HasPublish(o) /\ ~HasPublish(Tail(o)) /\ Tail(o) = <<>>
           /\ Head(o) # "publish" => (HasPublish(Tail(o)) <=> HasPublish(o))
           /\ Head(o) # "publish" => o \notin {<<>>, <<"publish">>}
  <1>1. CASE o = <<"publish">>
    BY <1>1 DEF Ops, HasPublish
  <1>2. CASE o = <<"announce">>
    BY <1>2 DEF Ops, HasPublish
  <1>3. CASE o = <<"compact", "publish">>
    BY <1>3 DEF Ops, HasPublish
  <1>4. CASE o = <<"compact", "announce">>
    BY <1>4 DEF Ops, HasPublish
  <1>5. CASE o = <<"announce", "compact", "publish">>
    <2>1. Head(o) = "announce" /\ Tail(o) = <<"compact", "publish">> BY <1>5
    <2>2. Len(o) = 3 /\ o[3] = "publish" BY <1>5
    <2> QED BY <1>5, <2>1, <2>2 DEF Ops, HasPublish
  <1> QED BY <1>1, <1>2, <1>3, <1>4, <1>5 DEF Ops

\* The handlers that start, and whether they publish.
LEMMA OpKinds ==
    /\ ~HasPublish(<<>>) /\ HasPublish(<<"publish">>) /\ ~HasPublish(<<"announce">>)
    /\ ~HasPublish(<<"compact", "announce">>) /\ HasPublish(<<"announce", "compact", "publish">>)
  <1>1. ~HasPublish(<<>>) /\ HasPublish(<<"publish">>) /\ ~HasPublish(<<"announce">>)
    BY DEF HasPublish
  <1>2. ~HasPublish(<<"compact", "announce">>)
    BY DEF HasPublish
  <1>3. HasPublish(<<"announce", "compact", "publish">>)
    <2> DEFINE o == <<"announce", "compact", "publish">>
    <2>1. 3 \in DOMAIN o /\ o[3] = "publish" OBVIOUS
    <2> QED BY <2>1 DEF HasPublish
  <1> QED BY <1>1, <1>2, <1>3

Lost == [steps : SUBSET {"announce", "compact", "publish"}, at : Nat]

\* No handler dropped, none unpublished.
LEMMA UnpublishedSame ==
    ASSUME lost' = lost
    PROVE  Unpublished' = Unpublished
  BY DEF Unpublished, ToSet

\* A dropped handler leaves its envelope unpublished when it had still to publish.
LEMMA UnpublishedGrows ==
    ASSUME lost \in Seq(Lost), op \in Ops, op # <<>>, log.top \in Nat,
           lost' = Append(lost, [steps |-> ToSet(op), at |-> log.top])
    PROVE  /\ lost' \in Seq(Lost)
           /\ Unpublished' = IF HasPublish(op) THEN Unpublished \cup {log.top} ELSE Unpublished
  <1> DEFINE l == [steps |-> ToSet(op), at |-> log.top]
  <1>1. "publish" \in l.steps <=> HasPublish(op)
    BY DEF ToSet, HasPublish
  <1>2. l \in Lost
    <2>1. ASSUME NEW i \in DOMAIN op PROVE op[i] \in {"announce", "compact", "publish"}
      <3>1. CASE op = <<"announce", "compact", "publish">>
        <4>1. i \in {1, 2, 3} BY <3>1
        <4> QED BY <4>1, <3>1
      <3>2. CASE op # <<"announce", "compact", "publish">>
        BY <3>2 DEF Ops
      <3> QED BY <3>1, <3>2
    <2>2. ToSet(op) \subseteq {"announce", "compact", "publish"} BY <2>1 DEF ToSet
    <2> QED BY <2>2 DEF Lost
  <1>3. l.at = log.top OBVIOUS
  <1> HIDE DEF l
  <1>4. lost' = Append(lost, l) BY DEF l
  <1>5. ToSet(lost') = ToSet(lost) \cup {l}
    <2>1. Len(lost) \in Nat /\ DOMAIN lost = 1 .. Len(lost) OBVIOUS
    <2>2. /\ DOMAIN lost' = 1 .. Len(lost) + 1
          /\ lost'[Len(lost) + 1] = l /\ \A i \in DOMAIN lost : lost'[i] = lost[i]
      BY <1>4, <2>1
    <2>3. \A i \in DOMAIN lost' : i \in DOMAIN lost \/ i = Len(lost) + 1 BY <2>1, <2>2
    <2>4. DOMAIN lost \subseteq DOMAIN lost' /\ Len(lost) + 1 \in DOMAIN lost' BY <2>1, <2>2
    <2> QED BY <2>2, <2>3, <2>4 DEF ToSet
  <1>6. Unpublished' = {x.at : x \in {x \in ToSet(lost') : "publish" \in x.steps}}
    BY DEF Unpublished, ToSet
  <1>6a. lost' \in Seq(Lost) BY <1>2, <1>4
  <1>7. CASE HasPublish(op)
    <2>1. \A x \in ToSet(lost') : x \in ToSet(lost) \/ x = l BY <1>5
    <2>2. l \in ToSet(lost') /\ ToSet(lost) \subseteq ToSet(lost') BY <1>5
    <2>3. Unpublished' \subseteq Unpublished \cup {log.top} BY <2>1, <1>3, <1>6 DEF Unpublished
    <2>4. Unpublished \subseteq Unpublished' BY <2>2, <1>6 DEF Unpublished
    <2>5. log.top \in Unpublished' BY <2>2, <1>1, <1>3, <1>6, <1>7
    <2> QED BY <2>3, <2>4, <2>5, <1>6a, <1>7
  <1>8. CASE ~HasPublish(op)
    <2>1. \A x \in ToSet(lost') : "publish" \in x.steps => x \in ToSet(lost) BY <1>1, <1>5, <1>8
    <2>2. ToSet(lost) \subseteq ToSet(lost') BY <1>5
    <2>3. Unpublished' \subseteq Unpublished BY <2>1, <1>6 DEF Unpublished
    <2>4. Unpublished \subseteq Unpublished' BY <2>2, <1>6 DEF Unpublished
    <2> QED BY <2>3, <2>4, <1>6a, <1>8
  <1> QED BY <1>2, <1>4, <1>7, <1>8

-----------------------------------------------------------------------------
\* A position is a number.
LEMMA HeldNat ==
    ASSUME NEW k \in Clients
    PROVE  HeldBy(k) \in Nat /\ k.from \in Nat /\ k.got \in Seq(Item) /\ Len(k.got) \in Nat
  <1>1. k.got \in Seq(Item) /\ k.from \in Nat BY DEF Clients
  <1>2. k.got # <<>> => Len(k.got) \in DOMAIN k.got BY <1>1
  <1>3. k.got # <<>> => k.got[Len(k.got)] \in Item BY <1>1, <1>2
  <1>4. k.got # <<>> => k.got[Len(k.got)].ordinal \in Nat BY <1>3 DEF Item
  <1> QED BY <1>1, <1>4 DEF HeldBy

\* Everything up to the position is held or was never published.
LEMMA HeldCovered ==
    ASSUME NEW k \in Clients, NEW top \in Nat, NEW U, ClientInv(k, top, U),
           Plain(k), k.ahead = FALSE, k.numbered = TRUE,
           NEW n \in k.from + 1 .. HeldBy(k)
    PROVE  n \in Ids(k) \cup U
  <1>1. k.got \in Seq(Item) /\ k.from \in Nat BY DEF Clients
  <1>2. k.got # <<>>
    BY <1>1 DEF HeldBy
  <1>3. Len(k.got) \in DOMAIN k.got BY <1>1, <1>2
  <1> DEFINE m == k.got[Len(k.got)].id
  <1>4. m \in Ids(k) /\ m \in Nat
    <2>1. k.got[Len(k.got)] \in Item BY <1>1, <1>3
    <2> QED BY <2>1, <1>3 DEF Ids, Item
  <1>5. HeldBy(k) <= m /\ NoGap(k, U)
    BY <1>2 DEF ClientInv, Reached
  <1>6. HeldBy(k) \in Nat BY HeldNat
  <1>7. n \in k.from + 1 .. m BY <1>1, <1>4, <1>5, <1>6
  <1> QED BY <1>4, <1>5, <1>7 DEF NoGap

\* A record stays exact as the session goes on.
LEMMA ClientGrows ==
    ASSUME NEW k \in Clients, NEW top \in Nat, NEW top2 \in Nat, NEW U, NEW U2,
           top <= top2, U \subseteq U2, ClientInv(k, top, U)
    PROVE  ClientInv(k, top2, U2)
  <1>1. HeldBy(k) \in Nat BY HeldNat
  <1>2. U2 = {} => U = {} OBVIOUS
  <1>3. NoGap(k, U) => NoGap(k, U2) BY DEF NoGap
  <1>4. Reached(k, top) => Reached(k, top2) BY <1>1 DEF Reached
  <1> QED BY <1>2, <1>3, <1>4 DEF ClientInv

\* What an item must be to keep the record exact.
Fits(k, item, top, U) ==
    /\ Plain(k) /\ k.ahead = FALSE => \A n \in k.from + 1 .. item.id - 1 : n \in Ids(k) \cup U
    /\ Plain(k) /\ U = {} => /\ item.id = k.from + Len(k.got) + 1
                             /\ k.numbered = TRUE => item.ordinal = item.id
    /\ Plain(k) /\ k.numbered = TRUE =>
           /\ item.ordinal <= item.id /\ item.ordinal <= top
           /\ k.binding # "sse" => item.ordinal = k.from + Len(k.got) + 1

\* One more item.
LEMMA ClientTakes ==
    ASSUME NEW k \in Clients, NEW top \in Nat, NEW U, ClientInv(k, top, U),
           NEW item \in Item, Fits(k, item, top, U),
           NEW k2, Took(k, item, k2)
    PROVE  /\ k2 \in Clients /\ ClientInv(k2, top, U)
           /\ Ids(k2) = Ids(k) \cup {item.id}
           /\ k2.got # <<>> /\ Len(k2.got) = Len(k.got) + 1
           /\ HeldBy(k2) = IF k.binding = "sse" THEN item.ordinal ELSE k.from + Len(k.got) + 1
           /\ \A f \in {"binding", "numbered", "blind", "moved", "ahead", "from"} : k2[f] = k[f]
  <1>1. k.got \in Seq(Item) /\ k.from \in Nat /\ Len(k.got) \in Nat /\ HeldBy(k) \in Nat BY HeldNat
  <1> DEFINE g == Append(k.got, item)
  <1>2. g \in Seq(Item) /\ Len(g) = Len(k.got) + 1 /\ g # <<>> /\ g[Len(g)] = item
        /\ \A i \in DOMAIN k.got : i \in DOMAIN g /\ g[i] = k.got[i]
    BY <1>1
  <1>3. \A i \in DOMAIN g : i \in DOMAIN k.got \/ i = Len(g)
    BY <1>1, <1>2
  <1>3a. Len(g) \in DOMAIN g BY <1>2, <1>1
  <1> HIDE DEF g
  <1>4. k2.got = g /\ k2 \in Clients
        /\ \A f \in {"binding", "numbered", "blind", "moved", "ahead", "from"} : k2[f] = k[f]
    BY <1>2 DEF Clients, g, Took
  <1>4a. k2.binding = k.binding /\ k2.numbered = k.numbered /\ k2.blind = k.blind
         /\ k2.moved = k.moved /\ k2.ahead = k.ahead /\ k2.from = k.from
    BY <1>4
  <1>5. Ids(k2) = Ids(k) \cup {item.id}
    BY <1>2, <1>3, <1>3a, <1>4 DEF Ids
  <1>6. HeldBy(k2) = IF k.binding = "sse" THEN item.ordinal ELSE k.from + Len(k.got) + 1
    <2>1. k2.got # <<>> /\ k2.got[Len(k2.got)] = item /\ Len(k2.got) = Len(k.got) + 1 BY <1>2, <1>4
    <2>2. k.from + (Len(k.got) + 1) = k.from + Len(k.got) + 1 BY <1>1
    <2> QED BY <2>1, <2>2, <1>4a DEF HeldBy
  <1>7. Plain(k2) <=> Plain(k) BY <1>4a DEF Plain
  <1>8. ASSUME Plain(k), k.ahead = FALSE PROVE NoGap(k2, U)
    <2>1. NoGap(k, U) BY <1>8 DEF ClientInv
    <2> SUFFICES ASSUME NEW m \in Ids(k2), NEW n \in k.from + 1 .. m PROVE n \in Ids(k2) \cup U
      BY <1>4a DEF NoGap
    <2>2. CASE m \in Ids(k) BY <2>1, <2>2, <1>5 DEF NoGap
    <2>3. CASE m = item.id
      <3>1. n = item.id \/ n \in k.from + 1 .. item.id - 1
        BY <2>3, <1>1 DEF Item
      <3> QED BY <3>1, <1>5, <1>8 DEF Fits
    <2> QED BY <2>2, <2>3, <1>5
  <1>9. ASSUME Plain(k), U = {} PROVE Exact(k2)
    <2>1. Exact(k) BY <1>9 DEF ClientInv
    <2> SUFFICES ASSUME NEW i \in DOMAIN g
                 PROVE  g[i].id = k.from + i /\ (k.numbered = TRUE => g[i].ordinal = g[i].id)
      BY <1>4, <1>4a DEF Exact
    <2>2. CASE i \in DOMAIN k.got BY <2>1, <2>2, <1>2 DEF Exact
    <2>3. CASE i = Len(g)
      <3>1. g[i] = item /\ i = Len(k.got) + 1 BY <2>3, <1>2
      <3>2. item.id = k.from + Len(k.got) + 1 /\ (k.numbered = TRUE => item.ordinal = item.id)
        BY <1>9 DEF Fits
      <3> QED BY <3>1, <3>2, <1>1
    <2> QED BY <2>2, <2>3, <1>3
  <1>10. ASSUME Plain(k), k.numbered = TRUE PROVE Reached(k2, top)
    <2>1. HeldBy(k2) = item.ordinal BY <1>6, <1>10 DEF Fits
    <2>2. k2.got[Len(k2.got)].id = item.id BY <1>2, <1>4
    <2> QED BY <2>1, <2>2, <1>10 DEF Reached, Fits
  <1>11. ClientInv(k2, top, U)
    BY <1>4a, <1>7, <1>8, <1>9, <1>10 DEF ClientInv
  <1> QED BY <1>2, <1>4, <1>5, <1>6, <1>11

-----------------------------------------------------------------------------
\* The session stays or is compacted, accepts, or loses a publication.
Advances(pub, top, base, U, pub2, top2, base2, U2) ==
    \/ pub2 = pub /\ top2 = top /\ base <= base2 /\ U2 = U
    \/ pub2 = pub /\ pub = top /\ top2 = top + 1 /\ base = 0 /\ base2 = 0 /\ U2 = U
    \/ pub = top - 1 /\ pub2 = top /\ top2 = top /\ base2 = base /\ U2 = U \cup {top}

\* Nothing of the cursor but its ending and its lifecycle event changes.
SameCursor(c, c2) ==
    /\ c2.pc = c.pc /\ c2.after = c.after /\ c2.floor = c.floor /\ c2.receiver = c.receiver
    /\ c2.pending = c.pending /\ c2.replay = c.replay /\ c2.dedup = c.dedup
    /\ c2.next_live_ordinal = c.next_live_ordinal

\* The types of a cursor's fields.
LEMMA CursorFields ==
    ASSUME NEW c \in Cursors
    PROVE  /\ c.after \in Nat /\ c.floor \in Nat /\ c.next_live_ordinal \in Nat
           /\ c.pending \in Seq(Nat) /\ c.replay \in Seq(Item) /\ c.dedup \subseteq Nat
           /\ Len(c.pending) \in Nat /\ Len(c.replay) \in Nat
           /\ DOMAIN c.pending = 1 .. Len(c.pending) /\ DOMAIN c.replay = 1 .. Len(c.replay)
           /\ \A i \in DOMAIN c.pending : c.pending[i] \in Nat
           /\ c.pc \in Opening \cup Serving /\ c.receiver \in BOOLEAN
           /\ Behind(c) \in Int
  <1>1. /\ c.after \in Nat /\ c.floor \in Nat /\ c.next_live_ordinal \in Nat
        /\ c.pending \in Seq(Nat) /\ c.replay \in Seq(Item) /\ c.dedup \subseteq Nat
        /\ c.pc \in Opening \cup Serving /\ c.receiver \in BOOLEAN
    BY DEF Cursors
  <1>2. Len(c.pending) \in Nat /\ Len(c.replay) \in Nat BY <1>1
  <1> QED BY <1>1, <1>2 DEF Behind

\* The session moves under a cursor.
Moving(c, c2, k, pub, top, base, U, gone, kept, pub2, top2, base2, U2, gone2, kept2) ==
    /\ c \in Cursors /\ c2 \in Cursors /\ k \in Clients /\ SameCursor(c, c2)
    /\ pub \in Nat /\ top \in Nat /\ base \in Nat /\ gone \in BOOLEAN /\ kept \in BOOLEAN
    /\ pub2 \in Nat /\ top2 \in Nat /\ base2 \in Nat /\ gone2 \in BOOLEAN /\ kept2 \in BOOLEAN
    /\ Advances(pub, top, base, U, pub2, top2, base2, U2)
    /\ gone => gone2

\* The connection's invariant does not mind.
LEMMA SessionMoves ==
    ASSUME NEW c, NEW c2, NEW k, NEW pub, NEW top, NEW base, NEW U, NEW gone, NEW kept,
           NEW pub2, NEW top2, NEW base2, NEW U2, NEW gone2, NEW kept2,
           Moving(c, c2, k, pub, top, base, U, gone, kept, pub2, top2, base2, U2, gone2, kept2)
    PROVE  /\ PendingInv(c, pub, U) => PendingInv(c2, pub2, U2)
           /\ OpeningInv(c, k, pub, top, base, gone) => OpeningInv(c2, k, pub2, top2, base2, gone2)
           /\ ServingInv(c, k, pub, top, U) => ServingInv(c2, k, pub2, top2, U2)
           /\ EventsInv(c, k, pub, top, U, kept) /\ (kept2 => kept)
                => EventsInv(c2, k, pub2, top2, U2, kept2)
  <1>m. /\ c \in Cursors /\ c2 \in Cursors /\ k \in Clients /\ SameCursor(c, c2)
        /\ pub \in Nat /\ top \in Nat /\ base \in Nat /\ gone \in BOOLEAN /\ kept \in BOOLEAN
        /\ pub2 \in Nat /\ top2 \in Nat /\ base2 \in Nat /\ gone2 \in BOOLEAN /\ kept2 \in BOOLEAN
        /\ Advances(pub, top, base, U, pub2, top2, base2, U2)
        /\ gone => gone2
    BY DEF Moving
  <1> USE <1>m
  <1> USE CursorFields, HeldNat
  <1>1. PendingInv(c, pub, U) => PendingInv(c2, pub2, U2)
    <2> SUFFICES ASSUME PendingInv(c, pub, U) PROVE PendingInv(c2, pub2, U2) OBVIOUS
    <2>1. U2 = {} => U = {} /\ pub2 = pub BY DEF Advances
    <2>2. \A i \in DOMAIN c2.pending : c2.pending[i] \in 1 .. pub2
      <3>1. pub <= pub2 BY DEF Advances
      <3>2. \A i \in DOMAIN c.pending : c.pending[i] \in 1 .. pub BY DEF PendingInv
      <3>3. c2.pending = c.pending BY DEF SameCursor
      <3> HIDE <1>m
      <3>4. pub \in Nat /\ pub2 \in Nat BY <1>m
      <3> QED BY <3>1, <3>2, <3>3, <3>4
    <2> QED BY <2>1, <2>2 DEF PendingInv, SameCursor
  <1>2. OpeningInv(c, k, pub, top, base, gone) => OpeningInv(c2, k, pub2, top2, base2, gone2)
    <2> SUFFICES ASSUME OpeningInv(c, k, pub, top, base, gone)
                 PROVE  OpeningInv(c2, k, pub2, top2, base2, gone2)
      OBVIOUS
    <2>1. top <= top2 /\ base <= base2 /\ pub <= pub2 BY DEF Advances
    <2>2. base > 0 /\ pub = top => base2 > 0 /\ pub2 = top2 BY DEF Advances
    <2>3. c.floor <= top \/ base > 0 => c.floor <= top2 \/ base2 > 0 BY <2>1
    <2>4. c.floor <= pub \/ (base > 0 /\ pub = top) => c.floor <= pub2 \/ (base2 > 0 /\ pub2 = top2)
      BY <2>1, <2>2
    <2>5. top >= 1 => top2 >= 1 BY <2>1
    <2> QED BY <2>1, <2>2, <2>3, <2>4, <2>5 DEF OpeningInv, SameCursor
  <1>3. Behind(c2) = Behind(c) /\ (ReplayInv(c) => ReplayInv(c2))
    BY DEF Behind, ReplayInv, SameCursor
  <1>4. NumberedInv(c, k, pub, top) => NumberedInv(c2, k, pub2, top2)
    <2> SUFFICES ASSUME NumberedInv(c, k, pub, top) PROVE NumberedInv(c2, k, pub2, top2) OBVIOUS
    <2>1. c.next_live_ordinal \in 1 .. top + 1 BY DEF NumberedInv
    <2>2. c.next_live_ordinal \in 1 .. top2 + 1 BY <2>1 DEF Advances
    <2>3. pub2 < top2 => top2 \in c.dedup \/ top2 >= c.next_live_ordinal
      BY <2>1 DEF Advances, NumberedInv
    <2> QED BY <1>3, <2>2, <2>3 DEF NumberedInv, SameCursor
  <1>5. Covered(c, k, pub, U) => Covered(c2, k, pub2, U2)
    <2> SUFFICES ASSUME Covered(c, k, pub, U), NEW n \in k.from + 1 .. pub2
                 PROVE  \/ n \in Ids(k) \cup U2
                        \/ n \in Behind(c) + 1 .. c.next_live_ordinal - 1
                        \/ \E i \in DOMAIN c.pending : c.pending[i] = n
      BY <1>3 DEF Covered, SameCursor
    <2>1. n \in k.from + 1 .. pub \/ n \in U2 BY DEF Advances
    <2>2. U \subseteq U2 BY DEF Advances
    <2> QED BY <2>1, <2>2 DEF Covered
  <1>6. (U = {} => pub - Len(c.pending) < c.next_live_ordinal)
          => (U2 = {} => pub2 - Len(c2.pending) < c2.next_live_ordinal)
    BY DEF Advances, SameCursor
  <1>7. (U = {} => pub - Len(c.pending) = k.from + Len(k.got))
          => (U2 = {} => pub2 - Len(c2.pending) = k.from + Len(k.got))
    BY DEF Advances, SameCursor
  <1>8. ServingInv(c, k, pub, top, U) => ServingInv(c2, k, pub2, top2, U2)
    <2>1. c2.dedup = c.dedup /\ c2.replay = c.replay BY DEF SameCursor
    <2> QED BY <1>3, <1>4, <1>5, <1>6, <1>7, <2>1 DEF ServingInv
  <1>9. EventsInv(c, k, pub, top, U, kept) /\ (kept2 => kept) => EventsInv(c2, k, pub2, top2, U2, kept2)
    <2> SUFFICES ASSUME EventsInv(c, k, pub, top, U, kept), kept2 => kept
                 PROVE  EventsInv(c2, k, pub2, top2, U2, kept2)
      OBVIOUS
    <2>1. top2 >= 1 BY DEF EventsInv, Advances
    <2>2. U2 = {} => U = {} /\ pub2 = pub BY DEF Advances
    <2> QED BY <1>3, <2>1, <2>2 DEF EventsInv, SameCursor
  <1> QED BY <1>1, <1>2, <1>8, <1>9

\* A publication, the last accepted envelope.
Getting(c, c2, k, pub, top, base, U, gone, kept) ==
    /\ c \in Cursors /\ k \in Clients /\ pub \in Nat /\ top \in Nat /\ base \in Nat
    /\ gone \in BOOLEAN /\ kept \in BOOLEAN /\ pub = top - 1 /\ Gets(c, top, c2)

\* publish_accepted_envelope keeps the connection's invariant.
LEMMA ReceiverGets ==
    ASSUME NEW c, NEW c2, NEW k, NEW pub, NEW top, NEW base, NEW U, NEW gone, NEW kept,
           Getting(c, c2, k, pub, top, base, U, gone, kept)
    PROVE  /\ c2 \in Cursors
           /\ PendingInv(c, pub, U) => PendingInv(c2, top, U)
           /\ PendingInv(c, pub, U) /\ OpeningInv(c, k, pub, top, base, gone)
                => OpeningInv(c2, k, top, top, base, gone)
           /\ c.receiver = TRUE /\ ServingInv(c, k, pub, top, U) => ServingInv(c2, k, top, top, U)
           /\ c.receiver = TRUE /\ EventsInv(c, k, pub, top, U, kept)
                => EventsInv(c2, k, top, top, U, kept)
           /\ c2.pc = c.pc /\ c2.receiver = c.receiver /\ c2.ending = c.ending
           /\ c2.lifecycle = c.lifecycle
  <1>m. /\ c \in Cursors /\ k \in Clients /\ pub \in Nat /\ top \in Nat /\ base \in Nat
        /\ gone \in BOOLEAN /\ kept \in BOOLEAN /\ pub = top - 1 /\ Gets(c, top, c2)
    BY DEF Getting
  <1> USE <1>m
  <1> USE CursorFields, HeldNat
  <1>1. CASE c.receiver = FALSE
    <2>1. c2 = c BY <1>1 DEF Gets
    <2>2. PendingInv(c, pub, U) => PendingInv(c, top, U) BY <1>1 DEF PendingInv
    <2>3. OpeningInv(c, k, pub, top, base, gone) => OpeningInv(c, k, top, top, base, gone)
      <3>1. c.floor <= pub \/ (base > 0 /\ pub = top) => c.floor <= top \/ (base > 0 /\ top = top)
        OBVIOUS
      <3> QED BY <3>1 DEF OpeningInv
    <2> QED BY <1>1, <2>1, <2>2, <2>3
  <1>2. CASE c.receiver = TRUE
    <2> DEFINE q == Append(c.pending, top)
    <2>1. q \in Seq(Nat) /\ Len(q) = Len(c.pending) + 1 /\ q[Len(q)] = top
          /\ \A i \in DOMAIN c.pending : i \in DOMAIN q /\ q[i] = c.pending[i] /\ i < Len(q)
      <3>1. q \in Seq(Nat) /\ Len(q) = Len(c.pending) + 1 /\ q[Len(q)] = top OBVIOUS
      <3>2. ASSUME NEW i \in DOMAIN c.pending
            PROVE  i \in DOMAIN q /\ q[i] = c.pending[i] /\ i < Len(q)
        <4>1. i \in 1 .. Len(c.pending) OBVIOUS
        <4>2. i \in 1 .. Len(q) /\ i < Len(q) BY <4>1, <3>1
        <4>3. q[i] = c.pending[i] BY <4>1
        <4> QED BY <4>2, <4>3, <3>1
      <3> QED BY <3>1, <3>2
    <2>2. \A i \in DOMAIN q : i \in DOMAIN c.pending \/ i = Len(q) BY <2>1
    <2>2a. Len(q) \in DOMAIN q BY <2>1
    <2> HIDE DEF q
    <2>3. c2 \in Cursors /\ c2.pending = q
          /\ c2.pc = c.pc /\ c2.after = c.after /\ c2.floor = c.floor /\ c2.receiver = c.receiver
          /\ c2.replay = c.replay /\ c2.dedup = c.dedup /\ c2.ending = c.ending
          /\ c2.next_live_ordinal = c.next_live_ordinal /\ c2.lifecycle = c.lifecycle
      BY <1>2, <2>1 DEF Cursors, q, Gets
    <2> HIDE <1>2
    <2>4. PendingInv(c, pub, U) => PendingInv(c2, top, U)
      <3> SUFFICES ASSUME PendingInv(c, pub, U) PROVE PendingInv(c2, top, U) OBVIOUS
      <3>0. \A i \in DOMAIN c.pending : c.pending[i] \in 1 .. pub BY DEF PendingInv
      <3>1. \A i \in DOMAIN q : q[i] \in 1 .. top
        <4> SUFFICES ASSUME NEW i \in DOMAIN q PROVE q[i] \in 1 .. top OBVIOUS
        <4>1. CASE i \in DOMAIN c.pending
          <5>1. q[i] \in 1 .. pub BY <4>1, <2>1, <3>0
          <5> QED BY <5>1
        <4>2. CASE i = Len(q) BY <4>2, <2>1
        <4> QED BY <4>1, <4>2, <2>2
      <3>2. \A i, j \in DOMAIN q : i < j => q[i] < q[j]
        <4> SUFFICES ASSUME NEW i \in DOMAIN q, NEW j \in DOMAIN q, i < j PROVE q[i] < q[j] OBVIOUS
        <4>1. i \in DOMAIN c.pending BY <2>1, <2>2
        <4>2. CASE j \in DOMAIN c.pending BY <4>1, <4>2, <2>1 DEF PendingInv
        <4>3. CASE j = Len(q)
          <5>1. q[i] \in 1 .. pub /\ q[j] = top BY <4>1, <4>3, <2>1, <3>0
          <5> QED BY <5>1
        <4> QED BY <4>2, <4>3, <2>2
      <3>3. ASSUME U = {}, NEW i \in DOMAIN q PROVE q[i] = top - Len(q) + i
        <4>1. CASE i \in DOMAIN c.pending
          <5>1. c.pending[i] = pub - Len(c.pending) + i BY <4>1, <3>3 DEF PendingInv
          <5>0. Len(c.pending) \in Nat /\ DOMAIN c.pending = 1 .. Len(c.pending) BY <1>m, CursorFields
          <5>0a. q[i] = c.pending[i] BY <4>1, <2>1
          <5> HIDE <1>m, CursorFields, HeldNat
          <5>2. i \in Nat /\ Len(c.pending) \in Nat /\ q[i] = c.pending[i] BY <4>1, <5>0, <5>0a
          <5>2a. top \in Nat /\ pub = top - 1 BY <1>m
          <5>3. PICK n \in Nat : n = Len(c.pending) BY <5>2
          <5>4. q[i] = top - 1 - n + i /\ Len(q) = n + 1 BY <5>1, <5>2, <5>2a, <5>3, <2>1
          <5>5. top - 1 - n + i = top - (n + 1) + i BY <5>2, <5>2a
          <5> QED BY <5>4, <5>5
        <4>2. CASE i = Len(q)
          <5>1. Len(c.pending) \in Nat BY CursorFields
          <5> HIDE CursorFields, HeldNat
          <5>2. PICK n \in Nat : n = Len(c.pending) BY <5>1
          <5>3. i = n + 1 /\ Len(q) = n + 1 /\ q[i] = top BY <4>2, <5>2, <2>1
          <5>4. top \in Nat BY <1>m
          <5> HIDE <1>m
          <5>5. top - (n + 1) + (n + 1) = top BY <5>4
          <5> QED BY <5>3, <5>5
        <4> QED BY <4>1, <4>2, <2>2
      <3> QED BY <1>2, <2>3, <3>1, <3>2, <3>3 DEF PendingInv
    <2>5. OpeningInv(c, k, pub, top, base, gone) => OpeningInv(c2, k, top, top, base, gone)
      <3> SUFFICES ASSUME OpeningInv(c, k, pub, top, base, gone)
                   PROVE  OpeningInv(c2, k, top, top, base, gone)
        OBVIOUS
      <3>0. Plain(k) => c.floor < top
        <4>1. Plain(k) /\ c.pc # "authorize" => c.floor <= pub BY DEF OpeningInv
        <4>2. Plain(k) /\ c.pc = "authorize" => c.floor = 0 BY <1>2 DEF OpeningInv
        <4> QED BY <4>1, <4>2
      <3>1. Plain(k) => \A i \in DOMAIN q : c.floor < q[i]
        BY <3>0, <2>1, <2>2 DEF OpeningInv
      <3> QED BY <2>3, <3>0, <3>1 DEF OpeningInv
    <2>6. Behind(c2) = Behind(c) BY <2>3 DEF Behind
    <2>7. NumberedInv(c, k, pub, top) => NumberedInv(c2, k, top, top)
      <3> SUFFICES ASSUME NumberedInv(c, k, pub, top) PROVE NumberedInv(c2, k, top, top) OBVIOUS
      <3>1. top \in c.dedup \/ top >= c.next_live_ordinal BY DEF NumberedInv
      <3>2. \A i \in DOMAIN q : q[i] \in c.dedup \/ q[i] >= c.next_live_ordinal
        BY <2>1, <2>2, <3>1 DEF NumberedInv
      <3>3. c.next_live_ordinal \in 1 .. top + 1 /\ ~(top < top) BY DEF NumberedInv
      <3>4. \A d \in c.dedup : d < c.next_live_ordinal BY DEF NumberedInv
      <3>5. HeldBy(k) = Behind(c) \/ (Guessed(k) /\ HeldBy(k) > Behind(c)) BY DEF NumberedInv
      <3> HIDE CursorFields, HeldNat
      <3> QED BY <2>3, <2>6, <3>2, <3>3, <3>4, <3>5 DEF NumberedInv
    <2>8. Covered(c, k, pub, U) => Covered(c2, k, top, U)
      <3> SUFFICES ASSUME Covered(c, k, pub, U), NEW n \in k.from + 1 .. top
                   PROVE  \/ n \in Ids(k) \cup U
                          \/ n \in Behind(c) + 1 .. c.next_live_ordinal - 1
                          \/ \E i \in DOMAIN q : q[i] = n
        BY <2>3, <2>6 DEF Covered
      <3>1. CASE n = top BY <3>1, <2>1, <2>2a
      <3>2. CASE n # top
        <4>1. n \in k.from + 1 .. pub BY <3>2
        <4> QED BY <4>1, <2>1 DEF Covered
      <3> QED BY <3>1, <3>2
    <2>9. top - Len(q) = pub - Len(c.pending) BY <2>1
    <2>10. ServingInv(c, k, pub, top, U) => ServingInv(c2, k, top, top, U)
      <3>1. ReplayInv(c) => ReplayInv(c2) BY <2>3, <2>6 DEF ReplayInv
      <3> QED BY <2>3, <2>7, <2>8, <2>9, <3>1 DEF ServingInv
    <2>11. EventsInv(c, k, pub, top, U, kept) => EventsInv(c2, k, top, top, U, kept)
      BY <2>3, <2>6, <2>9 DEF EventsInv
    <2> QED BY <2>3, <2>4, <2>5, <2>10, <2>11
  <1> QED BY <1>1, <1>2

\* load_snapshot, with what it reads.
Loading(c, c2, k, k2, pub, top, base, U, gone, kept, high, replay, pc) ==
    /\ c \in Cursors /\ k \in Clients /\ pub \in Nat /\ top \in Nat /\ base \in Nat /\ pub <= top
    /\ gone \in BOOLEAN /\ kept \in BOOLEAN /\ high \in Nat /\ high = IF kept THEN top ELSE 0
    /\ kept => base <= c.floor
    /\ PendingInv(c, pub, U) /\ OpeningInv(c, k, pub, top, base, gone) /\ c.pc = "snapshot"
    /\ ClientInv(k, top, U)
    /\ replay \in Seq(Item) /\ Len(replay) = IF kept /\ top > c.floor THEN top - c.floor ELSE 0
    /\ \A i \in DOMAIN replay : replay[i].id = c.floor + i /\ replay[i].ordinal = c.floor + i
    /\ pc \in {"observe", "drain"} /\ Loads(c, pc, replay, high, c2) /\ Looks(k, kept, k2)

\* The snapshot, read while the log is in memory.
LEMMA SnapshotServes ==
    ASSUME NEW c, NEW c2, NEW k, NEW k2, NEW pub, NEW top, NEW base, NEW U, NEW gone, NEW kept, NEW high, NEW replay, NEW pc,
           Loading(c, c2, k, k2, pub, top, base, U, gone, kept, high, replay, pc)
    PROVE  /\ c2 \in Cursors /\ c2.pc = pc /\ c2.ending = c.ending /\ c2.lifecycle = c.lifecycle
           /\ k2 \in Clients /\ k2.binding = k.binding /\ ClientInv(k2, top, U)
           /\ PendingInv(c2, pub, U)
           /\ ServingInv(c2, k2, pub, top, U)
           /\ k.binding = "sse" => EventsInv(c2, k2, pub, top, U, kept)
  <1>m. /\ c \in Cursors /\ k \in Clients /\ pub \in Nat /\ top \in Nat /\ base \in Nat /\ pub <= top
        /\ gone \in BOOLEAN /\ kept \in BOOLEAN /\ high \in Nat /\ high = IF kept THEN top ELSE 0
        /\ kept => base <= c.floor
        /\ PendingInv(c, pub, U) /\ OpeningInv(c, k, pub, top, base, gone) /\ c.pc = "snapshot"
        /\ ClientInv(k, top, U)
        /\ replay \in Seq(Item) /\ Len(replay) = IF kept /\ top > c.floor THEN top - c.floor ELSE 0
        /\ \A i \in DOMAIN replay : replay[i].id = c.floor + i /\ replay[i].ordinal = c.floor + i
        /\ pc \in {"observe", "drain"} /\ Loads(c, pc, replay, high, c2) /\ Looks(k, kept, k2)
    BY DEF Loading
  <1> USE <1>m
  <1> USE CursorFields, HeldNat
  <1> DEFINE D == IF replay = <<>> THEN c.dedup ELSE {replay[i].id : i \in DOMAIN replay}
  <1>1. Len(replay) \in Nat /\ DOMAIN replay = 1 .. Len(replay) /\ (replay = <<>> <=> Len(replay) = 0)
    OBVIOUS
  <1>2. D \subseteq Nat
    BY <1>1
  <1>2a. replay # <<>> => \A n \in c.floor + 1 .. top : n \in D
    <2> SUFFICES ASSUME replay # <<>>, NEW n \in c.floor + 1 .. top PROVE n \in D OBVIOUS
    <2>1. Len(replay) = top - c.floor BY <1>1
    <2>2. n - c.floor \in DOMAIN replay BY <2>1, <1>1
    <2>3. replay[n - c.floor].id = n
      <3>1. replay[n - c.floor].id = c.floor + (n - c.floor) BY <2>2
      <3>2. c.floor \in Nat /\ n \in Int BY CursorFields
      <3> HIDE <1>m, CursorFields, HeldNat
      <3>3. c.floor + (n - c.floor) = n BY <3>2
      <3> QED BY <3>1, <3>3
    <2> QED BY <2>2, <2>3
  <1>2b. replay # <<>> => \A d \in D : d < high + 1
    BY <1>1
  <1>2c. replay = <<>> => D = c.dedup OBVIOUS
  <1>2d. c2 = [c EXCEPT !.pc = pc, !.replay = replay, !.dedup = D, !.next_live_ordinal = high + 1]
    BY DEF Loads
  <1> HIDE DEF D
  <1>3. c2 \in Cursors /\ c2.pc = pc /\ c2.replay = replay /\ c2.dedup = D
        /\ c2.next_live_ordinal = high + 1
        /\ c2.pending = c.pending /\ c2.receiver = c.receiver /\ c2.ending = c.ending
        /\ c2.lifecycle = c.lifecycle
    <2>1. pc \in Opening \cup Serving /\ high + 1 \in Nat /\ D \in SUBSET Nat BY <1>2 DEF Serving
    <2> HIDE CursorFields, HeldNat
    <2> QED BY <1>2d, <2>1 DEF Cursors
  <1>4. k2 \in Clients /\ k2.got = k.got /\ k2.from = k.from /\ k2.binding = k.binding
        /\ k2.numbered = k.numbered /\ k2.moved = k.moved /\ k2.ahead = k.ahead
        /\ (k2.blind = FALSE <=> k.blind = FALSE /\ kept = TRUE)
    BY DEF Clients, Looks
  <1>5. HeldBy(k2) = HeldBy(k) /\ Ids(k2) = Ids(k) /\ (Guessed(k2) <=> Guessed(k))
        /\ (Plain(k2) => Plain(k) /\ kept = TRUE)
    BY <1>4 DEF HeldBy, Ids, Guessed, Plain
  <1>6. ClientInv(k2, top, U)
    <2>1. NoGap(k, U) => NoGap(k2, U) BY <1>4, <1>5 DEF NoGap
    <2>2. Exact(k) => Exact(k2) BY <1>4 DEF Exact
    <2>3. Reached(k, top) => Reached(k2, top) BY <1>4, <1>5 DEF Reached
    <2> QED BY <2>1, <2>2, <2>3, <1>4, <1>5 DEF ClientInv
  <1>7. PendingInv(c2, pub, U)
    <2>1. c.receiver # FALSE BY DEF PendingInv
    <2> QED BY <1>3, <2>1 DEF PendingInv
  <1>8. Behind(c2) = high - Len(replay)
    <2>1. Behind(c2) = (high + 1) - 1 - Len(replay) BY <1>3 DEF Behind
    <2>2. (high + 1) - 1 = high BY Sums
    <2> QED BY <2>1, <2>2
  <1>8a. replay # <<>> => Behind(c2) = c.floor BY <1>1, <1>8
  <1>9. ReplayInv(c2)
    <2>1. replay # <<>> => Len(replay) < high + 1 BY <1>1
    <2>2. \A i \in DOMAIN replay : replay[i].id = Behind(c2) + i /\ replay[i].ordinal = Behind(c2) + i
      BY <1>1, <1>8a
    <2> HIDE CursorFields, HeldNat
    <2> QED BY <1>3, <2>1, <2>2 DEF ReplayInv
  <1>10. k2.numbered = TRUE /\ top >= 1 BY <1>4 DEF OpeningInv
  <1>11. ASSUME Plain(k2)
         PROVE  /\ k2.ahead = FALSE => Covered(c2, k2, pub, U)
                /\ NumberedInv(c2, k2, pub, top)
                /\ pub - Len(c2.pending) < c2.next_live_ordinal
    <2>1. Plain(k) /\ kept /\ high = top BY <1>5, <1>11
    <2>2. c.after = HeldBy(k) /\ c.floor <= c.after /\ (c.dedup = {} \/ c.after = 0)
      BY <2>1 DEF OpeningInv
    <2>3. c.floor = HeldBy(k) \/ Guessed(k) BY <2>1, <2>2 DEF OpeningInv
    <2>4. c.floor <= pub \/ (base > 0 /\ pub = top) BY <2>1 DEF OpeningInv
    <2>5. \A i \in DOMAIN c.pending : c.floor < c.pending[i] BY <2>1 DEF OpeningInv
    <2>6. ~Guessed(k) => HeldBy(k) <= top BY <2>1, <1>10, <1>4 DEF ClientInv, Reached
    <2>7. replay = <<>> <=> top <= c.floor BY <2>1, <1>1
    <2>8. replay = <<>> => D = {} BY <1>2c, <1>10, <2>2, <2>7
    <2>9. HeldBy(k) = Behind(c2) \/ (Guessed(k) /\ HeldBy(k) > Behind(c2))
      <3>1. CASE replay # <<>> BY <3>1, <1>8a, <2>2, <2>3
      <3>2. CASE replay = <<>>
        <4>1. Behind(c2) = top BY <3>2, <1>1, <1>8, <2>1
        <4> QED BY <4>1, <3>2, <2>2, <2>3, <2>6, <2>7
      <3> QED BY <3>1, <3>2
    <2>10. \A i \in DOMAIN c.pending : c.pending[i] \in D
      <3> SUFFICES ASSUME NEW i \in DOMAIN c.pending PROVE c.pending[i] \in D OBVIOUS
      <3>1. c.pending[i] \in 1 .. pub BY DEF PendingInv
      <3>1a. c.floor < c.pending[i] BY <2>5
      <3>1b. c.floor \in Nat /\ pub \in Nat /\ top \in Nat /\ pub <= top BY <1>m, CursorFields
      <3>2. c.pending[i] \in c.floor + 1 .. top
        <4> HIDE <1>m, CursorFields, HeldNat
        <4> QED BY <3>1, <3>1a, <3>1b
      <3> QED BY <3>2, <2>7, <1>2a
    <2>11. pub < top => top \in D
      <3> SUFFICES ASSUME pub < top PROVE top \in D OBVIOUS
      <3>1. top \in c.floor + 1 .. top BY <2>4
      <3> QED BY <3>1, <2>7, <1>2a
    <2>12. \A d \in D : d < high + 1 BY <1>2b, <2>8
    <2>13. NumberedInv(c2, k2, pub, top)
      <3>1. high + 1 \in 1 .. top + 1 BY <2>1
      <3> HIDE CursorFields, HeldNat
      <3> QED BY <1>3, <1>5, <2>9, <2>10, <2>11, <2>12, <3>1 DEF NumberedInv
    <2>14. ASSUME k2.ahead = FALSE PROVE Covered(c2, k2, pub, U)
      <3> SUFFICES ASSUME NEW n \in k.from + 1 .. pub
                   PROVE  n \in Ids(k) \cup U \/ n \in Behind(c2) + 1 .. high
        <4>0. (high + 1) - 1 = high BY Sums
        <4>1. c2.next_live_ordinal - 1 = high BY <4>0, <1>3
        <4> QED BY <4>1, <1>4, <1>5 DEF Covered
      <3>1. HeldBy(k) = Behind(c2) BY <2>9, <2>14, <1>4 DEF Guessed
      <3>2. CASE n <= HeldBy(k)
        <4>1. n \in k.from + 1 .. HeldBy(k) BY <3>2
        <4> QED BY <4>1, <2>1, <2>14, <1>4, <1>10, HeldCovered
      <3>3. CASE n > HeldBy(k) BY <3>3, <3>1, <2>1
      <3> QED BY <3>2, <3>3
    <2>15. pub - Len(c2.pending) < c2.next_live_ordinal BY <1>3, <2>1
    <2> QED BY <2>13, <2>14, <2>15
  <1>12. ServingInv(c2, k2, pub, top, U) BY <1>9, <1>10, <1>11 DEF ServingInv
  <1>13. ASSUME k.binding = "sse" PROVE EventsInv(c2, k2, pub, top, U, kept)
    <2>1. c.after = HeldBy(k) /\ c.floor <= c.after /\ c.dedup = {} BY <1>13 DEF OpeningInv
    <2>2. \A d \in D : d < high + 1 BY <1>2b, <1>2c, <2>1
    <2>3. HeldBy(k) >= Behind(c2)
      <3>1. CASE replay # <<>> BY <3>1, <1>8a, <2>1
      <3>2. CASE replay = <<>> BY <3>2, <1>1, <1>8, <2>1
      <3> QED BY <3>1, <3>2
    <2>4. kept => pub - Len(c.pending) < high + 1 OBVIOUS
    <2>5. high + 1 >= 1 OBVIOUS
    <2> HIDE CursorFields, HeldNat
    <2> QED BY <1>3, <1>5, <1>10, <2>2, <2>3, <2>4, <2>5 DEF EventsInv
  <1> QED BY <1>3, <1>4, <1>6, <1>7, <1>12, <1>13

-----------------------------------------------------------------------------
\* Deliver, for a client k.
Takes(k, item, k2) ==
    k2 = IF k.binding = "sse" /\ item.ordinal <= HeldBy(k) THEN k
         ELSE [k EXCEPT !.got = Append(@, item)]

\* Head and Tail of a sequence, by index.
LEMMA TailFacts ==
    ASSUME NEW S, NEW q \in Seq(S), q # <<>>
    PROVE  /\ Tail(q) \in Seq(S) /\ Len(Tail(q)) = Len(q) - 1 /\ Head(q) = q[1] /\ 1 \in DOMAIN q
           /\ DOMAIN Tail(q) = 1 .. Len(q) - 1 /\ Len(q) \in Nat /\ Len(q) >= 1
           /\ \A i \in DOMAIN Tail(q) : i + 1 \in DOMAIN q /\ Tail(q)[i] = q[i + 1]
           /\ \A i \in DOMAIN q : i = 1 \/ (i - 1 \in DOMAIN Tail(q) /\ Tail(q)[i - 1] = q[i])
           /\ \A i \in DOMAIN q : q[i] \in S
  <1>1. Len(q) \in Nat /\ Len(q) >= 1 /\ DOMAIN q = 1 .. Len(q) OBVIOUS
  <1>2. Tail(q) \in Seq(S) /\ Len(Tail(q)) = Len(q) - 1 /\ Head(q) = q[1] OBVIOUS
  <1>3. DOMAIN Tail(q) = 1 .. Len(q) - 1 BY <1>2
  <1>4. ASSUME NEW i \in DOMAIN Tail(q) PROVE i + 1 \in DOMAIN q /\ Tail(q)[i] = q[i + 1]
    BY <1>1, <1>3
  <1>5. ASSUME NEW i \in DOMAIN q, i # 1
        PROVE  i - 1 \in DOMAIN Tail(q) /\ Tail(q)[i - 1] = q[i]
    <2>1. i - 1 \in DOMAIN Tail(q) BY <1>1, <1>3, <1>5
    <2>2. (i - 1) + 1 = i BY <1>1
    <2> QED BY <2>1, <2>2, <1>4
  <1> QED BY <1>1, <1>2, <1>3, <1>4, <1>5

\* A connection that delivers.
Served(c, k, pub, top, U, kept) ==
    /\ c \in Cursors /\ k \in Clients /\ pub \in Nat /\ top \in Nat /\ kept \in BOOLEAN /\ pub <= top
    /\ ClientInv(k, top, U) /\ PendingInv(c, pub, U) /\ ServingInv(c, k, pub, top, U) /\ c.pc \in Serving
    /\ k.binding = "sse" => EventsInv(c, k, pub, top, U, kept)

\* An envelope of the replay.
LEMMA ReplayServes ==
    ASSUME NEW c, NEW c2, NEW k, NEW k2, NEW pub, NEW top, NEW U, NEW kept,
           Served(c, k, pub, top, U, kept),
           k.binding # "none",
           c.replay # <<>>,
           Takes(k, Head(c.replay), k2),
           Replays(c, c2)
    PROVE  /\ c2 \in Cursors /\ c2.pc = c.pc /\ c2.ending = c.ending /\ c2.lifecycle = c.lifecycle
           /\ k2 \in Clients /\ k2.binding = k.binding /\ ClientInv(k2, top, U)
           /\ PendingInv(c2, pub, U)
           /\ ServingInv(c2, k2, pub, top, U)
           /\ k.binding = "sse" => EventsInv(c2, k2, pub, top, U, kept)
  <1>m. /\ c \in Cursors /\ k \in Clients /\ pub \in Nat /\ top \in Nat /\ kept \in BOOLEAN /\ pub <= top
        /\ ClientInv(k, top, U) /\ PendingInv(c, pub, U) /\ ServingInv(c, k, pub, top, U) /\ c.pc \in Serving
        /\ k.binding = "sse" => EventsInv(c, k, pub, top, U, kept)
    BY DEF Served
  <1> USE <1>m
  <1> USE CursorFields, HeldNat
  <1> DEFINE t == Tail(c.replay)
             item == Head(c.replay)
             s == Behind(c)
  <1>1. /\ t \in Seq(Item) /\ Len(t) = Len(c.replay) - 1 /\ item = c.replay[1]
        /\ 1 \in DOMAIN c.replay /\ Len(c.replay) >= 1 /\ item \in Item
        /\ \A i \in DOMAIN t : i + 1 \in DOMAIN c.replay /\ t[i] = c.replay[i + 1]
        /\ DOMAIN t = 1 .. Len(c.replay) - 1
    BY TailFacts
  <1>2. ReplayInv(c) BY DEF ServingInv
  <1>3. item.id = s + 1 /\ item.ordinal = s + 1 /\ s \in Nat /\ s + 1 <= c.next_live_ordinal - 1
    <2>1. item.id = s + 1 /\ item.ordinal = s + 1 BY <1>1, <1>2 DEF ReplayInv
    <2>2. Len(c.replay) < c.next_live_ordinal BY <1>2 DEF ReplayInv
    <2>3. s = c.next_live_ordinal - 1 - Len(c.replay) BY DEF Behind
    <2>4. c.next_live_ordinal \in Nat /\ Len(c.replay) \in Nat BY CursorFields
    <2> HIDE DEF s
    <2>5. s \in Nat /\ s + 1 <= c.next_live_ordinal - 1 BY <1>1, <2>2, <2>3, <2>4, SMTT(30)
    <2> QED BY <2>1, <2>5
  <1> HIDE DEF t, item
  <1>4. c2 \in Cursors /\ c2.pc = c.pc /\ c2.replay = t /\ c2.dedup = c.dedup
        /\ c2.next_live_ordinal = c.next_live_ordinal
        /\ c2.pending = c.pending /\ c2.receiver = c.receiver /\ c2.ending = c.ending
        /\ c2.lifecycle = c.lifecycle
    BY <1>1 DEF Cursors, t, Replays
  <1>5. Behind(c2) = s + 1
    <2>1. c.next_live_ordinal \in Nat /\ Len(c.replay) \in Nat BY CursorFields
    <2>2. s = c.next_live_ordinal - 1 - Len(c.replay) BY DEF Behind
    <2>3. Behind(c2) = c.next_live_ordinal - 1 - (Len(c.replay) - 1) BY <1>1, <1>4 DEF Behind
    <2> HIDE CursorFields, HeldNat
    <2> HIDE DEF s
    <2> QED BY <2>1, <2>2, <2>3
  <1> HIDE DEF s
  <1>6. s = Behind(c) /\ s \in Nat BY <1>3 DEF s
  <1>7. PendingInv(c2, pub, U) BY <1>4 DEF PendingInv
  <1>8. ReplayInv(c2)
    <2>1. ASSUME NEW i \in DOMAIN t PROVE t[i].id = s + 1 + i /\ t[i].ordinal = s + 1 + i
      <3>1. c.replay[i + 1].id = s + (i + 1) /\ c.replay[i + 1].ordinal = s + (i + 1)
        BY <1>1, <1>2, <1>6 DEF ReplayInv
      <3>2. i \in Nat BY <1>1
      <3> QED BY <3>1, <3>2, <1>1, <1>6, SMTT(30)
    <2>2. Len(t) < c.next_live_ordinal
      BY <1>1, <1>2 DEF ReplayInv
    <2> QED BY <1>4, <1>5, <2>1, <2>2 DEF ReplayInv
  <1>9. Plain(k) => k.numbered = TRUE
    <2>1. k.numbered \in BOOLEAN BY DEF Clients
    <2> QED BY <2>1 DEF ServingInv
  <1>10. Plain(k) => NumberedInv(c, k, pub, top) /\ (k.ahead = FALSE => Covered(c, k, pub, U))
                     /\ (U = {} => pub - Len(c.pending) < c.next_live_ordinal)
    BY <1>9 DEF ServingInv
  <1>11. Plain(k) => c.next_live_ordinal <= top + 1 BY <1>10 DEF NumberedInv
  <1>12. CASE k.binding = "sse" /\ item.ordinal <= HeldBy(k)
    <2>1. k2 = k BY <1>12 DEF Takes, item
    <2>2. ASSUME Plain(k) PROVE NumberedInv(c2, k, pub, top) /\ k.ahead # FALSE
      <3>1. Guessed(k) /\ HeldBy(k) > s BY <1>3, <1>6, <1>10, <1>12, <2>2 DEF NumberedInv
      <3>2. HeldBy(k) = s + 1 \/ HeldBy(k) > s + 1 BY <3>1, <1>6
      <3> QED BY <3>1, <3>2, <1>4, <1>5, <1>10, <2>2 DEF NumberedInv, Guessed
    <2>3. ServingInv(c2, k, pub, top, U) BY <1>4, <1>8, <1>9, <1>10, <2>2 DEF ServingInv
    <2>4. HeldBy(k) >= s + 1 BY <1>3, <1>12
    <2>5. EventsInv(c2, k, pub, top, U, kept) BY <1>4, <1>5, <1>12, <2>4 DEF EventsInv
    <2> QED BY <1>4, <1>7, <2>1, <2>3, <2>5
  <1>13. CASE ~(k.binding = "sse" /\ item.ordinal <= HeldBy(k))
    <2>1. Took(k, item, k2) BY <1>13 DEF Takes, Took, item
    <2>2. ASSUME Plain(k) PROVE HeldBy(k) = s
      <3>1. k.binding = "sse" \/ k.ahead = FALSE BY DEF ClientInv
      <3> QED BY <3>1, <2>2, <1>3, <1>6, <1>10, <1>13 DEF NumberedInv, Guessed
    <2>3. Plain(k) /\ k.ahead = FALSE => \A n \in k.from + 1 .. item.id - 1 : n \in Ids(k) \cup U
      <3> SUFFICES ASSUME Plain(k), k.ahead = FALSE, NEW n \in k.from + 1 .. item.id - 1
                   PROVE  n \in Ids(k) \cup U
        OBVIOUS
      <3>1. n \in k.from + 1 .. HeldBy(k) BY <2>2, <1>3, <1>6
      <3> QED BY <3>1, <1>9, HeldCovered
    <2>4. Plain(k) /\ U = {} => s = k.from + Len(k.got)
      <3> SUFFICES ASSUME Plain(k), U = {}, k.binding = "sse", k.got # <<>>
                   PROVE  HeldBy(k) = k.from + Len(k.got)
        BY <2>2 DEF HeldBy
      <3>1. Exact(k) BY DEF ClientInv
      <3>2. Len(k.got) \in DOMAIN k.got OBVIOUS
      <3> QED BY <3>1, <3>2, <1>9 DEF Exact, HeldBy
    <2>5. Plain(k) /\ k.binding # "sse" => s = k.from + Len(k.got) BY <2>2 DEF HeldBy
    <2>6. Plain(k) => item.ordinal <= top BY <1>3, <1>6, <1>11
    <2>7. /\ Plain(k) /\ U = {} => /\ item.id = k.from + Len(k.got) + 1
                                   /\ k.numbered = TRUE => item.ordinal = item.id
          /\ Plain(k) /\ k.numbered = TRUE =>
               /\ item.ordinal <= item.id /\ item.ordinal <= top
               /\ k.binding # "sse" => item.ordinal = k.from + Len(k.got) + 1
      BY <1>3, <1>6, <2>4, <2>5, <2>6
    <2>8. /\ k2 \in Clients /\ ClientInv(k2, top, U)
          /\ Ids(k2) = Ids(k) \cup {item.id}
          /\ k2.got # <<>> /\ Len(k2.got) = Len(k.got) + 1
          /\ HeldBy(k2) = IF k.binding = "sse" THEN item.ordinal ELSE k.from + Len(k.got) + 1
          /\ \A f \in {"binding", "numbered", "blind", "moved", "ahead", "from"} : k2[f] = k[f]
      <3>1. item \in Item /\ k.binding # "none" BY <1>1
      <3> HIDE CursorFields, HeldNat
      <3>2. Fits(k, item, top, U) BY <2>3, <2>7 DEF Fits
      <3> QED BY <3>1, <3>2, <2>1, ClientTakes
    <2>9. /\ k2.binding = k.binding /\ k2.numbered = k.numbered /\ (Plain(k2) <=> Plain(k))
          /\ k2.ahead = k.ahead /\ k2.from = k.from
      BY <2>8 DEF Plain
    <2>10. ASSUME Plain(k)
           PROVE  NumberedInv(c2, k2, pub, top) /\ (k.ahead = FALSE => Covered(c2, k2, pub, U))
      <3>1. HeldBy(k2) = s + 1 BY <2>5, <2>8, <2>10, <1>3, <1>6
      <3>2. NumberedInv(c2, k2, pub, top) BY <3>1, <1>4, <1>5, <1>10, <2>10 DEF NumberedInv
      <3>3. ASSUME k.ahead = FALSE PROVE Covered(c2, k2, pub, U)
        <4> SUFFICES ASSUME NEW n \in k.from + 1 .. pub
                     PROVE  \/ n \in Ids(k2) \cup U
                            \/ n \in s + 2 .. c.next_live_ordinal - 1
                            \/ \E i \in DOMAIN c.pending : c.pending[i] = n
          <5>1. s + 1 + 1 = s + 2 BY <1>6
          <5> QED BY <5>1, <1>4, <1>5, <2>9 DEF Covered
        <4>1. \/ n \in Ids(k) \cup U \/ n \in s + 1 .. c.next_live_ordinal - 1
              \/ \E i \in DOMAIN c.pending : c.pending[i] = n
          BY <1>6, <1>10, <2>10, <3>3 DEF Covered
        <4>2. n \in s + 1 .. c.next_live_ordinal - 1 => n = s + 1 \/ n \in s + 2 .. c.next_live_ordinal - 1
          BY <1>6
        <4> QED BY <4>1, <4>2, <2>8, <1>3, <1>6
      <3> QED BY <3>2, <3>3
    <2>11. ServingInv(c2, k2, pub, top, U)
      BY <1>4, <1>8, <1>9, <1>10, <2>9, <2>10 DEF ServingInv
    <2>12. ASSUME k.binding = "sse" PROVE EventsInv(c2, k2, pub, top, U, kept)
      <3>1. HeldBy(k2) = s + 1 BY <2>8, <2>12, <1>3, <1>6
      <3> QED BY <3>1, <1>4, <1>5, <1>6, <2>12 DEF EventsInv
    <2> QED BY <1>4, <1>7, <2>8, <2>9, <2>11, <2>12
  <1> QED BY <1>12, <1>13

\* An envelope waits on the receiver and the replay is over.
Ready(c) == c.replay = <<>> /\ c.pending # <<>> /\ c.pc \in Serving

\* The receiver hands on an envelope of the replay a second time.
LEMMA SkipServes ==
    ASSUME NEW c, NEW c2, NEW k, NEW pub, NEW top, NEW U, NEW kept,
           Served(c, k, pub, top, U, kept),
           Ready(c),
           Head(c.pending) \in c.dedup,
           Skips(c, c2)
    PROVE  /\ c2 \in Cursors /\ c2.pc = c.pc /\ c2.ending = c.ending /\ c2.lifecycle = c.lifecycle
           /\ PendingInv(c2, pub, U)
           /\ ServingInv(c2, k, pub, top, U)
           /\ k.binding = "sse" => EventsInv(c2, k, pub, top, U, kept)
  <1>m. /\ c \in Cursors /\ k \in Clients /\ pub \in Nat /\ top \in Nat /\ kept \in BOOLEAN /\ pub <= top
        /\ ClientInv(k, top, U) /\ PendingInv(c, pub, U) /\ ServingInv(c, k, pub, top, U) /\ c.pc \in Serving
        /\ k.binding = "sse" => EventsInv(c, k, pub, top, U, kept)
    BY DEF Served
  <1> USE <1>m
  <1>0. /\ c.next_live_ordinal \in Nat /\ c.pending \in Seq(Nat) /\ c.replay \in Seq(Item)
        /\ c.dedup \subseteq Nat /\ Len(c.pending) \in Nat /\ DOMAIN c.pending = 1 .. Len(c.pending)
        /\ \A i \in DOMAIN c.pending : c.pending[i] \in Nat
        /\ Behind(c) \in Int /\ HeldBy(k) \in Nat /\ k.from \in Nat /\ k.got \in Seq(Item)
        /\ Len(k.got) \in Nat
    BY CursorFields, HeldNat
  <1> DEFINE q == Tail(c.pending)
             p == Head(c.pending)
             D == c.dedup \ {p}
  <1>1. /\ q \in Seq(Nat) /\ Len(q) = Len(c.pending) - 1 /\ p = c.pending[1] /\ p \in Nat
        /\ 1 \in DOMAIN c.pending /\ Len(c.pending) >= 1 /\ DOMAIN q = 1 .. Len(c.pending) - 1
        /\ \A i \in DOMAIN q : i + 1 \in DOMAIN c.pending /\ q[i] = c.pending[i + 1]
        /\ \A i \in DOMAIN c.pending : i = 1 \/ (i - 1 \in DOMAIN q /\ q[i - 1] = c.pending[i])
    BY <1>0, TailFacts DEF Ready
  <1>2. D \subseteq c.dedup /\ D \in SUBSET Nat BY <1>0
  <1>3a. \A x \in c.dedup : x # p => x \in D BY <1>0
  <1> HIDE DEF q, p, D
  <1>4. c2 \in Cursors /\ c2.pc = c.pc /\ c2.replay = c.replay /\ c2.dedup = D
        /\ c2.next_live_ordinal = c.next_live_ordinal
        /\ c2.pending = q /\ c2.receiver = c.receiver /\ c2.ending = c.ending
        /\ c2.lifecycle = c.lifecycle
    <2>1. c2 = [c EXCEPT !.pending = q, !.dedup = D] BY <1>0 DEF q, p, D, Skips
    <2> QED BY <1>0, <1>1, <1>2, <2>1 DEF Cursors
  <1>5. Behind(c2) = Behind(c) BY <1>0, <1>4 DEF Behind
  <1>6. Behind(c) = c.next_live_ordinal - 1 BY <1>0 DEF Behind, Ready
  <1>7. \A i \in DOMAIN q : p < q[i]
    <2> SUFFICES ASSUME NEW i \in DOMAIN q PROVE p < q[i] OBVIOUS
    <2>1. i + 1 \in DOMAIN c.pending /\ 1 < i + 1 BY <1>0, <1>1
    <2> QED BY <1>0, <2>1, <1>1 DEF PendingInv
  <1>8. PendingInv(c2, pub, U)
    <2>1. c.receiver # FALSE BY DEF PendingInv, Ready, Serving
    <2>2. \A i \in DOMAIN q : q[i] \in 1 .. pub BY <1>0, <1>1 DEF PendingInv
    <2>3. \A i, j \in DOMAIN q : i < j => q[i] < q[j]
      <3> SUFFICES ASSUME NEW i \in DOMAIN q, NEW j \in DOMAIN q, i < j PROVE q[i] < q[j] OBVIOUS
      <3>1. i + 1 \in DOMAIN c.pending /\ j + 1 \in DOMAIN c.pending /\ i + 1 < j + 1 BY <1>0, <1>1
      <3> QED BY <1>0, <3>1, <1>1 DEF PendingInv
    <2>4. ASSUME U = {}, NEW i \in DOMAIN q PROVE q[i] = pub - Len(q) + i
      <3>1. c.pending[i + 1] = pub - Len(c.pending) + (i + 1) BY <1>0, <1>1, <2>4 DEF PendingInv
      <3>2. i \in Nat /\ Len(c.pending) \in Nat BY <1>0, <1>1
      <3>3. PICK n \in Nat : n = Len(c.pending) BY <3>2
      <3>4. q[i] = pub - n + (i + 1) /\ Len(q) = n - 1 BY <1>0, <3>1, <3>3, <1>1
      <3>2a. i \in Nat /\ pub \in Nat BY <3>2
      <3> HIDE <1>m
      <3>5. pub - n + (i + 1) = pub - (n - 1) + i BY <3>2a
      <3> QED BY <3>4, <3>5
    <2> QED BY <1>0, <1>4, <2>1, <2>2, <2>3, <2>4 DEF PendingInv
  <1>9. ReplayInv(c2) BY <1>0, <1>4, <1>5 DEF ReplayInv, ServingInv
  <1>10. Plain(k) => k.numbered = TRUE
    <2>1. k.numbered \in BOOLEAN BY <1>0 DEF Clients
    <2> QED BY <1>0, <2>1 DEF ServingInv
  <1>11. Plain(k) => /\ NumberedInv(c, k, pub, top) /\ (k.ahead = FALSE => Covered(c, k, pub, U))
                     /\ U = {} => pub - Len(c.pending) < c.next_live_ordinal
    BY <1>0, <1>10 DEF ServingInv
  <1>12. U = {} => p = pub - Len(c.pending) + 1 BY <1>0, <1>1 DEF PendingInv
  <1>13. p \in c.dedup /\ p \in Nat BY <1>0, <1>1 DEF p
  <1>14. ASSUME U = {}, p < c.next_live_ordinal PROVE pub - Len(q) < c.next_live_ordinal
    <2>1. Len(c.pending) \in Nat /\ c.next_live_ordinal \in Nat BY CursorFields
    <2>2. PICK n \in Nat : n = Len(c.pending) BY <2>1
    <2>3. p = pub - n + 1 /\ Len(q) = n - 1 BY <1>0, <2>2, <1>1, <1>12, <1>14
    <2>4. pub - (n - 1) = pub - n + 1 BY <2>2
    <2>5. pub - Len(q) = p BY <1>0, <2>3, <2>4
    <2> QED BY <1>0, <2>5, <1>14
  <1>15. ASSUME Plain(k)
         PROVE  /\ k.ahead = FALSE => Covered(c2, k, pub, U)
                /\ NumberedInv(c2, k, pub, top)
                /\ U = {} => pub - Len(c2.pending) < c2.next_live_ordinal
    <2>1. p < c.next_live_ordinal BY <1>0, <1>11, <1>13, <1>15 DEF NumberedInv
    <2>2. \A i \in DOMAIN q : q[i] \in D \/ q[i] >= c.next_live_ordinal
      <3> SUFFICES ASSUME NEW i \in DOMAIN q PROVE q[i] \in D \/ q[i] >= c.next_live_ordinal
        OBVIOUS
      <3>1. q[i] \in c.dedup \/ q[i] >= c.next_live_ordinal BY <1>0, <1>1, <1>11, <1>15 DEF NumberedInv
      <3>2. q[i] # p
        <4>1. p < q[i] BY <1>7
        <4>2. p \in Nat /\ q[i] \in Nat BY <1>1
        <4> HIDE <1>m
        <4> QED BY <4>1, <4>2
      <3> QED BY <1>0, <3>1, <3>2, <1>3a
    <2>3. pub < top => top \in D \/ top >= c.next_live_ordinal
      <3>1. p \in 1 .. pub BY <1>0, <1>1 DEF PendingInv
      <3>2. pub < top => top # p BY <1>0, <3>1
      <3> QED BY <1>0, <3>2, <1>3a, <1>11, <1>15 DEF NumberedInv
    <2>4. NumberedInv(c2, k, pub, top)
      <3>1. /\ c.next_live_ordinal \in 1 .. top + 1
            /\ HeldBy(k) = Behind(c) \/ (Guessed(k) /\ HeldBy(k) > Behind(c))
            /\ \A d \in c.dedup : d < c.next_live_ordinal
        BY <1>0, <1>11, <1>15 DEF NumberedInv
      <3> QED BY <1>0, <3>1, <1>2, <1>4, <1>5, <2>2, <2>3 DEF NumberedInv
    <2>5. ASSUME k.ahead = FALSE PROVE Covered(c2, k, pub, U)
      <3> SUFFICES ASSUME NEW n \in k.from + 1 .. pub
                   PROVE  n \in Ids(k) \cup U \/ \E i \in DOMAIN q : q[i] = n
        BY <1>0, <1>4 DEF Covered
      <3>1. HeldBy(k) = c.next_live_ordinal - 1
        BY <1>0, <1>6, <1>11, <1>15, <2>5 DEF NumberedInv, Guessed
      <3>2. \/ n \in Ids(k) \cup U \/ n \in Behind(c) + 1 .. c.next_live_ordinal - 1
            \/ \E i \in DOMAIN c.pending : c.pending[i] = n
        BY <1>0, <1>11, <1>15, <2>5 DEF Covered
      <3>3. ~(n \in Behind(c) + 1 .. c.next_live_ordinal - 1) BY <1>0, <1>6
      <3>4. CASE n = p
        <4>1. n \in k.from + 1 .. HeldBy(k) BY <1>0, <3>1, <3>4, <2>1, <1>13
        <4> QED BY <1>0, <4>1, <1>10, <1>15, <2>5, HeldCovered
      <3>5. CASE n # p BY <1>0, <3>2, <3>3, <3>5, <1>1
      <3> QED BY <3>4, <3>5
    <2>6. U = {} => pub - Len(c2.pending) < c2.next_live_ordinal BY <1>0, <1>4, <1>14, <2>1
    <2> QED BY <1>0, <2>4, <2>5, <2>6
  <1>16. ServingInv(c2, k, pub, top, U) BY <1>0, <1>9, <1>10, <1>15 DEF ServingInv
  <1>17. ASSUME k.binding = "sse" PROVE EventsInv(c2, k, pub, top, U, kept)
    <2>1. p < c.next_live_ordinal BY <1>0, <1>13, <1>17 DEF EventsInv
    <2>2. kept /\ U = {} => pub - Len(q) < c.next_live_ordinal BY <1>0, <1>14, <2>1
    <2>3. top >= 1 /\ HeldBy(k) >= Behind(c) /\ c.next_live_ordinal >= 1
          /\ \A d \in c.dedup : d < c.next_live_ordinal
      BY <1>0, <1>17 DEF EventsInv
    <2> QED BY <1>0, <2>2, <2>3, <1>2, <1>4, <1>5 DEF EventsInv
  <1> QED BY <1>0, <1>4, <1>8, <1>16, <1>17

\* The cursor behind a live delivery.
Lives(c, c2) ==
    c2 = [c EXCEPT !.pending = Tail(@), !.dedup = {},
                   !.next_live_ordinal = IF @ = 0 THEN 0 ELSE @ + 1]

\* The filter lets the next envelope through.
New(c) == Head(c.pending) \notin c.dedup

\* What the client gets then.
LiveItem(c) == [ordinal |-> c.next_live_ordinal, id |-> Head(c.pending)]

\* The receiver hands on another envelope.
LEMMA LiveServes ==
    ASSUME NEW c, NEW c2, NEW k, NEW k2, NEW pub, NEW top, NEW U, NEW kept,
           Served(c, k, pub, top, U, kept),
           Ready(c),
           New(c),
           Takes(k, LiveItem(c), k2),
           Lives(c, c2)
    PROVE  /\ c2 \in Cursors /\ c2.pc = c.pc /\ c2.ending = c.ending /\ c2.lifecycle = c.lifecycle
           /\ k2 \in Clients /\ k2.binding = k.binding /\ ClientInv(k2, top, U)
           /\ PendingInv(c2, pub, U)
           /\ ServingInv(c2, k2, pub, top, U)
           /\ k.binding = "sse" => EventsInv(c2, k2, pub, top, U, kept)
  <1>m. /\ c \in Cursors /\ k \in Clients /\ pub \in Nat /\ top \in Nat /\ kept \in BOOLEAN /\ pub <= top
        /\ ClientInv(k, top, U) /\ PendingInv(c, pub, U) /\ ServingInv(c, k, pub, top, U) /\ c.pc \in Serving
        /\ k.binding = "sse" => EventsInv(c, k, pub, top, U, kept)
    BY DEF Served
  <1> USE <1>m
  <1>0. /\ c.next_live_ordinal \in Nat /\ c.pending \in Seq(Nat) /\ c.replay \in Seq(Item)
        /\ c.dedup \subseteq Nat /\ Len(c.pending) \in Nat /\ DOMAIN c.pending = 1 .. Len(c.pending)
        /\ \A i \in DOMAIN c.pending : c.pending[i] \in Nat
        /\ Behind(c) \in Int /\ HeldBy(k) \in Nat /\ k.from \in Nat /\ k.got \in Seq(Item)
        /\ Len(k.got) \in Nat
    BY CursorFields, HeldNat
  <1> DEFINE q == Tail(c.pending)
             p == Head(c.pending)
             o == c.next_live_ordinal
             o2 == IF o = 0 THEN 0 ELSE o + 1
             item == LiveItem(c)
  <1>1. /\ q \in Seq(Nat) /\ Len(q) = Len(c.pending) - 1 /\ p = c.pending[1] /\ p \in Nat
        /\ 1 \in DOMAIN c.pending /\ Len(c.pending) >= 1 /\ DOMAIN q = 1 .. Len(c.pending) - 1
        /\ \A i \in DOMAIN q : i + 1 \in DOMAIN c.pending /\ q[i] = c.pending[i + 1]
        /\ \A i \in DOMAIN c.pending : i = 1 \/ (i - 1 \in DOMAIN q /\ q[i - 1] = c.pending[i])
    <2>1. c.pending \in Seq(Nat) /\ c.pending # <<>>
      BY <1>0 DEF Ready
    <2>2. /\ q \in Seq(Nat) /\ Len(q) = Len(c.pending) - 1 /\ p = c.pending[1]
          /\ 1 \in DOMAIN c.pending /\ Len(c.pending) >= 1 /\ DOMAIN q = 1 .. Len(c.pending) - 1
          /\ \A i \in DOMAIN q : i + 1 \in DOMAIN c.pending /\ q[i] = c.pending[i + 1]
          /\ \A i \in DOMAIN c.pending : i = 1 \/ (i - 1 \in DOMAIN q /\ q[i - 1] = c.pending[i])
          /\ \A i \in DOMAIN c.pending : c.pending[i] \in Nat
      BY ONLY <2>1, TailFacts, Zenon
    <2> QED BY ONLY <2>2, Zenon
  <1>2. item \in Item /\ item.ordinal = o /\ item.id = p /\ o \in Nat /\ o2 \in Nat BY <1>0, <1>1 DEF Item, LiveItem
  <1>3. (o >= 1 => o2 = o + 1) /\ (o = 0 => o2 = 0) BY <1>0, <1>2
  <1>3a. Takes(k, item, k2) /\ p \notin c.dedup BY DEF New
  <1> HIDE DEF q, p, o, o2, item
  <1>4. c2 \in Cursors /\ c2.pc = c.pc /\ c2.replay = c.replay /\ c2.dedup = {}
        /\ c2.next_live_ordinal = o2
        /\ c2.pending = q /\ c2.receiver = c.receiver /\ c2.ending = c.ending
        /\ c2.lifecycle = c.lifecycle
    <2>1. c2 = [c EXCEPT !.pending = q, !.dedup = {}, !.next_live_ordinal = o2]
      BY <1>0 DEF q, o, o2, Lives
    <2> QED BY <1>0, <1>1, <1>2, <2>1 DEF Cursors
  <1>5. Behind(c2) = o2 - 1 /\ Behind(c) = o - 1 /\ o = c.next_live_ordinal
    BY <1>0, <1>2, <1>4 DEF Behind, o, Ready
  <1>6. p \in 1 .. pub BY <1>0, <1>1 DEF PendingInv
  <1>7. \A i \in DOMAIN q : p < q[i]
    <2> SUFFICES ASSUME NEW i \in DOMAIN q PROVE p < q[i] OBVIOUS
    <2>1. i + 1 \in DOMAIN c.pending /\ 1 < i + 1 BY <1>0, <1>1
    <2> QED BY <1>0, <2>1, <1>1 DEF PendingInv
  <1>8. PendingInv(c2, pub, U)
    <2>1. c.receiver # FALSE BY DEF PendingInv, Ready, Serving
    <2>2. \A i \in DOMAIN q : q[i] \in 1 .. pub BY <1>0, <1>1 DEF PendingInv
    <2>3. \A i, j \in DOMAIN q : i < j => q[i] < q[j]
      <3> SUFFICES ASSUME NEW i \in DOMAIN q, NEW j \in DOMAIN q, i < j PROVE q[i] < q[j] OBVIOUS
      <3>1. i + 1 \in DOMAIN c.pending /\ j + 1 \in DOMAIN c.pending /\ i + 1 < j + 1 BY <1>0, <1>1
      <3> QED BY <1>0, <3>1, <1>1 DEF PendingInv
    <2>4. ASSUME U = {}, NEW i \in DOMAIN q PROVE q[i] = pub - Len(q) + i
      <3>1. c.pending[i + 1] = pub - Len(c.pending) + (i + 1) BY <1>0, <1>1, <2>4 DEF PendingInv
      <3>2. i \in Nat /\ Len(c.pending) \in Nat BY <1>0, <1>1
      <3>3. PICK n \in Nat : n = Len(c.pending) BY <3>2
      <3>4. q[i] = pub - n + (i + 1) /\ Len(q) = n - 1 BY <1>0, <3>1, <3>3, <1>1
      <3>2a. i \in Nat BY <3>2
      <3>5. pub - n + (i + 1) = pub - (n - 1) + i BY <3>2a
      <3> QED BY <3>4, <3>5
    <2> QED BY <1>0, <1>4, <2>1, <2>2, <2>3, <2>4 DEF PendingInv
  <1>9. ReplayInv(c2)
    <2>1. c2.replay = <<>> /\ DOMAIN c2.replay = {} BY <1>4 DEF Ready
    <2> QED BY <1>0, <2>1 DEF ReplayInv
  <1>10. k.numbered \in BOOLEAN BY <1>0 DEF Clients
  <1>11. Plain(k) /\ k.ahead = FALSE => Covered(c, k, pub, U) BY <1>0 DEF ServingInv
  <1>12. ASSUME Plain(k), k.numbered = TRUE
         PROVE  /\ NumberedInv(c, k, pub, top) /\ (U = {} => pub - Len(c.pending) < o)
                /\ p >= o /\ o >= 1 /\ o <= top
    <2>1. NumberedInv(c, k, pub, top) /\ (U = {} => pub - Len(c.pending) < o)
      BY <1>0, <1>5, <1>12 DEF ServingInv
    <2>2. p >= o /\ o >= 1
      <3>1. 1 \in DOMAIN c.pending /\ p = c.pending[1] /\ p \notin c.dedup /\ o = c.next_live_ordinal
        BY <1>1, <1>3a, <1>5
      <3>2. c.next_live_ordinal \in 1 .. top + 1
            /\ \A i \in DOMAIN c.pending : c.pending[i] \in c.dedup \/ c.pending[i] >= c.next_live_ordinal
        BY <2>1 DEF NumberedInv
      <3> QED BY <3>1, <3>2
    <2> QED BY <1>0, <2>1, <2>2, <1>2, <1>6
  <1>13. ASSUME U = {} PROVE p = pub - Len(q)
    <2>1. p = pub - Len(c.pending) + 1 BY <1>0, <1>1, <1>13 DEF PendingInv
    <2>2. PICK n \in Nat : n = Len(c.pending) BY CursorFields
    <2>3. pub - (n - 1) = pub - n + 1 BY <2>2
    <2> QED BY <1>0, <1>1, <2>1, <2>2, <2>3
  <1>13a. ASSUME U = {}, Plain(k), k.numbered = TRUE PROVE p = o
    <2>1. PICK n \in Nat : n = Len(c.pending) BY CursorFields
    <2>2. p = pub - n + 1 /\ pub - n < o BY <1>0, <2>1, <1>1, <1>12, <1>13a DEF PendingInv
    <2>3. p >= o /\ p \in Nat /\ o \in Nat BY <1>1, <1>2, <1>12, <1>13a
    <2> QED BY <2>2, <2>3
  <1>14. ASSUME Plain(k), k.numbered = TRUE
         PROVE  /\ o2 = o + 1 /\ o2 \in 1 .. top + 1
                /\ \A i \in DOMAIN q : q[i] >= o2
                /\ pub < top => top >= o2
                /\ U = {} => pub - Len(q) < o2
    <2>0. p >= o /\ o >= 1 /\ o <= top /\ o \in Nat /\ p \in Nat BY <1>1, <1>2, <1>12, <1>14
    <2>0a. p <= pub BY <1>6
    <2>1. o2 = o + 1 /\ o2 \in 1 .. top + 1 BY <1>3, <2>0
    <2>2. \A i \in DOMAIN q : q[i] >= o2
      <3> SUFFICES ASSUME NEW i \in DOMAIN q PROVE q[i] >= o2 OBVIOUS
      <3>1. q[i] \in Nat /\ p < q[i] BY <1>0, <1>1, <1>7
      <3>2. PICK x \in Nat : x = q[i] BY <3>1
      <3>3. x >= o + 1 BY <3>1, <3>2, <2>0
      <3> QED BY <3>2, <3>3, <2>1
    <2>3a. pub < top => top >= o + 1 BY <2>0, <2>0a
    <2>3. pub < top => top >= o2 BY <2>1, <2>3a
    <2>4a. U = {} => pub - Len(q) = o BY <1>13, <1>13a, <1>14
    <2>4. U = {} => pub - Len(q) < o2 BY <2>0, <2>1, <2>4a
    <2> QED BY <1>0, <2>1, <2>2, <2>3, <2>4
  <1>15. ASSUME k.binding = "sse"
         PROVE  /\ o2 = o + 1 /\ o >= 1 /\ top >= 1 /\ HeldBy(k) >= o - 1
                /\ kept /\ U = {} => pub - Len(q) < o2
    <2>1. o >= 1 /\ top >= 1 /\ HeldBy(k) >= o - 1 BY <1>0, <1>5, <1>15 DEF EventsInv
    <2>2. o2 = o + 1 BY <1>0, <1>3, <2>1
    <2>3. ASSUME kept, U = {} PROVE pub - Len(q) < o2
      <3>1. PICK n \in Nat : n = Len(c.pending) BY CursorFields
      <3>2. pub - n < o BY <1>0, <3>1, <1>5, <1>15, <2>3 DEF EventsInv
      <3>3. Len(q) = n - 1 BY <1>0, <3>1, <1>1
      <3>3a. o \in Nat BY <1>2
      <3>4. pub - (n - 1) < o + 1 BY <3>2, <3>3a
      <3> QED BY <1>0, <3>3, <3>4, <2>2
    <2> QED BY <1>0, <2>1, <2>2, <2>3
  <1>16. CASE k.binding = "sse" /\ item.ordinal <= HeldBy(k)
    <2>1. k2 = k BY <1>0, <1>3a, <1>16 DEF Takes
    <2>2. k.numbered = TRUE BY <1>0, <1>16 DEF ClientInv
    <2>3. HeldBy(k) = o2 - 1 \/ HeldBy(k) > o2 - 1 BY <1>0, <1>2, <1>15, <1>16
    <2>4. ASSUME Plain(k) PROVE NumberedInv(c2, k, pub, top) /\ k.ahead # FALSE
      <3>0. HeldBy(k) >= o /\ HeldBy(k) \in Nat /\ o \in Nat BY <1>0, <1>2, <1>16
      <3>0a. HeldBy(k) # o - 1 BY <3>0
      <3>1. Guessed(k) BY <3>0a, <1>5, <1>12, <2>2, <2>4 DEF NumberedInv
      <3> QED BY <1>0, <3>1, <1>4, <1>5, <1>14, <2>2, <2>3, <2>4 DEF NumberedInv, Guessed
    <2>5. ServingInv(c2, k, pub, top, U) BY <1>0, <1>4, <1>9, <1>14, <2>2, <2>4 DEF ServingInv
    <2>6. HeldBy(k) >= o2 - 1 /\ o2 >= 1 BY <1>0, <1>2, <1>15, <1>16, <2>3
    <2>7. EventsInv(c2, k, pub, top, U, kept)
      BY <1>0, <1>4, <1>5, <1>15, <1>16, <2>6 DEF EventsInv
    <2> QED BY <1>0, <1>4, <1>8, <2>1, <2>5, <2>7
  <1>17. CASE ~(k.binding = "sse" /\ item.ordinal <= HeldBy(k))
    <2>1. Took(k, item, k2) BY <1>0, <1>3a, <1>17 DEF Takes, Took
    <2>2. ASSUME Plain(k), k.numbered = TRUE PROVE HeldBy(k) = o - 1
      <3>1. k.binding = "sse" \/ k.ahead = FALSE BY <1>0 DEF ClientInv
      <3>2. HeldBy(k) = o - 1 \/ (Guessed(k) /\ HeldBy(k) > o - 1)
        BY <1>5, <1>12, <2>2 DEF NumberedInv
      <3>3. k.binding = "sse" => HeldBy(k) < o BY <1>0, <1>2, <1>17
      <3>4. HeldBy(k) \in Nat /\ o \in Nat BY <1>0, <1>2
      <3>5. k.binding = "sse" => ~(HeldBy(k) > o - 1) BY <3>3, <3>4
      <3> QED BY <3>1, <3>2, <3>5 DEF Guessed
    <2>3. Plain(k) /\ k.ahead = FALSE => \A n \in k.from + 1 .. p - 1 : n \in Ids(k) \cup U
      <3> SUFFICES ASSUME Plain(k), k.ahead = FALSE, NEW n \in k.from + 1 .. p - 1
                   PROVE  n \in Ids(k) \cup U
        OBVIOUS
      <3>1. n \in k.from + 1 .. pub /\ n < p BY <1>0, <1>6
      <3>2. \/ n \in Ids(k) \cup U \/ n \in Behind(c) + 1 .. o - 1
            \/ \E i \in DOMAIN c.pending : c.pending[i] = n
        BY <1>0, <3>1, <1>5, <1>11 DEF Covered
      <3>3. ~(n \in Behind(c) + 1 .. o - 1) BY <1>0, <1>2, <1>5, <3>1
      <3>4. ASSUME NEW i \in DOMAIN c.pending PROVE c.pending[i] # n
        <4>1. CASE i = 1 BY <4>1, <3>1, <1>1
        <4>2. CASE i # 1
          <5>1. p < c.pending[i] BY <4>2, <1>1, <1>7
          <5>2. PICK x \in Nat : x = c.pending[i] BY <1>0
          <5>3. x # n BY <5>1, <5>2, <3>1, <1>1
          <5> QED BY <5>2, <5>3
        <4> QED BY <4>1, <4>2
      <3> QED BY <1>0, <3>2, <3>3, <3>4
    <2>4. ASSUME Plain(k), U = {} PROVE p = k.from + Len(k.got) + 1
      <3>1. CASE k.numbered = TRUE
        <4>1. HeldBy(k) = k.from + Len(k.got)
          <5> SUFFICES ASSUME k.binding = "sse", k.got # <<>> PROVE HeldBy(k) = k.from + Len(k.got)
            BY <1>0 DEF HeldBy
          <5>1. Exact(k) BY <1>0, <2>4 DEF ClientInv
          <5>2. Len(k.got) \in DOMAIN k.got BY <1>0
          <5> QED BY <1>0, <5>1, <5>2, <3>1 DEF Exact, HeldBy
        <4>2. p = o /\ HeldBy(k) = o - 1 BY <1>0, <3>1, <2>2, <2>4, <1>13a
        <4> QED BY <1>0, <4>1, <4>2, <1>2
      <3>2. CASE k.numbered = FALSE
        <4>1. pub - Len(c.pending) = k.from + Len(k.got) BY <1>0, <3>2, <2>4 DEF ServingInv
        <4>2. p = pub - Len(c.pending) + 1 BY <1>0, <1>1, <2>4 DEF PendingInv
        <4> QED BY <1>0, <4>1, <4>2
      <3> QED BY <1>0, <3>1, <3>2, <1>10
    <2>5. Plain(k) /\ k.numbered = TRUE /\ k.binding # "sse" => o = k.from + Len(k.got) + 1
      <3> SUFFICES ASSUME Plain(k), k.numbered = TRUE, k.binding # "sse"
                   PROVE  o = k.from + Len(k.got) + 1
        OBVIOUS
      <3>1. PICK x \in Nat : x = k.from + Len(k.got) BY <1>0
      <3>2. x = o - 1 BY <3>1, <2>2 DEF HeldBy
      <3>3. o = x + 1 BY <3>2, <1>2
      <3> QED BY <3>1, <3>3
    <2>6. Fits(k, item, top, U)
      <3>1. Plain(k) /\ U = {} => p = k.from + Len(k.got) + 1 /\ (k.numbered = TRUE => o = p)
        BY <1>0, <2>4, <1>13a
      <3>2. Plain(k) /\ k.numbered = TRUE => o <= p /\ o <= top BY <1>0, <1>1, <1>2, <1>12
      <3> QED BY <1>0, <3>1, <3>2, <2>3, <2>5, <1>2 DEF Fits
    <2>8. /\ k2 \in Clients /\ ClientInv(k2, top, U)
          /\ Ids(k2) = Ids(k) \cup {item.id}
          /\ k2.got # <<>> /\ Len(k2.got) = Len(k.got) + 1
          /\ HeldBy(k2) = IF k.binding = "sse" THEN item.ordinal ELSE k.from + Len(k.got) + 1
          /\ \A f \in {"binding", "numbered", "blind", "moved", "ahead", "from"} : k2[f] = k[f]
      <3> QED BY <1>0, <1>2, <2>1, <2>6, ClientTakes
    <2>9. /\ k2.binding = k.binding /\ k2.numbered = k.numbered /\ (Plain(k2) <=> Plain(k))
          /\ k2.ahead = k.ahead /\ k2.from = k.from
      BY <1>0, <2>8 DEF Plain
    <2>10. ASSUME Plain(k), k.numbered = TRUE PROVE NumberedInv(c2, k2, pub, top)
      <3>1. HeldBy(k2) = o2 - 1
        <4>1. HeldBy(k2) = o BY <1>0, <2>5, <2>8, <2>10, <1>2
        <4>2. o2 = o + 1 BY <1>14, <2>10
        <4>3. o \in Nat BY <1>2
        <4>4. (o + 1) - 1 = o BY <4>3
        <4> QED BY <4>1, <4>2, <4>4
      <3> QED BY <1>0, <3>1, <1>4, <1>5, <1>14, <2>10 DEF NumberedInv
    <2>11. ASSUME Plain(k), k.ahead = FALSE PROVE Covered(c2, k2, pub, U)
      <3> SUFFICES ASSUME NEW n \in k.from + 1 .. pub
                   PROVE  n \in Ids(k2) \cup U \/ \E i \in DOMAIN q : q[i] = n
        BY <1>0, <1>4, <2>9 DEF Covered
      <3>2. \/ n \in Ids(k) \cup U \/ n \in Behind(c) + 1 .. o - 1
            \/ \E i \in DOMAIN c.pending : c.pending[i] = n
        BY <1>0, <1>5, <1>11, <2>11 DEF Covered
      <3>3. ~(n \in Behind(c) + 1 .. o - 1) BY <1>0, <1>2, <1>5
      <3>4. ASSUME NEW i \in DOMAIN c.pending, c.pending[i] = n
            PROVE  n = p \/ \E j \in DOMAIN q : q[j] = n
        BY <1>0, <3>4, <1>1
      <3> QED BY <1>0, <3>2, <3>3, <3>4, <2>8, <1>2
    <2>12. ASSUME Plain(k), k.numbered = FALSE
           PROVE  /\ c2.dedup = {} /\ c2.replay = <<>> /\ k2.ahead = FALSE
                  /\ U = {} => pub - Len(c2.pending) = k2.from + Len(k2.got)
      <3>1. k.ahead = FALSE BY <1>0, <2>12 DEF ServingInv
      <3>2. U = {} => pub - Len(q) = k.from + Len(k.got) + 1 BY <1>0, <1>13, <2>4, <2>12
      <3>3. k.from + (Len(k.got) + 1) = k.from + Len(k.got) + 1 BY <1>0
      <3>4. c2.replay = <<>> BY <1>4 DEF Ready
      <3> QED BY <3>1, <3>2, <3>3, <3>4, <1>4, <2>8, <2>9
    <2>13. ServingInv(c2, k2, pub, top, U)
      BY <1>0, <1>4, <1>9, <1>14, <2>9, <2>10, <2>11, <2>12 DEF ServingInv
    <2>14. ASSUME k.binding = "sse" PROVE EventsInv(c2, k2, pub, top, U, kept)
      <3>1. HeldBy(k2) = o BY <1>0, <2>8, <2>14, <1>2
      <3>2. HeldBy(k2) >= o2 - 1 /\ o2 >= 1 BY <1>0, <3>1, <1>2, <1>15, <2>14
      <3> QED BY <1>0, <3>2, <1>4, <1>5, <1>15, <2>14 DEF EventsInv
    <2> QED BY <1>0, <1>4, <1>8, <2>8, <2>9, <2>13, <2>14
  <1> QED BY <1>0, <1>16, <1>17

-----------------------------------------------------------------------------
\* The numbers of the session, now and behind a step.
LEMMA PubFacts ==
    ASSUME SessionInv
    PROVE  /\ log.top \in Nat /\ log.base \in Nat /\ Pub \in Nat /\ Pub <= log.top
           /\ HasPublish(op) => Pub = log.top - 1
           /\ ~HasPublish(op) => Pub = log.top
           /\ Gone \in BOOLEAN /\ cached \in BOOLEAN
  BY DEF SessionInv, Pub, Gone

\* The same, behind a step.
LEMMA PubFactsNext ==
    ASSUME SessionInv'
    PROVE  /\ log'.top \in Nat /\ log'.base \in Nat /\ Pub' \in Nat /\ Pub' <= log'.top
           /\ HasPublish(op') => Pub' = log'.top - 1
           /\ ~HasPublish(op') => Pub' = log'.top
           /\ Gone' \in BOOLEAN /\ cached' \in BOOLEAN
  BY DEF SessionInv, Pub, Gone

\* Connected, or not.
LEMMA ConnectedCursor ==
    ASSUME StreamInv
    PROVE  /\ Connected => sub \in Cursors /\ ConnectionInv(sub, client)
           /\ ~Connected => sub.pc \in {"away", "ended"}
           /\ sub \in Cursors => Connected
  <1>1. sub \in Cursors => sub.pc \in Opening \cup Serving BY DEF Cursors
  <1> QED BY <1>1 DEF StreamInv, Connected, Opening, Serving

\* A step of the session that leaves the subscriber's cursor as it is.
LEMMA SessionStep ==
    ASSUME StreamInv, SessionInv', client' = client,
           Advances(Pub, log.top, log.base, Unpublished, Pub', log'.top, log'.base, Unpublished'),
           Gone => Gone', cached' => cached \/ log.top = 0,
           Connected => sub' \in Cursors /\ SameCursor(sub, sub') /\ EndingInv(sub, client)',
           ~Connected => sub' = sub
    PROVE  StreamInv'
  <1>1. /\ log.top \in Nat /\ log.base \in Nat /\ Pub \in Nat /\ Gone \in BOOLEAN /\ cached \in BOOLEAN
        /\ client \in Clients /\ (client.binding = "none" => client.numbered = FALSE)
        /\ ClientInv(client, log.top, Unpublished)
    BY PubFacts DEF StreamInv
  <1>2. /\ log'.top \in Nat /\ log'.base \in Nat /\ Pub' \in Nat /\ Gone' \in BOOLEAN /\ cached' \in BOOLEAN
    BY PubFactsNext
  <1>3. log.top <= log'.top /\ Unpublished \subseteq Unpublished'
    BY <1>1, <1>2 DEF Advances
  <1>4. ClientInv(client', log'.top, Unpublished')
    BY <1>1, <1>2, <1>3, ClientGrows
  <1>5. CASE ~Connected
    BY <1>1, <1>4, <1>5, ConnectedCursor DEF StreamInv
  <1>6. CASE Connected
    <2>1. sub \in Cursors /\ ConnectionInv(sub, client) /\ sub' \in Cursors /\ sub'.pc = sub.pc
      BY <1>6, ConnectedCursor DEF SameCursor
    <2>2. /\ client.binding # "none" /\ PendingInv(sub, Pub, Unpublished)
          /\ sub.pc \in Opening => OpeningInv(sub, client, Pub, log.top, log.base, Gone)
          /\ sub.pc \in Serving => ServingInv(sub, client, Pub, log.top, Unpublished)
          /\ sub.pc \in Serving /\ client.binding = "sse" => EventsInv(sub, client, Pub, log.top, Unpublished, cached)
      BY <2>1 DEF ConnectionInv
    <2>3. /\ PendingInv(sub, Pub, Unpublished) => PendingInv(sub', Pub', Unpublished')
          /\ OpeningInv(sub, client, Pub, log.top, log.base, Gone)
               => OpeningInv(sub', client, Pub', log'.top, log'.base, Gone')
          /\ ServingInv(sub, client, Pub, log.top, Unpublished)
               => ServingInv(sub', client, Pub', log'.top, Unpublished')
          /\ EventsInv(sub, client, Pub, log.top, Unpublished, cached) /\ (cached' => cached)
               => EventsInv(sub', client, Pub', log'.top, Unpublished', cached')
      <3>1. Moving(sub, sub', client, Pub, log.top, log.base, Unpublished, Gone, cached,
                   Pub', log'.top, log'.base, Unpublished', Gone', cached')
        BY <1>1, <1>2, <1>6, <2>1 DEF Moving
      <3> QED BY <3>1, SessionMoves
    <2>4. EventsInv(sub, client, Pub, log.top, Unpublished, cached) => log.top # 0
      BY <1>1 DEF EventsInv
    <2>5. ConnectionInv(sub, client)'
      BY <1>6, <2>1, <2>2, <2>3, <2>4 DEF ConnectionInv
    <2> QED BY <1>1, <1>4, <2>1, <2>5 DEF StreamInv
  <1> QED BY <1>5, <1>6

\* Nobody is connected, the client holds nothing.
LEMMA InitInv ==
    ASSUME Init
    PROVE  StreamInv
  <1>1. client \in Clients /\ client.binding = "none" /\ client.numbered = FALSE
        /\ client.ahead = FALSE /\ client.got = <<>> /\ client.from = 0
    BY DEF Init, NewClient, Clients
  <1>2. ClientInv(client, log.top, Unpublished)
    BY <1>1 DEF ClientInv, NoGap, Exact, Ids, Plain
  <1>3. SessionInv
    <2>1. log \in [base : Nat, top : Nat] /\ log.base = 0 /\ log.top = 0 BY DEF Init
    <2>2. lost \in Seq([steps : SUBSET {"announce", "compact", "publish"}, at : Nat]) BY DEF Init
    <2>3. /\ state = "None" /\ resident = FALSE /\ cached = FALSE /\ op = <<>> BY DEF Init
    <2>4. op \in Ops /\ ~HasPublish(op) BY <2>3, OpKinds DEF Ops
    <2>5. op \notin {<<>>, <<"publish">>} => state \in Terminal BY <2>3
    <2>6. ~(log.base > 0) /\ (state = "None" <=> log.top = 0) BY <2>1, <2>3
    <2>7. state \in {"None", "Open"} \cup Terminal BY <2>3
    <2> QED BY <2>1, <2>2, <2>3, <2>4, <2>5, <2>6, <2>7 DEF SessionInv
  <1>4. sub.pc = "away" BY DEF Init, Away
  <1> QED BY <1>1, <1>2, <1>3, <1>4 DEF StreamInv

\* The ending of a stream is open while a handler runs and before the end.
LEMMA StillRunning ==
    ASSUME StreamInv, Connected, op # <<>> \/ state \notin Terminal
    PROVE  sub.ending.kind = "open"
  BY ConnectedCursor DEF ConnectionInv, EndingInv

\* A session's step that leaves the connection alone.
LEMMA ConnectionUnchanged ==
    ASSUME StreamInv, SessionInv', client' = client, sub' = sub,
           Advances(Pub, log.top, log.base, Unpublished, Pub', log'.top, log'.base, Unpublished'),
           Gone => Gone', cached' => cached \/ log.top = 0,
           \/ op # <<>> \/ state \notin Terminal
           \/ op' = op /\ state' = state /\ log' = log /\ (cached' => cached)
    PROVE  StreamInv'
  <1>1. Connected => SameCursor(sub, sub') BY DEF SameCursor
  <1>2. Connected => sub' \in Cursors /\ EndingInv(sub, client) BY ConnectedCursor DEF ConnectionInv
  <1>3. Connected => EndingInv(sub, client)'
    BY <1>2, StillRunning DEF EndingInv
  <1> QED BY <1>1, <1>2, <1>3, SessionStep

\* An envelope is accepted: it is not published yet.
LEMMA AcceptKeeps ==
    ASSUME StreamInv, Accept
    PROVE  StreamInv'
  <1>1. SessionInv BY DEF StreamInv
  <1>2. /\ log \in [base : Nat, top : Nat] /\ log' = [log EXCEPT !.top = @ + 1] /\ op' = <<"publish">>
        /\ op = <<>> /\ state \in {"None", "Open"} /\ state' = "Open" /\ resident' = TRUE /\ cached' = TRUE
        /\ lost' = lost /\ sub' = sub /\ client' = client
    BY <1>1 DEF Accept, SessionInv
  <1>3. log' \in [base : Nat, top : Nat] /\ log'.top = log.top + 1 /\ log'.base = log.base /\ log.top \in Nat
    BY <1>2
  <1>4. log.base = 0 BY <1>1, <1>2 DEF SessionInv, Terminal
  <1>5. SessionInv'
    BY <1>1, <1>2, <1>3, <1>4, OpKinds DEF SessionInv, Ops, Terminal
  <1>6. Pub = log.top /\ Pub' = log'.top - 1
    BY <1>1, <1>2, <1>5, PubFacts, PubFactsNext, OpKinds
  <1>7. Advances(Pub, log.top, log.base, Unpublished, Pub', log'.top, log'.base, Unpublished')
    BY <1>2, <1>3, <1>4, <1>6, UnpublishedSame DEF Advances
  <1>8. ~Gone /\ state \notin Terminal BY <1>2 DEF Gone, Terminal
  <1>9. cached' => cached \/ log.top = 0 BY <1>1, <1>2 DEF SessionInv
  <1> QED BY <1>2, <1>5, <1>7, <1>8, <1>9, ConnectionUnchanged

\* The resolving message.
LEMMA AcceptResolvingKeeps ==
    ASSUME StreamInv, AcceptResolving
    PROVE  StreamInv'
  <1>1. SessionInv BY DEF StreamInv
  <1>2. /\ log \in [base : Nat, top : Nat] /\ log' = [log EXCEPT !.top = @ + 1]
        /\ op' = <<"announce", "compact", "publish">> /\ resident' = resident /\ cached' = cached
        /\ op = <<>> /\ state = "Open" /\ state' = "Resolved"
        /\ lost' = lost /\ sub' = sub /\ client' = client
    BY <1>1 DEF AcceptResolving, SessionInv
  <1>3. log' \in [base : Nat, top : Nat] /\ log'.top = log.top + 1 /\ log'.base = log.base /\ log.top \in Nat
    BY <1>2
  <1>4. log.base = 0 /\ resident = TRUE BY <1>1, <1>2 DEF SessionInv, Terminal
  <1>5. SessionInv'
    BY <1>1, <1>2, <1>3, <1>4, OpKinds DEF SessionInv, Ops, Terminal
  <1>6. Pub = log.top /\ Pub' = log'.top - 1
    BY <1>1, <1>2, <1>5, PubFacts, PubFactsNext, OpKinds
  <1>7. Advances(Pub, log.top, log.base, Unpublished, Pub', log'.top, log'.base, Unpublished')
    BY <1>2, <1>3, <1>4, <1>6, UnpublishedSame DEF Advances
  <1>8. ~Gone /\ state \notin Terminal BY <1>2 DEF Gone, Terminal
  <1> QED BY <1>2, <1>5, <1>7, <1>8, ConnectionUnchanged

\* A cancellation or an expiry.
LEMMA EndKeeps ==
    ASSUME StreamInv, End
    PROVE  StreamInv'
  <1>1. SessionInv BY DEF StreamInv
  <1>2. /\ op = <<>> /\ state = "Open" /\ state' = "Ended"
        /\ op' \in {<<"compact", "announce">>, <<"announce">>} /\ log' = log
        /\ resident' = resident /\ cached' = cached /\ lost' = lost /\ sub' = sub /\ client' = client
    BY DEF End
  <1>3. op' \in Ops /\ ~HasPublish(op') /\ op' \notin {<<>>, <<"publish">>}
    BY <1>2, OpKinds DEF Ops
  <1>4. SessionInv'
    BY <1>1, <1>2, <1>3 DEF SessionInv, Terminal
  <1>5. Pub = log.top /\ Pub' = log'.top /\ log.base \in Nat
    BY <1>1, <1>2, <1>3, <1>4, PubFacts, PubFactsNext, OpKinds
  <1>6. Advances(Pub, log.top, log.base, Unpublished, Pub', log'.top, log'.base, Unpublished')
    BY <1>2, <1>5, UnpublishedSame DEF Advances
  <1>7. ~Gone /\ state \notin Terminal BY <1>2 DEF Gone, Terminal
  <1> QED BY <1>2, <1>4, <1>6, <1>7, ConnectionUnchanged

\* A handler's next step, other than the publication.
LEMMA HandlerGoesOn ==
    ASSUME SessionInv, op # <<>>, Head(op) # "publish", op' = Tail(op),
           state' = state, resident' = resident, cached' = cached, lost' = lost,
           log' \in [base : Nat, top : Nat], log'.top = log.top, log'.base \in {log.base, log.top}
    PROVE  /\ SessionInv' /\ ~Gone /\ cached = TRUE
           /\ Advances(Pub, log.top, log.base, Unpublished, Pub', log'.top, log'.base, Unpublished')
  <1>1. /\ Tail(op) \in Ops /\ (HasPublish(Tail(op)) <=> HasPublish(op))
        /\ op \notin {<<>>, <<"publish">>}
    BY OpSteps DEF SessionInv
  <1>2. state \in Terminal /\ resident = TRUE /\ cached = TRUE /\ log.top \in Nat /\ log.base \in Nat
        /\ log.base <= log.top
    BY <1>1 DEF SessionInv
  <1>3. SessionInv'
    BY <1>1, <1>2 DEF SessionInv
  <1>4. Pub' = Pub
    BY <1>1 DEF Pub
  <1> QED BY <1>2, <1>3, <1>4, UnpublishedSame DEF Advances, Gone

\* A lifecycle event arrives.
Notices(c, c2) == c2 = [c EXCEPT !.lifecycle = TRUE]

\* It changes nothing else.
LEMMA NoticesFields ==
    ASSUME NEW c \in Cursors, NEW c2, Notices(c, c2)
    PROVE  c2 \in Cursors /\ SameCursor(c, c2) /\ c2.ending = c.ending
  BY DEF Notices, Cursors, SameCursor

\* The lifecycle event.
LEMMA AnnounceKeeps ==
    ASSUME StreamInv, Announce
    PROVE  StreamInv'
  <1>1. /\ op # <<>> /\ Head(op) # "publish" /\ op' = Tail(op) /\ state' = state /\ log' = log
        /\ resident' = resident /\ cached' = cached /\ lost' = lost /\ client' = client
    BY DEF Announce
  <1>2. sub' = sub \/ (Connected /\ client.binding = "sse" /\ Notices(sub, sub'))
    BY DEF Announce, Notices
  <1>3. SessionInv /\ log \in [base : Nat, top : Nat] BY DEF StreamInv, SessionInv
  <1>4. /\ SessionInv' /\ ~Gone /\ cached = TRUE
        /\ Advances(Pub, log.top, log.base, Unpublished, Pub', log'.top, log'.base, Unpublished')
    BY <1>1, <1>3, HandlerGoesOn
  <1>5. CASE sub' = sub
    BY <1>1, <1>4, <1>5, ConnectionUnchanged
  <1>6. CASE Connected /\ client.binding = "sse" /\ Notices(sub, sub')
    <2>1. sub \in Cursors BY <1>6, ConnectedCursor
    <2>2. sub' \in Cursors /\ SameCursor(sub, sub') /\ sub'.ending = sub.ending
      BY <1>6, <2>1, NoticesFields
    <2>3. sub.ending.kind = "open" BY <1>1, <1>6, StillRunning
    <2>4. EndingInv(sub, client)' BY <1>1, <1>6, <2>2, <2>3 DEF EndingInv
    <2> QED BY <1>1, <1>4, <1>6, <2>2, <2>4, SessionStep
  <1> QED BY <1>2, <1>5, <1>6

\* maybe_compact_log.
LEMMA CompactKeeps ==
    ASSUME StreamInv, Compact
    PROVE  StreamInv'
  <1>1. /\ op # <<>> /\ Head(op) # "publish" /\ op' = Tail(op) /\ state' = state
        /\ resident' = resident /\ cached' = cached /\ lost' = lost /\ client' = client /\ sub' = sub
    BY DEF Compact
  <1>2. SessionInv /\ log \in [base : Nat, top : Nat] BY DEF StreamInv, SessionInv
  <1>3. log' \in [base : Nat, top : Nat] /\ log'.top = log.top /\ log'.base \in {log.base, log.top}
    BY <1>2 DEF Compact
  <1>4. /\ SessionInv' /\ ~Gone /\ cached = TRUE
        /\ Advances(Pub, log.top, log.base, Unpublished, Pub', log'.top, log'.base, Unpublished')
    BY <1>1, <1>2, <1>3, HandlerGoesOn
  <1> QED BY <1>1, <1>4, ConnectionUnchanged

\* A request dropped at an await.
LEMMA DropKeeps ==
    ASSUME StreamInv, Drop
    PROVE  StreamInv'
  <1>1. SessionInv BY DEF StreamInv
  <1>2. /\ op # <<>> /\ op' = <<>> /\ state' = state /\ log' = log /\ resident' = resident
        /\ cached' = cached /\ client' = client /\ sub' = sub
        /\ lost' = Append(lost, [steps |-> ToSet(op), at |-> log.top])
    BY DEF Drop
  <1>3. /\ op \in Ops /\ lost \in Seq(Lost) /\ log.top \in Nat /\ log.base \in Nat
        /\ resident = TRUE
    BY <1>1, <1>2 DEF SessionInv, Lost
  <1>4. /\ lost' \in Seq(Lost)
        /\ Unpublished' = IF HasPublish(op) THEN Unpublished \cup {log.top} ELSE Unpublished
    BY <1>2, <1>3, UnpublishedGrows
  <1>5. op' \in Ops /\ ~HasPublish(op') BY <1>2, OpKinds DEF Ops
  <1>5a. /\ state' = state /\ log' = log /\ resident' = resident /\ cached' = cached /\ op' = <<>>
    BY <1>2
  <1>6. SessionInv'
    BY <1>1, <1>3, <1>4, <1>5, <1>5a DEF SessionInv, Lost
  <1>7. Pub' = log.top /\ (HasPublish(op) => Pub = log.top - 1) /\ (~HasPublish(op) => Pub = log.top)
    BY <1>1, <1>5, <1>5a, <1>6, PubFacts, PubFactsNext
  <1>8. Advances(Pub, log.top, log.base, Unpublished, Pub', log'.top, log'.base, Unpublished')
    BY <1>3, <1>4, <1>5a, <1>7 DEF Advances
  <1>9. ~Gone BY <1>3 DEF Gone
  <1>10. client' = client /\ sub' = sub /\ op # <<>> BY <1>2
  <1> QED BY <1>5a, <1>6, <1>8, <1>9, <1>10, ConnectionUnchanged

\* Evict and ForgetLog.
LEMMA ForgettingKeeps ==
    ASSUME StreamInv, Evict \/ ForgetLog
    PROVE  StreamInv'
  <1>1. SessionInv BY DEF StreamInv
  <1>2. /\ state' = state /\ log' = log /\ op' = op /\ lost' = lost /\ client' = client /\ sub' = sub
    BY DEF Evict, ForgetLog
  <1>3. SessionInv' /\ (Gone => Gone') /\ (cached' => cached)
    <2>1. CASE Evict BY <1>1, <1>2, <2>1 DEF Evict, SessionInv, Gone, Terminal
    <2>2. CASE ForgetLog BY <1>1, <1>2, <2>2 DEF ForgetLog, SessionInv, Gone, Terminal
    <2> QED BY <2>1, <2>2
  <1>4. Pub' = Pub BY <1>2 DEF Pub
  <1>5. log.base \in Nat BY <1>1, PubFacts
  <1>6. Advances(Pub, log.top, log.base, Unpublished, Pub', log'.top, log'.base, Unpublished')
    BY <1>2, <1>4, <1>5, UnpublishedSame DEF Advances
  <1> QED BY <1>2, <1>3, <1>6, ConnectionUnchanged

\* publish_accepted_envelope.
LEMMA PublishKeeps ==
    ASSUME StreamInv, Publish
    PROVE  StreamInv'
  <1>1. SessionInv /\ client \in Clients /\ (client.binding = "none" => client.numbered = FALSE)
        /\ ClientInv(client, log.top, Unpublished)
    BY DEF StreamInv
  <1>2. /\ op # <<>> /\ Head(op) = "publish" /\ op' = Tail(op) /\ state' = state /\ log' = log
        /\ resident' = resident /\ cached' = cached /\ lost' = lost /\ client' = client
    BY DEF Publish
  <1>3. HasPublish(op) /\ op' = <<>> /\ ~HasPublish(op') /\ op' \in Ops
    BY <1>1, <1>2, OpSteps DEF SessionInv
  <1>4. SessionInv' BY <1>1, <1>2, <1>3 DEF SessionInv
  <1>5. /\ log.top \in Nat /\ log.base \in Nat /\ Pub \in Nat /\ Pub = log.top - 1 /\ Pub' = log.top
        /\ Gone \in BOOLEAN /\ cached \in BOOLEAN
    BY <1>1, <1>2, <1>3, <1>4, PubFacts, PubFactsNext
  <1>6. Unpublished' = Unpublished /\ Gone' = Gone BY <1>2, UnpublishedSame DEF Gone
  <1>7. CASE ~Connected
    <2>1. sub' = sub BY <1>7 DEF Publish
    <2> QED BY <1>1, <1>2, <1>4, <1>6, <1>7, <2>1, ConnectedCursor DEF StreamInv
  <1>8. CASE Connected
    <2>1. sub \in Cursors /\ ConnectionInv(sub, client) BY <1>8, ConnectedCursor
    <2>2. sub.receiver \in BOOLEAN BY <2>1, CursorFields
    <2>3. Gets(sub, log.top, sub') BY <1>8, <2>2 DEF Publish, Gets
    <2>4. /\ client.binding # "none" /\ PendingInv(sub, Pub, Unpublished)
          /\ sub.pc \in Opening => OpeningInv(sub, client, Pub, log.top, log.base, Gone)
          /\ sub.pc \in Serving => ServingInv(sub, client, Pub, log.top, Unpublished)
          /\ sub.pc \in Serving /\ client.binding = "sse" => EventsInv(sub, client, Pub, log.top, Unpublished, cached)
          /\ EndingInv(sub, client)
      BY <2>1 DEF ConnectionInv
    <2>5. sub.pc \in Serving => sub.receiver = TRUE
      BY <2>2, <2>4 DEF PendingInv, Serving
    <2>6. /\ sub' \in Cursors
          /\ PendingInv(sub, Pub, Unpublished) => PendingInv(sub', log.top, Unpublished)
          /\ PendingInv(sub, Pub, Unpublished) /\ OpeningInv(sub, client, Pub, log.top, log.base, Gone)
               => OpeningInv(sub', client, log.top, log.top, log.base, Gone)
          /\ sub.receiver = TRUE /\ ServingInv(sub, client, Pub, log.top, Unpublished)
               => ServingInv(sub', client, log.top, log.top, Unpublished)
          /\ sub.receiver = TRUE /\ EventsInv(sub, client, Pub, log.top, Unpublished, cached)
               => EventsInv(sub', client, log.top, log.top, Unpublished, cached)
          /\ sub'.pc = sub.pc /\ sub'.receiver = sub.receiver /\ sub'.ending = sub.ending
          /\ sub'.lifecycle = sub.lifecycle
      <3>1. Getting(sub, sub', client, Pub, log.top, log.base, Unpublished, Gone, cached)
        BY <1>1, <1>5, <2>1, <2>3 DEF Getting
      <3> QED BY <3>1, ReceiverGets
    <2>7. EndingInv(sub, client)'
      BY <1>2, <1>8, <2>4, <2>6, StillRunning DEF EndingInv
    <2>8. ConnectionInv(sub, client)'
      BY <1>2, <1>5, <1>6, <2>4, <2>5, <2>6, <2>7 DEF ConnectionInv
    <2> QED BY <1>1, <1>2, <1>4, <1>6, <2>6, <2>8 DEF StreamInv
  <1> QED BY <1>7, <1>8

\* A restart: the stream is over.
LEMMA RestartKeeps ==
    ASSUME StreamInv, Restart
    PROVE  StreamInv'
  <1>1. SessionInv /\ client \in Clients /\ (client.binding = "none" => client.numbered = FALSE)
        /\ ClientInv(client, log.top, Unpublished)
    BY DEF StreamInv
  <1>2. /\ op' = <<>> /\ state' = state /\ log' = log /\ lost' = lost /\ client' = client
        /\ resident' = (state # "None") /\ cached' = (state # "None")
        /\ sub' = IF Connected THEN Away ELSE sub
    BY DEF Restart
  <1>3. SessionInv'
    BY <1>1, <1>2, OpKinds DEF SessionInv, Ops
  <1>4. sub'.pc \in {"away", "ended"}
    BY <1>2, ConnectedCursor DEF Away
  <1> QED BY <1>1, <1>2, <1>3, <1>4, UnpublishedSame DEF StreamInv

-----------------------------------------------------------------------------
(* The subscriber's steps: the session stays as it is.                     *)

\* What the parameters of the invariant are, and that they stay.
LEMMA SessionStays ==
    ASSUME StreamInv, UNCHANGED session
    PROVE  /\ SessionInv' /\ log' = log /\ Pub' = Pub /\ Unpublished' = Unpublished /\ Gone' = Gone
           /\ cached' = cached /\ op' = op /\ state' = state
           /\ log.top \in Nat /\ log.base \in Nat /\ Pub \in Nat /\ Pub <= log.top
           /\ Gone \in BOOLEAN /\ cached \in BOOLEAN
           /\ client \in Clients /\ (client.binding = "none" => client.numbered = FALSE)
           /\ ClientInv(client, log.top, Unpublished)
  <1>1. SessionInv BY DEF StreamInv
  <1>2. /\ log' = log /\ cached' = cached /\ op' = op /\ state' = state /\ resident' = resident
        /\ lost' = lost
    BY DEF session
  <1>3. SessionInv' BY <1>1, <1>2 DEF SessionInv
  <1>4. Pub' = Pub /\ Gone' = Gone BY <1>2 DEF Pub, Gone
  <1> QED BY <1>1, <1>2, <1>3, <1>4, PubFacts, UnpublishedSame DEF StreamInv

\* The connection is over, the client as it was or new.
LEMMA OverKeeps ==
    ASSUME StreamInv, UNCHANGED session, sub'.pc \in {"away", "ended"},
           client' = client \/ client' = NewClient
    PROVE  StreamInv'
  <1>1. /\ SessionInv' /\ log' = log /\ Unpublished' = Unpublished
        /\ client \in Clients /\ (client.binding = "none" => client.numbered = FALSE)
        /\ ClientInv(client, log.top, Unpublished)
    BY SessionStays
  <1>2. /\ NewClient \in Clients /\ NewClient.binding = "none" /\ NewClient.numbered = FALSE
        /\ NewClient.ahead = FALSE /\ NewClient.got = <<>> /\ NewClient.from = 0
    BY DEF NewClient, Clients
  <1>3. ClientInv(NewClient, log.top, Unpublished)
    BY <1>2 DEF ClientInv, NoGap, Exact, Ids, Plain
  <1> QED BY <1>1, <1>2, <1>3 DEF StreamInv

\* Restates the invariant of a connected subscriber by its parts.
LEMMA ConnectedParts ==
    ASSUME StreamInv, Connected
    PROVE  /\ sub \in Cursors /\ client.binding # "none" /\ PendingInv(sub, Pub, Unpublished)
           /\ sub.pc \in Opening => OpeningInv(sub, client, Pub, log.top, log.base, Gone)
           /\ sub.pc \in Serving => ServingInv(sub, client, Pub, log.top, Unpublished)
           /\ sub.pc \in Serving /\ client.binding = "sse"
                => EventsInv(sub, client, Pub, log.top, Unpublished, cached)
           /\ EndingInv(sub, client)
  BY ConnectedCursor DEF ConnectionInv

\* Puts the invariant together behind a subscriber's step.
LEMMA PartsTogether ==
    ASSUME StreamInv, UNCHANGED session, sub' \in Cursors, client' \in Clients,
           client'.binding # "none", ClientInv(client', log.top, Unpublished),
           PendingInv(sub', Pub, Unpublished),
           sub'.pc \in Opening => OpeningInv(sub', client', Pub, log.top, log.base, Gone),
           sub'.pc \in Serving => ServingInv(sub', client', Pub, log.top, Unpublished),
           sub'.pc \in Serving /\ client'.binding = "sse"
             => EventsInv(sub', client', Pub, log.top, Unpublished, cached),
           EndingInv(sub, client)'
    PROVE  StreamInv'
  <1>1. /\ SessionInv' /\ log' = log /\ Pub' = Pub /\ Unpublished' = Unpublished /\ Gone' = Gone
        /\ cached' = cached
    BY SessionStays
  <1>2. ConnectionInv(sub, client)'
    BY <1>1 DEF ConnectionInv
  <1> QED BY <1>1, <1>2 DEF StreamInv

\* The parts of the invariant that do not look at pc.
SameQueues(c, c2) ==
    /\ c2.receiver = c.receiver /\ c2.pending = c.pending /\ c2.replay = c.replay
    /\ c2.dedup = c.dedup /\ c2.next_live_ordinal = c.next_live_ordinal

\* They hold of every cursor with the same queues.
LEMMA QueuesServe ==
    ASSUME NEW c, NEW c2, NEW k, NEW pub, NEW top, NEW U, NEW kept,
           SameQueues(c, c2), c.pc \in Serving, PendingInv(c, pub, U),
           ServingInv(c, k, pub, top, U)
    PROVE  /\ PendingInv(c2, pub, U) /\ ServingInv(c2, k, pub, top, U)
           /\ EventsInv(c, k, pub, top, U, kept) => EventsInv(c2, k, pub, top, U, kept)
  <1>1. c2.receiver # FALSE BY DEF PendingInv, Serving, SameQueues
  <1>2. PendingInv(c2, pub, U) BY <1>1 DEF PendingInv, SameQueues
  <1>3. Behind(c2) = Behind(c) BY DEF Behind, SameQueues
  <1>4. ReplayInv(c) => ReplayInv(c2) BY <1>3 DEF ReplayInv, SameQueues
  <1>5. NumberedInv(c, k, pub, top) => NumberedInv(c2, k, pub, top) BY <1>3 DEF NumberedInv, SameQueues
  <1>6. Covered(c, k, pub, U) => Covered(c2, k, pub, U) BY <1>3 DEF Covered, SameQueues
  <1>7. ServingInv(c2, k, pub, top, U) BY <1>4, <1>5, <1>6 DEF ServingInv, SameQueues
  <1>8. EventsInv(c, k, pub, top, U, kept) => EventsInv(c2, k, pub, top, U, kept)
    BY <1>3 DEF EventsInv, SameQueues
  <1> QED BY <1>2, <1>7, <1>8

\* A step from one serving state to another.
LEMMA ServingKeeps ==
    ASSUME StreamInv, UNCHANGED session, client' = client, sub.pc \in Serving, sub' \in Cursors,
           sub'.pc \in Serving, SameQueues(sub, sub'), EndingInv(sub, client)'
    PROVE  StreamInv'
  <1>1. Connected BY DEF Connected, Serving
  <1>2. /\ client.binding # "none" /\ PendingInv(sub, Pub, Unpublished)
        /\ ServingInv(sub, client, Pub, log.top, Unpublished)
        /\ client.binding = "sse" => EventsInv(sub, client, Pub, log.top, Unpublished, cached)
    BY <1>1, ConnectedParts
  <1>3. client \in Clients /\ ClientInv(client, log.top, Unpublished) BY SessionStays
  <1>4. /\ PendingInv(sub', Pub, Unpublished)
        /\ ServingInv(sub', client, Pub, log.top, Unpublished)
        /\ client.binding = "sse" => EventsInv(sub', client, Pub, log.top, Unpublished, cached)
    BY <1>2, QueuesServe
  <1>5. sub'.pc \notin Opening BY DEF Opening, Serving
  <1> QED BY <1>2, <1>3, <1>4, <1>5, PartsTogether

-----------------------------------------------------------------------------
(* The subscriber's actions.                                               *)

\* A step of the pc alone.
AtPc(c, pc, c2) == c2 = [c EXCEPT !.pc = pc]

\* The fields behind it.
LEMMA AtPcFields ==
    ASSUME NEW c \in Cursors, NEW c2, NEW pc \in Opening \cup Serving, AtPc(c, pc, c2)
    PROVE  /\ c2 \in Cursors /\ SameQueues(c, c2) /\ c2.pc = pc /\ c2.after = c.after
           /\ c2.floor = c.floor /\ c2.ending = c.ending /\ c2.lifecycle = c.lifecycle
  BY DEF AtPc, Cursors, SameQueues

\* authorize_subscription.
LEMMA AuthorizeKeeps ==
    ASSUME StreamInv, Authorize
    PROVE  StreamInv'
  <1>1. /\ sub.pc = "authorize" /\ (resident => op = <<>>) /\ UNCHANGED session /\ client' = client
        /\ resident => AtPc(sub, "receiver", sub')
        /\ ~resident => sub' = Ended("unknown")
    BY DEF Authorize, AtPc
  <1>2. CASE ~resident
    <2>1. sub'.pc = "ended" BY <1>1, <1>2 DEF Ended
    <2> QED BY <1>1, <2>1, OverKeeps
  <1>3. CASE resident
    <2>1. Connected /\ sub.pc \in Opening BY <1>1 DEF Connected, Opening
    <2>2. /\ sub \in Cursors /\ client.binding # "none" /\ PendingInv(sub, Pub, Unpublished)
          /\ OpeningInv(sub, client, Pub, log.top, log.base, Gone) /\ EndingInv(sub, client)
      BY <2>1, ConnectedParts
    <2>3. /\ sub' \in Cursors /\ SameQueues(sub, sub') /\ sub'.pc = "receiver" /\ sub'.after = sub.after
          /\ sub'.floor = sub.floor /\ sub'.ending = sub.ending /\ sub'.lifecycle = sub.lifecycle
      <3>1. "receiver" \in Opening \cup Serving BY DEF Opening
      <3> QED BY <1>1, <1>3, <2>2, <3>1, AtPcFields
    <2>4. SessionInv /\ ~Gone /\ log.top >= 1 /\ Pub = log.top
      <3>1. SessionInv BY DEF StreamInv
      <3>2. state # "None" /\ ~HasPublish(op) BY <1>1, <1>3, <3>1, OpKinds DEF SessionInv
      <3>3. log.top \in Nat /\ Pub = log.top BY <3>1, <3>2, PubFacts
      <3>4. log.top # 0 BY <3>1, <3>2 DEF SessionInv
      <3>5. log.top >= 1 BY <3>3, <3>4
      <3> QED BY <1>3, <3>1, <3>3, <3>5 DEF Gone
    <2>5. PendingInv(sub', Pub, Unpublished)
      BY <2>2, <2>3 DEF PendingInv, SameQueues
    <2>6. OpeningInv(sub', client, Pub, log.top, log.base, Gone)
      BY <1>1, <2>2, <2>3, <2>4 DEF OpeningInv, SameQueues
    <2>7. /\ client \in Clients /\ ClientInv(client, log.top, Unpublished) /\ op' = op /\ state' = state
          /\ cached' = cached /\ log' = log
      BY <1>1, SessionStays
    <2>8. EndingInv(sub, client)'
      BY <1>1, <2>2, <2>3, <2>7 DEF EndingInv
    <2>9. sub'.pc \notin Serving BY <2>3 DEF Serving
    <2> QED BY <1>1, <2>2, <2>3, <2>5, <2>6, <2>7, <2>8, <2>9, PartsTogether
  <1> QED BY <1>2, <1>3

\* The receiver exists.
Attaches(c, c2) == c2 = [c EXCEPT !.pc = "snapshot", !.receiver = TRUE]

\* The fields behind it.
LEMMA AttachesFields ==
    ASSUME NEW c \in Cursors, NEW c2, Attaches(c, c2)
    PROVE  /\ c2 \in Cursors /\ c2.pc = "snapshot" /\ c2.receiver = TRUE /\ c2.pending = c.pending
           /\ c2.dedup = c.dedup /\ c2.after = c.after /\ c2.floor = c.floor
           /\ c2.ending = c.ending /\ c2.lifecycle = c.lifecycle
  BY DEF Attaches, Cursors, Opening

\* subscribe_session_stream.
LEMMA AttachReceiverKeeps ==
    ASSUME StreamInv, AttachReceiver
    PROVE  StreamInv'
  <1>1. sub.pc = "receiver" /\ UNCHANGED session /\ client' = client /\ Attaches(sub, sub')
    BY DEF AttachReceiver, Attaches
  <1>2. Connected /\ sub.pc \in Opening BY <1>1 DEF Connected, Opening
  <1>3. /\ sub \in Cursors /\ client.binding # "none" /\ PendingInv(sub, Pub, Unpublished)
        /\ OpeningInv(sub, client, Pub, log.top, log.base, Gone) /\ EndingInv(sub, client)
    BY <1>2, ConnectedParts
  <1>4. /\ sub' \in Cursors /\ sub'.pc = "snapshot" /\ sub'.receiver = TRUE /\ sub'.pending = sub.pending
        /\ sub'.dedup = sub.dedup /\ sub'.after = sub.after /\ sub'.floor = sub.floor
        /\ sub'.ending = sub.ending /\ sub'.lifecycle = sub.lifecycle
    BY <1>1, <1>3, AttachesFields
  <1>5. PendingInv(sub', Pub, Unpublished) BY <1>3, <1>4 DEF PendingInv
  <1>6. OpeningInv(sub', client, Pub, log.top, log.base, Gone)
    BY <1>1, <1>3, <1>4 DEF OpeningInv
  <1>7. /\ client \in Clients /\ ClientInv(client, log.top, Unpublished) /\ op' = op /\ state' = state
        /\ cached' = cached /\ log' = log
    BY <1>1, SessionStays
  <1>8. EndingInv(sub, client)' BY <1>1, <1>3, <1>4, <1>7 DEF EndingInv
  <1>9. sub'.pc \notin Serving BY <1>4 DEF Serving
  <1> QED BY <1>1, <1>3, <1>4, <1>5, <1>6, <1>7, <1>8, <1>9, PartsTogether

\* The subscription starts over at the client's own position.
Retries(c, c2) ==
    c2 = [c EXCEPT !.pc = "authorize", !.floor = c.after, !.receiver = FALSE, !.pending = <<>>]

\* The fields behind it.
LEMMA RetriesFields ==
    ASSUME NEW c \in Cursors, NEW c2, Retries(c, c2)
    PROVE  /\ c2 \in Cursors /\ c2.pc = "authorize" /\ c2.receiver = FALSE /\ c2.pending = <<>>
           /\ c2.dedup = c.dedup /\ c2.after = c.after /\ c2.floor = c.after
           /\ c2.ending = c.ending /\ c2.lifecycle = c.lifecycle
  <1>1. c.after \in Nat /\ <<>> \in Seq(Nat) BY CursorFields
  <1> DEFINE none == <<>>
  <1>2. none \in Seq(Nat) BY <1>1
  <1>3. c2 = [c EXCEPT !.pc = "authorize", !.floor = c.after, !.receiver = FALSE, !.pending = none]
    BY DEF Retries
  <1> HIDE DEF none
  <1>4. /\ c2 \in Cursors /\ c2.pc = "authorize" /\ c2.receiver = FALSE /\ c2.pending = none
        /\ c2.dedup = c.dedup /\ c2.after = c.after /\ c2.floor = c.after
        /\ c2.ending = c.ending /\ c2.lifecycle = c.lifecycle
    BY <1>1, <1>2, <1>3 DEF Cursors, Opening
  <1> QED BY <1>4 DEF none

\* The range was compacted away.
LEMMA HistoryUnavailableKeeps ==
    ASSUME StreamInv, HistoryUnavailable
    PROVE  StreamInv'
  <1>1. /\ sub.pc = "snapshot" /\ ~Available(sub.floor) /\ UNCHANGED session /\ client' = client
        /\ Retries(sub, sub') \/ sub' = Ended("unavailable")
    BY DEF HistoryUnavailable, Retries
  <1>2. CASE sub' = Ended("unavailable")
    <2>1. sub'.pc = "ended" BY <1>2 DEF Ended
    <2> QED BY <1>1, <2>1, OverKeeps
  <1>3. CASE Retries(sub, sub')
    <2>1. Connected /\ sub.pc \in Opening BY <1>1 DEF Connected, Opening
    <2>2. /\ sub \in Cursors /\ client.binding # "none" /\ PendingInv(sub, Pub, Unpublished)
          /\ OpeningInv(sub, client, Pub, log.top, log.base, Gone) /\ EndingInv(sub, client)
      BY <2>1, ConnectedParts
    <2>3. /\ sub' \in Cursors /\ sub'.pc = "authorize" /\ sub'.receiver = FALSE /\ sub'.pending = <<>>
          /\ sub'.dedup = sub.dedup /\ sub'.after = sub.after /\ sub'.floor = sub.after
          /\ sub'.ending = sub.ending /\ sub'.lifecycle = sub.lifecycle
      BY <1>3, <2>2, RetriesFields
    <2>4. /\ client \in Clients /\ ClientInv(client, log.top, Unpublished) /\ op' = op /\ state' = state
          /\ cached' = cached /\ log' = log /\ log.base \in Nat /\ sub.floor \in Nat /\ sub.after \in Nat
      BY <1>1, <2>2, SessionStays, CursorFields
    <2>5. log.base > 0 BY <1>1, <2>4 DEF Available
    <2>6. PendingInv(sub', Pub, Unpublished) BY <2>3 DEF PendingInv
    <2>7. OpeningInv(sub', client, Pub, log.top, log.base, Gone)
      BY <1>1, <2>2, <2>3, <2>4, <2>5 DEF OpeningInv
    <2>8. EndingInv(sub, client)' BY <1>1, <2>2, <2>3, <2>4 DEF EndingInv
    <2>9. sub'.pc \notin Serving BY <2>3 DEF Serving
    <2> QED BY <1>1, <2>2, <2>3, <2>4, <2>6, <2>7, <2>8, <2>9, PartsTogether
  <1> QED BY <1>1, <1>2, <1>3

\* SubscriptionCursor::load_snapshot.
LEMMA LoadSnapshotKeeps ==
    ASSUME StreamInv, LoadSnapshot
    PROVE  StreamInv'
  <1> DEFINE replay == IncomingAfter(sub.floor)
             pc == IF client.binding = "sse" THEN "observe" ELSE "drain"
  <1>1. /\ sub.pc = "snapshot" /\ Available(sub.floor) /\ UNCHANGED session
        /\ Loads(sub, pc, replay, HighWater, sub') /\ Looks(client, cached, client')
    BY DEF LoadSnapshot, Loads, Looks
  <1>2. Connected /\ sub.pc \in Opening BY <1>1 DEF Connected, Opening
  <1>3. /\ sub \in Cursors /\ client.binding # "none" /\ PendingInv(sub, Pub, Unpublished)
        /\ OpeningInv(sub, client, Pub, log.top, log.base, Gone) /\ EndingInv(sub, client)
    BY <1>2, ConnectedParts
  <1>4. /\ log.top \in Nat /\ log.base \in Nat /\ Pub \in Nat /\ Pub <= log.top
        /\ Gone \in BOOLEAN /\ cached \in BOOLEAN
        /\ client \in Clients /\ ClientInv(client, log.top, Unpublished) /\ op' = op /\ state' = state
        /\ cached' = cached /\ log' = log /\ sub.floor \in Nat
    BY <1>1, <1>3, SessionStays, CursorFields
  <1>5. HighWater \in Nat /\ HighWater = (IF cached THEN log.top ELSE 0) BY <1>4 DEF HighWater
  <1>6. cached => log.base <= sub.floor BY <1>1, <1>4 DEF Available
  <1> DEFINE n == IF cached /\ log.top > sub.floor THEN log.top - sub.floor ELSE 0
  <1>7. replay = [i \in 1 .. n |-> [ordinal |-> sub.floor + i, id |-> sub.floor + i]] /\ n \in Nat
    <2>1. cached => (IF sub.floor > log.base THEN sub.floor ELSE log.base) = sub.floor BY <1>4, <1>6
    <2>2. CASE cached BY <1>4, <2>1, <2>2 DEF IncomingAfter
    <2>3. CASE ~cached
      <3>1. n = 0 /\ 1 .. n = {} BY <2>3
      <3>2. replay = [i \in 1 .. 0 |-> [ordinal |-> (IF sub.floor > log.base THEN sub.floor ELSE log.base) + i,
                                        id |-> (IF sub.floor > log.base THEN sub.floor ELSE log.base) + i]]
        BY <2>3 DEF IncomingAfter
      <3> QED BY <3>1, <3>2
    <2> QED BY <2>2, <2>3
  <1> HIDE DEF replay
  <1>8. replay \in Seq(Item) /\ Len(replay) = n
        /\ \A i \in DOMAIN replay : replay[i].id = sub.floor + i /\ replay[i].ordinal = sub.floor + i
    <2> HIDE DEF n
    <2>1. \A i \in 1 .. n : [ordinal |-> sub.floor + i, id |-> sub.floor + i] \in Item
      BY <1>4, <1>7 DEF Item
    <2>2. replay \in [1 .. n -> Item] BY <1>7, <2>1
    <2>3. replay \in Seq(Item) /\ Len(replay) = n /\ DOMAIN replay = 1 .. n BY <1>7, <2>2
    <2> QED BY <1>7, <2>3
  <1>9. pc \in {"observe", "drain"} OBVIOUS
  <1> HIDE DEF pc
  <1>10. Loading(sub, sub', client, client', Pub, log.top, log.base, Unpublished, Gone, cached,
                 HighWater, replay, pc)
    BY <1>1, <1>3, <1>4, <1>5, <1>6, <1>8, <1>9 DEF Loading
  <1>11. /\ sub' \in Cursors /\ sub'.pc = pc /\ sub'.ending = sub.ending /\ sub'.lifecycle = sub.lifecycle
         /\ client' \in Clients /\ client'.binding = client.binding /\ ClientInv(client', log.top, Unpublished)
         /\ PendingInv(sub', Pub, Unpublished)
         /\ ServingInv(sub', client', Pub, log.top, Unpublished)
         /\ client.binding = "sse" => EventsInv(sub', client', Pub, log.top, Unpublished, cached)
    BY <1>10, SnapshotServes
  <1>12. EndingInv(sub, client)'
    BY <1>3, <1>4, <1>11 DEF EndingInv, pc
  <1>13. sub'.pc \notin Opening BY <1>9, <1>11 DEF Opening
  <1> QED BY <1>1, <1>3, <1>11, <1>12, <1>13, PartsTogether

\* An observation e.
Observes(c, e, c2) == c2 = [c EXCEPT !.pc = "stream", !.ending = e]

\* What can be observed.
Endings == {StillOpen, Fatal} \cup {Resolved(n) : n \in Nat}

\* The fields behind it.
LEMMA ObservesFields ==
    ASSUME NEW c \in Cursors, NEW c2, NEW e \in Endings, Observes(c, e, c2)
    PROVE  /\ c2 \in Cursors /\ c2.pc = "stream" /\ SameQueues(c, c2) /\ c2.ending = e
           /\ c2.lifecycle = c.lifecycle
  <1> HIDE DEF StillOpen, Fatal, Resolved
  <1> QED BY DEF Observes, Cursors, Serving, SameQueues, Endings

\* Subscription::observe: the handler is done, so the high water is final.
LEMMA ObserveKeeps ==
    ASSUME StreamInv, Observe
    PROVE  StreamInv'
  <1> DEFINE e == CASE state = "Resolved" -> Resolved(HighWater)
                    [] state = "Ended"    -> Fatal
                    [] OTHER              -> StillOpen
  <1>1. /\ sub.pc = "observe" /\ (resident => op = <<>>) /\ UNCHANGED session /\ client' = client
        /\ Observes(sub, e, sub')
    BY DEF Observe, Observes
  <1>2. Connected /\ sub.pc \in Serving BY <1>1 DEF Connected, Serving
  <1>3. sub \in Cursors /\ EndingInv(sub, client) BY <1>2, ConnectedParts
  <1>4. /\ log.top \in Nat /\ cached \in BOOLEAN /\ op' = op /\ state' = state /\ cached' = cached /\ log' = log
    BY <1>1, SessionStays
  <1>5. HighWater \in Nat /\ (cached => HighWater = log.top) BY <1>4 DEF HighWater
  <1>6. op = <<>> BY <1>1 DEF StreamInv, SessionInv
  <1>7. client.binding = "sse" BY <1>1, <1>3 DEF EndingInv
  <1>8. /\ e \in Endings
        /\ e.kind # "open" => state \in Terminal
        /\ e.kind = "resolved" /\ cached => e.last_ordinal = log.top
    <2>1. CASE state = "Resolved"
      <3>1. e = Resolved(HighWater) BY <2>1
      <3>2. e.last_ordinal = HighWater BY <3>1 DEF Resolved
      <3>3. e \in Endings BY <1>5, <3>1 DEF Endings
      <3> QED BY <1>5, <2>1, <3>2, <3>3 DEF Terminal
    <2>2. CASE state = "Ended"
      <3>1. e = Fatal BY <2>2
      <3>2. e.kind = "fatal" BY <3>1 DEF Fatal
      <3>3. e \in Endings BY <3>1 DEF Endings
      <3> QED BY <2>2, <3>2, <3>3 DEF Terminal
    <2>3. CASE state \notin {"Resolved", "Ended"}
      <3>1. e = StillOpen BY <2>3
      <3>2. e.kind = "open" BY <3>1 DEF StillOpen
      <3>3. e \in Endings BY <3>1 DEF Endings
      <3> QED BY <3>2, <3>3
    <2> QED BY <2>1, <2>2, <2>3
  <1> HIDE DEF e
  <1>9. /\ sub' \in Cursors /\ sub'.pc = "stream" /\ SameQueues(sub, sub') /\ sub'.ending = e
        /\ sub'.lifecycle = sub.lifecycle
    BY <1>1, <1>3, <1>8, ObservesFields
  <1>10. EndingInv(sub, client)'
    BY <1>1, <1>4, <1>6, <1>7, <1>8, <1>9 DEF EndingInv
  <1>11. sub'.pc \in Serving BY <1>9 DEF Serving
  <1> QED BY <1>1, <1>2, <1>9, <1>10, <1>11, ServingKeeps

\* A gRPC stream waits for frames again.
LEMMA DrainedKeeps ==
    ASSUME StreamInv, Drained
    PROVE  StreamInv'
  <1>1. sub.pc = "drain" /\ UNCHANGED session /\ client' = client /\ AtPc(sub, "stream", sub')
    BY DEF Drained, AtPc
  <1>2. Connected /\ sub.pc \in Serving /\ "stream" \in Serving BY <1>1 DEF Connected, Serving
  <1>3. sub \in Cursors /\ EndingInv(sub, client) BY <1>2, ConnectedParts
  <1>4. /\ sub' \in Cursors /\ SameQueues(sub, sub') /\ sub'.pc = "stream"
        /\ sub'.ending = sub.ending /\ sub'.lifecycle = sub.lifecycle
    BY <1>1, <1>2, <1>3, AtPcFields
  <1>5. op' = op /\ state' = state /\ cached' = cached /\ log' = log BY <1>1, SessionStays
  <1>6. EndingInv(sub, client)' BY <1>1, <1>3, <1>4, <1>5 DEF EndingInv
  <1> QED BY <1>1, <1>2, <1>4, <1>6, ServingKeeps

\* A lifecycle event is taken.
Looking(c, c2) == c2 = [c EXCEPT !.pc = "observe", !.lifecycle = FALSE]

\* The fields behind it.
LEMMA LookingFields ==
    ASSUME NEW c \in Cursors, NEW c2, Looking(c, c2)
    PROVE  /\ c2 \in Cursors /\ c2.pc = "observe" /\ SameQueues(c, c2) /\ c2.ending = c.ending
           /\ c2.lifecycle = FALSE
  BY DEF Looking, Cursors, Serving, SameQueues

\* A lifecycle event makes the stream observe again.
LEMMA LifecycleKeeps ==
    ASSUME StreamInv, Lifecycle
    PROVE  StreamInv'
  <1>1. /\ sub.pc \in Serving /\ sub.lifecycle /\ UNCHANGED session /\ client' = client
        /\ Looking(sub, sub')
    BY DEF Lifecycle, Streaming, Looking, Serving
  <1>2. Connected BY <1>1 DEF Connected, Serving
  <1>3. sub \in Cursors /\ EndingInv(sub, client) BY <1>2, ConnectedParts
  <1>4. /\ sub' \in Cursors /\ sub'.pc = "observe" /\ SameQueues(sub, sub') /\ sub'.ending = sub.ending
        /\ sub'.lifecycle = FALSE
    BY <1>1, <1>3, LookingFields
  <1>5. op' = op /\ state' = state /\ cached' = cached /\ log' = log BY <1>1, SessionStays
  <1>6. client.binding = "sse" BY <1>1, <1>3 DEF EndingInv
  <1>7. EndingInv(sub, client)' BY <1>1, <1>3, <1>4, <1>5, <1>6 DEF EndingInv
  <1>8. sub'.pc \in Serving BY <1>4 DEF Serving
  <1> QED BY <1>1, <1>4, <1>7, <1>8, ServingKeeps

\* The steps that end a connection.
LEMMA OverKeepsAll ==
    ASSUME StreamInv, Lagged \/ EndResolved \/ EndNotOpen \/ Disconnect
    PROVE  StreamInv'
  <1>1. UNCHANGED session /\ (client' = client \/ client' = NewClient)
    BY DEF Lagged, EndResolved, EndNotOpen, Disconnect
  <1>2. sub'.pc \in {"away", "ended"}
    BY DEF Lagged, EndResolved, EndNotOpen, Disconnect, Away, Ended
  <1> QED BY <1>1, <1>2, OverKeeps

\* The position of the client.
LEMMA HeldIsHeldBy ==
    Held = HeldBy(client)
  BY DEF Held, HeldBy, Last

\* A stream that delivers, as the lemmas on deliveries want it.
LEMMA StreamingServed ==
    ASSUME StreamInv, Streaming, UNCHANGED session
    PROVE  /\ Served(sub, client, Pub, log.top, Unpublished, cached) /\ client.binding # "none"
           /\ sub.pc \in Serving /\ sub \in Cursors /\ EndingInv(sub, client)
           /\ op' = op /\ state' = state /\ cached' = cached /\ log' = log
  <1>1. Connected /\ sub.pc \in Serving BY DEF Streaming, Connected, Serving
  <1> QED BY <1>1, ConnectedParts, SessionStays DEF Served

\* What a delivery leaves is the invariant.
LEMMA DeliveryTogether ==
    ASSUME StreamInv, Streaming, UNCHANGED session,
           sub' \in Cursors, sub'.pc = sub.pc, sub'.ending = sub.ending, sub'.lifecycle = sub.lifecycle,
           client' \in Clients, client'.binding = client.binding, ClientInv(client', log.top, Unpublished),
           PendingInv(sub', Pub, Unpublished),
           ServingInv(sub', client', Pub, log.top, Unpublished),
           client.binding = "sse" => EventsInv(sub', client', Pub, log.top, Unpublished, cached)
    PROVE  StreamInv'
  <1>1. /\ client.binding # "none" /\ sub.pc \in Serving /\ EndingInv(sub, client)
        /\ op' = op /\ state' = state /\ cached' = cached /\ log' = log
    BY StreamingServed
  <1>2. EndingInv(sub, client)' BY <1>1 DEF EndingInv
  <1>3. sub'.pc \notin Opening BY <1>1 DEF Opening, Serving
  <1> QED BY <1>1, <1>2, <1>3, PartsTogether

\* The next envelope of the replay.
LEMMA DeliverReplayKeeps ==
    ASSUME StreamInv, DeliverReplay
    PROVE  StreamInv'
  <1>1. /\ Streaming /\ sub.replay # <<>> /\ UNCHANGED session /\ Replays(sub, sub')
        /\ Takes(client, Head(sub.replay), client')
    BY HeldIsHeldBy DEF DeliverReplay, Deliver, Replays, Takes
  <1>2. Served(sub, client, Pub, log.top, Unpublished, cached) /\ client.binding # "none"
    BY <1>1, StreamingServed
  <1>3. /\ sub' \in Cursors /\ sub'.pc = sub.pc /\ sub'.ending = sub.ending /\ sub'.lifecycle = sub.lifecycle
        /\ client' \in Clients /\ client'.binding = client.binding /\ ClientInv(client', log.top, Unpublished)
        /\ PendingInv(sub', Pub, Unpublished)
        /\ ServingInv(sub', client', Pub, log.top, Unpublished)
        /\ client.binding = "sse" => EventsInv(sub', client', Pub, log.top, Unpublished, cached)
    BY <1>1, <1>2, ReplayServes
  <1> QED BY <1>1, <1>3, DeliveryTogether

\* An envelope of the replay comes a second time.
LEMMA SkipReplayedKeeps ==
    ASSUME StreamInv, SkipReplayed
    PROVE  StreamInv'
  <1>1. /\ Streaming /\ sub.replay = <<>> /\ sub.pending # <<>> /\ UNCHANGED session /\ client' = client
        /\ Skips(sub, sub') /\ Head(sub.pending) \in sub.dedup
    BY DEF SkipReplayed, LiveReady, Skips
  <1>2. /\ Served(sub, client, Pub, log.top, Unpublished, cached) /\ sub.pc \in Serving
        /\ client \in Clients /\ ClientInv(client, log.top, Unpublished)
    BY <1>1, StreamingServed, SessionStays
  <1>3. Ready(sub) BY <1>1, <1>2 DEF Ready
  <1>4. /\ sub' \in Cursors /\ sub'.pc = sub.pc /\ sub'.ending = sub.ending /\ sub'.lifecycle = sub.lifecycle
        /\ PendingInv(sub', Pub, Unpublished)
        /\ ServingInv(sub', client, Pub, log.top, Unpublished)
        /\ client.binding = "sse" => EventsInv(sub', client, Pub, log.top, Unpublished, cached)
    BY <1>1, <1>2, <1>3, SkipServes
  <1> QED BY <1>1, <1>2, <1>4, DeliveryTogether

\* A live envelope.
LEMMA DeliverLiveKeeps ==
    ASSUME StreamInv, DeliverLive
    PROVE  StreamInv'
  <1>1. /\ Streaming /\ sub.replay = <<>> /\ sub.pending # <<>> /\ UNCHANGED session
        /\ New(sub) /\ Lives(sub, sub') /\ Takes(client, LiveItem(sub), client')
    BY HeldIsHeldBy DEF DeliverLive, LiveReady, New, Lives, Takes, LiveItem, Deliver
  <1>2. Served(sub, client, Pub, log.top, Unpublished, cached) /\ sub.pc \in Serving
    BY <1>1, StreamingServed
  <1>3. Ready(sub) BY <1>1, <1>2 DEF Ready
  <1>4. /\ sub' \in Cursors /\ sub'.pc = sub.pc /\ sub'.ending = sub.ending /\ sub'.lifecycle = sub.lifecycle
        /\ client' \in Clients /\ client'.binding = client.binding /\ ClientInv(client', log.top, Unpublished)
        /\ PendingInv(sub', Pub, Unpublished)
        /\ ServingInv(sub', client', Pub, log.top, Unpublished)
        /\ client.binding = "sse" => EventsInv(sub', client', Pub, log.top, Unpublished, cached)
    BY <1>1, <1>2, <1>3, LiveServes
  <1> QED BY <1>1, <1>4, DeliveryTogether

-----------------------------------------------------------------------------
(* Subscribing.                                                            *)

\* The cursor of a new connection.
Opened(after, floor, c) ==
    c = [pc |-> "authorize", after |-> after, floor |-> floor, receiver |-> FALSE, pending |-> <<>>,
         replay |-> <<>>, dedup |-> {}, next_live_ordinal |-> 0, ending |-> StillOpen, lifecycle |-> FALSE]

\* Its fields.
LEMMA OpenedFields ==
    ASSUME NEW after \in Nat, NEW floor \in Nat, NEW c, Opened(after, floor, c)
    PROVE  /\ c \in Cursors /\ c.pc = "authorize" /\ c.after = after /\ c.floor = floor
           /\ c.receiver = FALSE /\ c.pending = <<>> /\ c.dedup = {} /\ c.ending = StillOpen
           /\ c.lifecycle = FALSE
  <1> DEFINE none == <<>>
             open == StillOpen
  <1>1. none \in Seq(Nat) /\ none \in Seq(Item) /\ open \in Endings BY DEF Endings
  <1>2. c = [pc |-> "authorize", after |-> after, floor |-> floor, receiver |-> FALSE, pending |-> none,
             replay |-> none, dedup |-> {}, next_live_ordinal |-> 0, ending |-> open, lifecycle |-> FALSE]
    BY DEF Opened
  <1> HIDE DEF none, open
  <1>3. /\ c \in [pc : Opening \cup Serving, after : Nat, floor : Nat, receiver : BOOLEAN, pending : Seq(Nat),
                  replay : Seq(Item), dedup : SUBSET Nat, next_live_ordinal : Nat, ending : Endings,
                  lifecycle : BOOLEAN]
        /\ c.pc = "authorize" /\ c.after = after /\ c.floor = floor
        /\ c.receiver = FALSE /\ c.pending = none /\ c.dedup = {} /\ c.ending = open
        /\ c.lifecycle = FALSE
    BY <1>1, <1>2 DEF Opening
  <1> QED BY <1>3 DEF none, open, Cursors, Endings

\* A client that starts over, at `after`.
Starts(binding, after, top, k) ==
    /\ binding \in {"grpc", "sse"} /\ after \in Nat /\ top \in Nat /\ (binding = "grpc" => after = 0)
    /\ k = [binding |-> binding, numbered |-> TRUE, blind |-> FALSE, moved |-> FALSE, ahead |-> after > top,
            from |-> after, got |-> <<>>]

\* What such a client is.
Fresh(binding, after, top, k) ==
    /\ k \in Clients /\ k.binding = binding /\ k.numbered = TRUE /\ Plain(k)
    /\ k.moved = FALSE /\ (after <= top => k.ahead = FALSE) /\ (after > top => k.ahead = TRUE)
    /\ k.from = after /\ k.got = <<>> /\ HeldBy(k) = after

\* By its fields.
LEMMA StartsFields ==
    ASSUME NEW binding, NEW after, NEW top, NEW k, Starts(binding, after, top, k)
    PROVE  Fresh(binding, after, top, k)
  <1> DEFINE none == <<>>
             ahead == after > top
  <1>1. none \in Seq(Item) /\ binding \in {"grpc", "sse"} /\ after \in Nat /\ ahead \in BOOLEAN
    BY DEF Starts
  <1>1a. (after <= top => ahead = FALSE) /\ (after > top => ahead = TRUE)
    BY DEF Starts
  <1>2. k = [binding |-> binding, numbered |-> TRUE, blind |-> FALSE, moved |-> FALSE, ahead |-> ahead,
             from |-> after, got |-> none]
    BY DEF Starts
  <1> HIDE DEF none, ahead
  <1>3. /\ k \in Clients /\ k.binding = binding /\ k.numbered = TRUE /\ k.blind = FALSE /\ k.moved = FALSE
        /\ k.ahead = ahead /\ k.from = after /\ k.got = none
    BY <1>1, <1>2 DEF Clients
  <1>4. k.got = <<>> /\ Len(k.got) = 0 BY <1>3 DEF none
  <1>5. HeldBy(k) = after
    <2>1. after + 0 = after BY <1>1
    <2> QED BY <1>3, <1>4, <2>1 DEF HeldBy
  <1>6. (after <= top => k.ahead = FALSE) /\ (after > top => k.ahead = TRUE) BY <1>1a, <1>3
  <1> QED BY <1>3, <1>4, <1>5, <1>6 DEF Plain, Fresh

\* Its record is exact: it is empty.
LEMMA StartsInv ==
    ASSUME NEW binding, NEW after, NEW top, NEW U, NEW k, Starts(binding, after, top, k)
    PROVE  ClientInv(k, top, U) /\ Fresh(binding, after, top, k)
  <1>0. Fresh(binding, after, top, k) BY StartsFields
  <1>1. /\ k \in Clients /\ k.binding = binding /\ k.numbered = TRUE /\ Plain(k)
        /\ k.moved = FALSE /\ (after <= top => k.ahead = FALSE) /\ (after > top => k.ahead = TRUE)
        /\ k.from = after /\ k.got = <<>> /\ HeldBy(k) = after
    BY <1>0 DEF Fresh
  <1>1a. after \in Nat /\ top \in Nat /\ binding \in {"grpc", "sse"} /\ (binding = "grpc" => after = 0)
    BY DEF Starts
  <1>2. binding # "sse" => k.ahead = FALSE
    <2>1. binding # "sse" => after <= top BY <1>1a
    <2> QED BY <1>1, <2>1
  <1>3. Ids(k) = {} BY <1>1 DEF Ids
  <1>4. NoGap(k, U) /\ Exact(k) BY <1>1, <1>3 DEF NoGap, Exact
  <1>6. (after > top => Guessed(k)) BY <1>1 DEF Guessed
  <1>7. Reached(k, top)
    <2>1. after <= top \/ after > top BY <1>1a
    <2> QED BY <1>1, <1>6, <2>1 DEF Reached
  <1> QED BY <1>0, <1>1, <1>2, <1>4, <1>7 DEF ClientInv

\* A cursor opened at the client's own position, or at what there is of it.
OpensAt(c, k, top, gone, base) ==
    /\ c.pc = "authorize" /\ c.receiver = FALSE /\ c.pending = <<>> /\ c.dedup = {}
    /\ k.numbered = TRUE /\ c.after = HeldBy(k) /\ c.floor <= c.after
    /\ Plain(k) => c.floor <= top /\ (c.floor < c.after => Guessed(k) \/ gone)

\* Such a cursor has the invariant.
LEMMA OpensInv ==
    ASSUME NEW c, NEW k, NEW pub, NEW top, NEW U, NEW base, NEW gone, OpensAt(c, k, top, gone, base)
    PROVE  PendingInv(c, pub, U) /\ OpeningInv(c, k, pub, top, base, gone)
  <1>1. PendingInv(c, pub, U) BY DEF PendingInv, OpensAt
  <1>2. OpeningInv(c, k, pub, top, base, gone) BY DEF OpeningInv, OpensAt
  <1> QED BY <1>1, <1>2

\* A new connection of a client, which goes on or starts over.
LEMMA OpensKeeps ==
    ASSUME StreamInv, UNCHANGED session, sub' \in Cursors, client' \in Clients, client'.binding # "none",
           ClientInv(client', log.top, Unpublished),
           OpensAt(sub', client', log.top, Gone, log.base),
           sub'.ending = StillOpen, sub'.lifecycle = FALSE
    PROVE  StreamInv'
  <1>1. PendingInv(sub', Pub, Unpublished) /\ OpeningInv(sub', client', Pub, log.top, log.base, Gone)
    BY OpensInv
  <1>2. sub'.pc = "authorize" /\ sub'.pc \notin Serving BY DEF OpensAt, Serving
  <1>3. sub'.ending.kind = "open" BY DEF StillOpen
  <1>4. EndingInv(sub, client)' BY <1>2, <1>3 DEF EndingInv
  <1> QED BY <1>1, <1>2, <1>4, PartsTogether

\* Subscribing on a closed connection.
LEMMA SubscribingClient ==
    ASSUME StreamInv, sub = Away, NEW binding \in {"grpc", "sse"}, NEW after \in Nat,
           Subscribing(binding, after), client.binding \in {"none", binding},
           client.numbered => after = Held, binding = "grpc" /\ ~client.numbered => after = 0
    PROVE  /\ client' \in Clients /\ client'.binding = binding /\ client'.numbered = TRUE
           /\ ClientInv(client', log.top, Unpublished) /\ HeldBy(client') = after
           /\ Plain(client') /\ after > log.top => Guessed(client')
           /\ binding = "grpc" /\ Plain(client') => after <= log.top
  <1>1. /\ SessionInv /\ client \in Clients /\ (client.binding = "none" => client.numbered = FALSE)
        /\ ClientInv(client, log.top, Unpublished) /\ log.top \in Nat
    BY PubFacts DEF StreamInv
  <1>2. client.numbered \in BOOLEAN /\ client.moved \in BOOLEAN BY <1>1 DEF Clients
  <1>3. HeldBy(client) \in Nat BY <1>1, HeldNat
  <1>4. CASE client.numbered
    <2>1. after = HeldBy(client) BY <1>4, HeldIsHeldBy
    <2>2. client.binding = binding BY <1>1, <1>2, <1>4
    <2>3. ~Connected BY DEF Connected, Away
    <2>4. client' = [client EXCEPT !.moved = @ \/ FALSE]
      BY <1>4, <2>3, HeldIsHeldBy, <2>1 DEF Subscribing
    <2>5. client' = client
      BY <1>1, <1>2, <2>4 DEF Clients
    <2>6. Plain(client) /\ after > log.top => Guessed(client)
      BY <1>1, <1>3, <1>4, <2>1 DEF ClientInv, Reached
    <2>7. binding = "grpc" => ~Guessed(client) BY <1>1, <2>2 DEF ClientInv, Guessed
    <2>8. after <= log.top \/ after > log.top BY <1>1
    <2> QED BY <1>1, <1>2, <1>4, <2>1, <2>2, <2>5, <2>6, <2>7, <2>8
  <1>5. CASE ~client.numbered
    <2>3. binding = "grpc" => after = 0 BY <1>5
    <2>2. Starts(binding, after, log.top, client')
      <3>1. log.top \in Nat BY <1>1
      <3> QED BY <1>5, <2>3, <3>1 DEF Subscribing, NewClient, Starts
    <2>4. /\ ClientInv(client', log.top, Unpublished) /\ client' \in Clients /\ client'.binding = binding
          /\ client'.numbered = TRUE
          /\ HeldBy(client') = after /\ Plain(client') /\ (after > log.top => Guessed(client'))
      <3>1. ClientInv(client', log.top, Unpublished) /\ Fresh(binding, after, log.top, client')
        BY <2>2, StartsInv
      <3> QED BY <3>1 DEF Fresh, Guessed
    <2>5. binding = "grpc" => after <= log.top BY <1>1, <2>3
    <2> QED BY <2>4, <2>5
  <1> QED BY <1>4, <1>5

\* sse::subscribe.
LEMMA SubscribeSseKeeps ==
    ASSUME StreamInv, NEW after \in Nat, SubscribeSse(after)
    PROVE  StreamInv'
  <1> DEFINE floor == IF after > HighWater THEN HighWater ELSE after
  <1>1. /\ sub = Away /\ client.binding \in {"none", "sse"} /\ (client.numbered => after = Held)
        /\ Subscribing("sse", after) /\ UNCHANGED session
    BY DEF SubscribeSse
  <1>2. Opened(after, floor, sub') BY DEF SubscribeSse, Cursor, Opened
  <1>3. /\ client' \in Clients /\ client'.binding = "sse" /\ client'.numbered = TRUE
        /\ ClientInv(client', log.top, Unpublished) /\ HeldBy(client') = after
        /\ Plain(client') /\ after > log.top => Guessed(client')
    BY <1>1, SubscribingClient
  <1>4. SessionInv /\ log.top \in Nat /\ cached \in BOOLEAN BY PubFacts DEF StreamInv
  <1>5. HighWater \in Nat /\ HighWater <= log.top /\ (cached => HighWater = log.top)
    BY <1>4 DEF HighWater
  <1>6. floor \in Nat /\ floor <= after /\ floor <= log.top /\ (floor < after => after > HighWater)
    BY <1>4, <1>5
  <1> HIDE DEF floor
  <1>7. ~cached => Gone \/ log.top = 0
    BY <1>4 DEF SessionInv, Gone
  <1>8. ASSUME Plain(client'), floor < after PROVE Guessed(client') \/ Gone
    <2>1. CASE cached BY <1>3, <1>5, <1>6, <1>8, <2>1
    <2>2. CASE log.top = 0
      <3>1. after > log.top BY <1>6, <1>8, <2>2
      <3> QED BY <1>3, <1>8, <3>1
    <2> QED BY <1>7, <2>1, <2>2
  <1>9. /\ sub' \in Cursors /\ sub'.pc = "authorize" /\ sub'.after = after /\ sub'.floor = floor
        /\ sub'.receiver = FALSE /\ sub'.pending = <<>> /\ sub'.dedup = {} /\ sub'.ending = StillOpen
        /\ sub'.lifecycle = FALSE
    BY <1>2, <1>6, OpenedFields, ZenonT(60)
  <1>10. OpensAt(sub', client', log.top, Gone, log.base)
    BY <1>3, <1>6, <1>8, <1>9 DEF OpensAt
  <1>11. client'.binding # "none" BY <1>3
  <1> QED BY <1>1, <1>3, <1>9, <1>10, <1>11, OpensKeeps

\* A subscribe frame that opens a stream.
LEMMA SubscribeGrpcKeeps ==
    ASSUME StreamInv, SubscribeGrpc
    PROVE  StreamInv'
  <1>0. client \in Clients /\ SessionInv BY DEF StreamInv
  <1> DEFINE after == IF client.numbered THEN Held ELSE 0
  <1>1. /\ sub = Away /\ client.binding \in {"none", "grpc"} /\ Subscribing("grpc", after)
        /\ UNCHANGED session /\ Opened(after, after, sub')
    BY DEF SubscribeGrpc, Cursor, Opened
  <1>2. after \in Nat /\ (client.numbered => after = Held) /\ (~client.numbered => after = 0)
    BY <1>0, HeldNat, HeldIsHeldBy
  <1> HIDE DEF after
  <1>3. /\ client' \in Clients /\ client'.binding = "grpc" /\ client'.numbered = TRUE
        /\ ClientInv(client', log.top, Unpublished) /\ HeldBy(client') = after
        /\ Plain(client') => after <= log.top
    BY <1>1, <1>2, SubscribingClient
  <1>4. /\ sub' \in Cursors /\ sub'.pc = "authorize" /\ sub'.after = after /\ sub'.floor = after
        /\ sub'.receiver = FALSE /\ sub'.pending = <<>> /\ sub'.dedup = {} /\ sub'.ending = StillOpen
        /\ sub'.lifecycle = FALSE
    <2>1. after \in Nat BY <1>2
    <2>2. Opened(after, after, sub') BY <1>1
    <2> QED BY <2>1, <2>2, OpenedFields, ZenonT(60)
  <1>5. OpensAt(sub', client', log.top, Gone, log.base)
    BY <1>2, <1>3, <1>4 DEF OpensAt
  <1>6. client'.binding # "none" BY <1>3
  <1> QED BY <1>1, <1>3, <1>4, <1>5, <1>6, OpensKeeps

\* The client and the cursor of bind_live.
Binds(from, k) ==
    /\ from \in Nat
    /\ k = [binding |-> "grpc", numbered |-> FALSE, blind |-> FALSE, moved |-> FALSE, ahead |-> FALSE,
            from |-> from, got |-> <<>>]

Bound(from, k) ==
    /\ k \in Clients /\ k.binding = "grpc" /\ k.numbered = FALSE /\ k.ahead = FALSE
    /\ k.from = from /\ k.got = <<>>

\* The client, by its fields.
LEMMA BindsFields ==
    ASSUME NEW from, NEW k, Binds(from, k)
    PROVE  Bound(from, k)
  <1> DEFINE none == <<>>
  <1>1. none \in Seq(Item) /\ from \in Nat BY DEF Binds
  <1>2. k = [binding |-> "grpc", numbered |-> FALSE, blind |-> FALSE, moved |-> FALSE, ahead |-> FALSE,
             from |-> from, got |-> none]
    BY DEF Binds
  <1> HIDE DEF none
  <1>3. /\ k \in Clients /\ k.binding = "grpc" /\ k.numbered = FALSE /\ k.ahead = FALSE
        /\ k.from = from /\ k.got = none
    BY <1>1, <1>2 DEF Clients
  <1> QED BY <1>3 DEF none, Bound

Attached(c) ==
    /\ c \in Cursors /\ c.pc = "drain" /\ c.receiver = TRUE /\ c.pending = <<>> /\ c.replay = <<>>
    /\ c.dedup = {} /\ c.ending = StillOpen /\ c.lifecycle = FALSE

\* The cursor, by its fields.
LEMMA AttachedFields ==
    Attached(Cursor("drain", 0, TRUE))
  <1> DEFINE none == <<>>
             open == StillOpen
             c == Cursor("drain", 0, TRUE)
  <1>1. none \in Seq(Nat) /\ none \in Seq(Item) /\ open \in Endings BY DEF Endings
  <1>2. c = [pc |-> "drain", after |-> 0, floor |-> 0, receiver |-> TRUE, pending |-> none,
             replay |-> none, dedup |-> {}, next_live_ordinal |-> 0, ending |-> open, lifecycle |-> FALSE]
    BY DEF Cursor
  <1> HIDE DEF none, open, c
  <1>3. /\ c \in [pc : Opening \cup Serving, after : Nat, floor : Nat, receiver : BOOLEAN, pending : Seq(Nat),
                  replay : Seq(Item), dedup : SUBSET Nat, next_live_ordinal : Nat, ending : Endings,
                  lifecycle : BOOLEAN]
        /\ c.pc = "drain" /\ c.receiver = TRUE /\ c.pending = none /\ c.replay = none
        /\ c.dedup = {} /\ c.ending = open /\ c.lifecycle = FALSE
    BY <1>1, <1>2 DEF Serving
  <1> QED BY <1>3 DEF none, open, c, Cursors, Endings, Attached

\* bind_live: the client gets what is published from now on.
LEMMA BindLiveKeeps ==
    ASSUME StreamInv, BindLive
    PROVE  StreamInv'
  <1>1. UNCHANGED session /\ sub' = Cursor("drain", 0, TRUE) BY DEF BindLive
  <1>2. SessionInv BY DEF StreamInv
  <1>3. Contains(op, "publish") <=> HasPublish(op)
    <2>1. DOMAIN op = 1 .. Len(op)
      <3>1. CASE op = <<"announce", "compact", "publish">> BY <3>1
      <3>2. CASE op # <<"announce", "compact", "publish">> BY <1>2, <3>2 DEF SessionInv, Ops
      <3> QED BY <3>1, <3>2
    <2> QED BY <2>1 DEF Contains, HasPublish
  <1>4. Pub = (IF Contains(op, "publish") THEN log.top - 1 ELSE log.top) BY <1>3 DEF Pub
  <1>5. Pub \in Nat /\ log.top \in Nat BY <1>2, PubFacts
  <1>6. Binds(Pub, client')
    BY <1>4, <1>5 DEF BindLive, NewClient, Binds
  <1>7. Bound(Pub, client') BY <1>6, BindsFields
  <1>8. Attached(sub') BY <1>1, AttachedFields
  <1>9. /\ client' \in Clients /\ client'.binding = "grpc" /\ client'.numbered = FALSE
        /\ client'.ahead = FALSE /\ client'.from = Pub /\ client'.got = <<>> /\ Len(client'.got) = 0
    BY <1>7 DEF Bound
  <1>10. /\ sub' \in Cursors /\ sub'.pc = "drain" /\ sub'.receiver = TRUE /\ sub'.pending = <<>>
         /\ sub'.replay = <<>> /\ sub'.dedup = {} /\ sub'.ending = StillOpen /\ sub'.lifecycle = FALSE
    BY <1>8 DEF Attached
  <1>11. ClientInv(client', log.top, Unpublished)
    BY <1>9 DEF ClientInv, NoGap, Exact, Ids
  <1>12. PendingInv(sub', Pub, Unpublished) BY <1>10 DEF PendingInv
  <1>13. ServingInv(sub', client', Pub, log.top, Unpublished)
    <2>1. ReplayInv(sub') BY <1>10 DEF ReplayInv
    <2>2. Covered(sub', client', Pub, Unpublished)
      <3>1. client'.from + 1 .. Pub = {} BY <1>5, <1>9
      <3> QED BY <3>1 DEF Covered
    <2>3. Pub - Len(sub'.pending) = client'.from + Len(client'.got)
      <3>1. Len(sub'.pending) = 0 BY <1>10
      <3>2. Pub - 0 = Pub + 0 BY <1>5
      <3> QED BY <1>9, <3>1, <3>2
    <2> QED BY <1>9, <1>10, <2>1, <2>2, <2>3 DEF ServingInv
  <1>14. sub'.ending.kind = "open" BY <1>10 DEF StillOpen
  <1>15. EndingInv(sub, client)' BY <1>9, <1>10, <1>14 DEF EndingInv
  <1>16. sub'.pc \notin Opening BY <1>10 DEF Opening
  <1>17. client'.binding # "none" /\ client'.binding # "sse" BY <1>9
  <1> QED BY <1>1, <1>9, <1>10, <1>11, <1>12, <1>13, <1>15, <1>16, <1>17, PartsTogether

\* A subscribe frame moves the stream.
Reopens(c, after, c2) == c2 = [c EXCEPT !.pc = "authorize", !.after = after, !.floor = after]

\* The fields behind it.
LEMMA ReopensFields ==
    ASSUME NEW c \in Cursors, NEW after \in Nat, NEW c2, Reopens(c, after, c2)
    PROVE  /\ c2 \in Cursors /\ SameQueues(c, c2) /\ c2.pc = "authorize" /\ c2.after = after
           /\ c2.floor = after /\ c2.ending = c.ending /\ c2.lifecycle = c.lifecycle
  BY DEF Reopens, Cursors, Opening, SameQueues

Moves(k, k2) == k2 = [k EXCEPT !.moved = TRUE]

\* The client moved.
LEMMA MovesFields ==
    ASSUME NEW k \in Clients, NEW k2, Moves(k, k2)
    PROVE  /\ k2 \in Clients /\ k2.binding = k.binding /\ k2.numbered = k.numbered /\ k2.moved = TRUE
           /\ k2.ahead = k.ahead
  BY DEF Moves, Clients

\* A subscribe frame on a bound stream.
LEMMA SubscribeFrameKeeps ==
    ASSUME StreamInv, NEW after \in Nat, SubscribeFrame(after)
    PROVE  StreamInv'
  <1>1. /\ sub.pc = "stream" /\ client.binding = "grpc" /\ (after = 0 \/ (client.numbered /\ after = Held))
        /\ Subscribing("grpc", after) /\ UNCHANGED session /\ Reopens(sub, after, sub')
    BY DEF SubscribeFrame, Reopens
  <1>2. Connected /\ sub.pc \in Serving BY <1>1 DEF Connected, Serving
  <1>3. sub \in Cursors /\ PendingInv(sub, Pub, Unpublished) /\ EndingInv(sub, client)
    BY <1>2, ConnectedParts
  <1>4. /\ sub' \in Cursors /\ SameQueues(sub, sub') /\ sub'.pc = "authorize" /\ sub'.after = after
        /\ sub'.floor = after /\ sub'.ending = sub.ending /\ sub'.lifecycle = sub.lifecycle
    BY <1>1, <1>3, ReopensFields
  <1>5. /\ client \in Clients /\ ClientInv(client, log.top, Unpublished) /\ log.top \in Nat
        /\ op' = op /\ state' = state /\ cached' = cached /\ log' = log
    BY <1>1, SessionStays
  <1>6. client.numbered \in BOOLEAN BY <1>5 DEF Clients
  <1>7. PendingInv(sub', Pub, Unpublished)
    <2>1. sub'.receiver # FALSE BY <1>1, <1>3, <1>4 DEF PendingInv, SameQueues
    <2> QED BY <1>3, <1>4, <2>1 DEF PendingInv, SameQueues
  <1>8. /\ client' \in Clients /\ client'.binding = "grpc" /\ client'.numbered = TRUE
        /\ ClientInv(client', log.top, Unpublished)
        /\ client'.moved = TRUE \/ (after = 0 /\ HeldBy(client') = 0)
    <2>1. CASE client.numbered /\ after = Held
      <3>0. (client.moved \/ Connected) = TRUE BY <1>2
      <3>1. Moves(client, client') BY <1>1, <2>1, <3>0 DEF Subscribing, Moves
      <3>2. /\ client' \in Clients /\ client'.binding = client.binding /\ client'.numbered = client.numbered
            /\ client'.moved = TRUE /\ client'.ahead = client.ahead
        BY <1>5, <3>1, MovesFields
      <3>3. ClientInv(client', log.top, Unpublished)
        BY <1>1, <1>5, <3>2 DEF ClientInv, Plain
      <3> QED BY <1>1, <1>6, <2>1, <3>2, <3>3
    <2>2. CASE ~(client.numbered /\ after = Held)
      <3>1. after = 0 BY <1>1, <2>2
      <3>2. Starts("grpc", after, log.top, client')
        BY <1>1, <1>5, <2>2, <3>1 DEF Subscribing, NewClient, Starts
      <3>3. ClientInv(client', log.top, Unpublished) /\ Fresh("grpc", after, log.top, client')
        BY <3>2, StartsInv
      <3> QED BY <3>1, <3>3 DEF Fresh
    <2> QED BY <2>1, <2>2
  <1>9. OpeningInv(sub', client', Pub, log.top, log.base, Gone)
    <2>1. CASE client'.moved = TRUE
      BY <1>4, <1>8, <2>1 DEF OpeningInv, Plain
    <2>2. CASE after = 0 /\ HeldBy(client') = 0
      <3>1. \A i \in DOMAIN sub'.pending : 0 < sub'.pending[i]
        BY <1>7 DEF PendingInv
      <3>2. 0 <= log.top BY <1>5
      <3> QED BY <1>4, <1>8, <2>2, <3>1, <3>2 DEF OpeningInv
    <2> QED BY <1>8, <2>1, <2>2
  <1>10. EndingInv(sub, client)' BY <1>1, <1>3, <1>4, <1>5, <1>8 DEF EndingInv
  <1>11. sub'.pc \notin Serving /\ client'.binding # "none" BY <1>4, <1>8 DEF Serving
  <1> QED BY <1>1, <1>4, <1>7, <1>8, <1>9, <1>10, <1>11, PartsTogether

-----------------------------------------------------------------------------
(* The theorems.                                                           *)

\* Every step keeps the invariant.
LEMMA StepKeeps ==
    ASSUME StreamInv, [Next]_vars
    PROVE  StreamInv'
  <1>1. CASE UNCHANGED vars
    <2>1. UNCHANGED session /\ sub' = sub /\ client' = client BY <1>1 DEF vars
    <2>2. CASE ~Connected
      BY <2>1, <2>2, ConnectedCursor, OverKeeps
    <2>3. CASE Connected
      <3>1. /\ client \in Clients /\ ClientInv(client, log.top, Unpublished)
            /\ op' = op /\ state' = state /\ cached' = cached /\ log' = log
        BY <2>1, SessionStays
      <3>2. EndingInv(sub, client)' BY <2>1, <2>3, <3>1, ConnectedParts DEF EndingInv
      <3> QED BY <2>1, <2>3, <3>1, <3>2, ConnectedParts, PartsTogether
    <2> QED BY <2>2, <2>3
  <1>2. CASE Accept \/ AcceptResolving \/ End \/ Announce \/ Compact \/ Publish \/ Drop
    BY <1>2, AcceptKeeps, AcceptResolvingKeeps, EndKeeps, AnnounceKeeps, CompactKeeps, PublishKeeps, DropKeeps
  <1>3. CASE Evict \/ ForgetLog \/ Restart
    BY <1>3, ForgettingKeeps, RestartKeeps
  <1>4. CASE \E after \in 0 .. MaxEnvelopes + 1 : SubscribeSse(after) \/ SubscribeFrame(after)
    <2>1. PICK after \in 0 .. MaxEnvelopes + 1 : SubscribeSse(after) \/ SubscribeFrame(after) BY <1>4
    <2>2. after \in Nat BY StreamConstants
    <2> QED BY <2>1, <2>2, SubscribeSseKeeps, SubscribeFrameKeeps
  <1>5. CASE SubscribeGrpc \/ BindLive
    BY <1>5, SubscribeGrpcKeeps, BindLiveKeeps
  <1>6. CASE Authorize \/ AttachReceiver \/ LoadSnapshot \/ HistoryUnavailable \/ Observe
    BY <1>6, AuthorizeKeeps, AttachReceiverKeeps, LoadSnapshotKeeps, HistoryUnavailableKeeps, ObserveKeeps
  <1>7. CASE DeliverReplay \/ SkipReplayed \/ DeliverLive \/ Drained \/ Lifecycle
    BY <1>7, DeliverReplayKeeps, SkipReplayedKeeps, DeliverLiveKeeps, DrainedKeeps, LifecycleKeeps
  <1>8. CASE Lagged \/ EndResolved \/ EndNotOpen \/ Disconnect
    BY <1>8, OverKeepsAll
  <1> QED BY <1>1, <1>2, <1>3, <1>4, <1>5, <1>6, <1>7, <1>8 DEF Next, Subscriber

\* The inductive invariant holds in every reachable state of the log, the bus,
\* the cursor and the client (SubscriptionCursor, src/server.rs).
THEOREM StreamInvariant ==
    Spec => []StreamInv
  <1>1. Init => StreamInv BY InitInv
  <1>2. StreamInv /\ [Next]_vars => StreamInv' BY StepKeeps
  <1> QED BY <1>1, <1>2, PTL DEF Spec

\* For any number of envelopes, connections, restarts and dropped handlers, a
\* client that resumes from the position it holds misses no published envelope,
\* and with everything published it gets each one once, in order, under its own
\* ordinal (SubscriptionCursor::number and load_snapshot, src/server.rs).
THEOREM ResumedTheorem ==
    Spec => []ResumedExactly
  <1>1. StreamInv => ResumedExactly
    <2> SUFFICES ASSUME StreamInv PROVE ResumedExactly OBVIOUS
    <2>1. client \in Clients /\ ClientInv(client, log.top, Unpublished) BY DEF StreamInv
    <2>2. /\ client.blind \in BOOLEAN /\ client.moved \in BOOLEAN /\ client.ahead \in BOOLEAN
          /\ client.numbered \in BOOLEAN
      BY <2>1 DEF Clients
    <2>3. (~client.blind /\ ~client.moved) => Plain(client) BY <2>2 DEF Plain
    <2>4. NothingSkipped
      <3>1. (~client.blind /\ ~client.moved /\ ~client.ahead) => NoGap(client, Unpublished)
        BY <2>1, <2>2, <2>3 DEF ClientInv
      <3> QED BY <3>1 DEF NothingSkipped, NoGap, Ids
    <2>5. PublishedExactly
      <3>1. Unpublished = {} /\ ~client.blind /\ ~client.moved => Exact(client)
        BY <2>1, <2>3 DEF ClientInv
      <3> QED BY <2>2, <3>1 DEF PublishedExactly, DeliveredExactly, Exact
    <2> QED BY <2>4, <2>5 DEF ResumedExactly
  <1> QED BY <1>1, StreamInvariant, PTL

\* Only two steps end a connection as complete.
LEMMA OnlyEndings ==
    ASSUME StreamInv, [Next]_vars, sub' # sub, sub' \in {Ended("resolved"), Ended("not_open")}
    PROVE  EndResolved \/ EndNotOpen
  <1>1. sub'.pc = "ended" /\ sub' # Ended("unknown") /\ sub' # Ended("unavailable")
    <2>1. sub'.pc = "ended" /\ sub'.why \in {"resolved", "not_open"} BY DEF Ended
    <2>2. Ended("unknown").why = "unknown" /\ Ended("unavailable").why = "unavailable" BY DEF Ended
    <2> QED BY <2>1, <2>2
  <1>2. sub' \notin Cursors
    <2>1. \A c \in Cursors : c.pc # "ended" BY CursorFields DEF Opening, Serving
    <2> QED BY <1>1, <2>1
  <1>3. ~Connected => sub.pc \in {"away", "ended"} BY ConnectedCursor
  <1>4. Connected => sub \in Cursors BY ConnectedCursor
  <1>5. sub' # Away BY <1>1 DEF Away
  <1>6. StreamInv' BY StepKeeps
  <1>7. CASE UNCHANGED vars BY <1>7 DEF vars
  <1>8. CASE Accept \/ AcceptResolving \/ End \/ Compact \/ Drop \/ Evict \/ ForgetLog
    BY <1>8 DEF Accept, AcceptResolving, End, Compact, Drop, Evict, ForgetLog
  <1>9. CASE Announce
    <2>1. Connected /\ Notices(sub, sub') BY <1>9 DEF Announce, Notices
    <2> QED BY <1>2, <1>4, <2>1, NoticesFields
  <1>10. CASE Publish
    <2>1. Connected /\ sub.receiver /\ sub' = [sub EXCEPT !.pending = Append(@, log.top)]
      BY <1>10 DEF Publish
    <2>2. sub \in Cursors BY <1>4, <2>1
    <2>3. sub'.pc = sub.pc BY <2>1, <2>2 DEF Cursors
    <2> QED BY <1>1, <2>1, <2>3 DEF Connected
  <1>11. CASE Restart BY <1>5, <1>11 DEF Restart
  <1>12. CASE \E after \in 0 .. MaxEnvelopes + 1 : SubscribeSse(after) \/ SubscribeFrame(after)
    <2>1. PICK after \in 0 .. MaxEnvelopes + 1 : SubscribeSse(after) \/ SubscribeFrame(after) BY <1>12
    <2>2. CASE SubscribeSse(after)
      <3>1. sub' = [Cursor("authorize", after, FALSE)
                      EXCEPT !.floor = IF after > HighWater THEN HighWater ELSE after]
        BY <2>2 DEF SubscribeSse
      <3>2. sub'.pc = "authorize" BY <3>1 DEF Cursor
      <3> QED BY <1>1, <3>2
    <2>3. CASE SubscribeFrame(after)
      <3>1. sub.pc = "stream" /\ Reopens(sub, after, sub') BY <2>3 DEF SubscribeFrame, Reopens
      <3>2. sub \in Cursors BY <1>4, <3>1 DEF Connected
      <3>3. after \in Nat BY StreamConstants
      <3> QED BY <1>2, <3>1, <3>2, <3>3, ReopensFields
    <2> QED BY <2>1, <2>2, <2>3
  <1>13. CASE SubscribeGrpc \/ BindLive
    <2>1. sub'.pc \in {"authorize", "drain"} BY <1>13 DEF SubscribeGrpc, BindLive, Cursor
    <2> QED BY <1>1, <2>1
  <1>14. CASE Authorize
    <2>1. sub.pc = "authorize" /\ AtPc(sub, "receiver", sub') BY <1>1, <1>14 DEF Authorize, AtPc
    <2>2. sub \in Cursors /\ "receiver" \in Opening \cup Serving BY <1>4, <2>1 DEF Connected, Opening
    <2> QED BY <1>2, <2>1, <2>2, AtPcFields
  <1>15. CASE AttachReceiver
    <2>1. sub.pc = "receiver" /\ Attaches(sub, sub') BY <1>15 DEF AttachReceiver, Attaches
    <2>2. sub \in Cursors BY <1>4, <2>1 DEF Connected
    <2> QED BY <1>2, <2>1, <2>2, AttachesFields
  <1>16. CASE HistoryUnavailable
    <2>1. sub.pc = "snapshot" /\ Retries(sub, sub') BY <1>1, <1>16 DEF HistoryUnavailable, Retries
    <2>2. sub \in Cursors BY <1>4, <2>1 DEF Connected
    <2> QED BY <1>2, <2>1, <2>2, RetriesFields
  <1>17. CASE LoadSnapshot \/ Observe \/ Drained \/ Lifecycle \/ DeliverReplay \/ SkipReplayed \/ DeliverLive
    <2>1. Connected /\ sub \in Cursors
      BY <1>4, <1>17 DEF LoadSnapshot, Observe, Drained, Lifecycle, DeliverReplay, SkipReplayed, DeliverLive,
                         LiveReady, Streaming, Connected
    <2>3. sub'.pc \in {"observe", "drain", "stream", sub.pc}
      <3>1. CASE LoadSnapshot
        <4>1. PICK r, n : Loads(sub, IF client.binding = "sse" THEN "observe" ELSE "drain", r, n, sub')
          BY <3>1 DEF LoadSnapshot, Loads
        <4> QED BY <2>1, <4>1 DEF Loads, Cursors
      <3>2. CASE Observe
        <4>1. PICK e : Observes(sub, e, sub') BY <3>2 DEF Observe, Observes
        <4> QED BY <2>1, <4>1 DEF Observes, Cursors
      <3>3. CASE Drained BY <2>1, <3>3 DEF Drained, Cursors
      <3>4. CASE Lifecycle BY <2>1, <3>4 DEF Lifecycle, Cursors
      <3>5. CASE DeliverReplay
        <4>1. Replays(sub, sub') BY <3>5 DEF DeliverReplay, Replays
        <4> QED BY <2>1, <4>1 DEF Replays, Cursors
      <3>6. CASE SkipReplayed
        <4>1. Skips(sub, sub') BY <3>6 DEF SkipReplayed, Skips
        <4> QED BY <2>1, <4>1 DEF Skips, Cursors
      <3>7. CASE DeliverLive
        <4>1. Lives(sub, sub') BY <3>7 DEF DeliverLive, Lives
        <4> QED BY <2>1, <4>1 DEF Lives, Cursors
      <3> QED BY <1>17, <3>1, <3>2, <3>3, <3>4, <3>5, <3>6, <3>7
    <2> QED BY <1>1, <2>1, <2>3 DEF Connected
  <1>18. CASE Lagged \/ Disconnect BY <1>5, <1>18 DEF Lagged, Disconnect
  <1> QED BY <1>7, <1>8, <1>9, <1>10, <1>11, <1>12, <1>13, <1>14, <1>15, <1>16, <1>17, <1>18
          DEF Next, Subscriber

\* Both have delivered everything: a resolved session up to the ordinal it was
\* observed at, a closed one up to what the drained receiver brought.
LEMMA EndComplete ==
    ASSUME StreamInv, EndResolved \/ EndNotOpen, cached, Unpublished = {}
    PROVE  Held >= log.top
  <1>1. Connected /\ sub.pc \in Serving
    BY DEF EndResolved, EndNotOpen, Streaming, Connected, Serving
  <1>2. /\ sub \in Cursors /\ ServingInv(sub, client, Pub, log.top, Unpublished) /\ EndingInv(sub, client)
        /\ client.binding = "sse" => EventsInv(sub, client, Pub, log.top, Unpublished, cached)
    BY <1>1, ConnectedParts
  <1>3. SessionInv /\ client \in Clients BY DEF StreamInv
  <1>4. log.top \in Nat /\ Held \in Nat /\ Held = HeldBy(client) BY <1>3, PubFacts, HeldNat, HeldIsHeldBy
  <1>5. CASE EndResolved
    <2>1. sub.ending.kind = "resolved" /\ Held >= sub.ending.last_ordinal BY <1>5 DEF EndResolved, Complete
    <2>2. sub.ending.last_ordinal = log.top BY <1>2, <2>1 DEF EndingInv
    <2> QED BY <2>1, <2>2
  <1>6. CASE EndNotOpen
    <2>1. sub.ending = Fatal /\ sub.replay = <<>> /\ sub.pending = <<>> BY <1>6 DEF EndNotOpen
    <2>2. sub.ending.kind # "open" /\ sub.ending # StillOpen BY <2>1 DEF Fatal, StillOpen
    <2>3. op = <<>> /\ client.binding = "sse" BY <1>2, <2>2 DEF EndingInv
    <2>4. Pub = log.top BY <1>3, <2>3, PubFacts, OpKinds
    <2>5. Len(sub.replay) = 0 /\ Len(sub.pending) = 0 BY <2>1
    <2>6. Pub - Len(sub.pending) < sub.next_live_ordinal /\ HeldBy(client) >= Behind(sub)
      BY <1>2, <2>3 DEF EventsInv
    <2>7. sub.next_live_ordinal \in Nat BY <1>2, CursorFields
    <2>8. log.top < sub.next_live_ordinal BY <1>4, <2>4, <2>5, <2>6
    <2>9. Behind(sub) = sub.next_live_ordinal - 1 BY <2>5, <2>7 DEF Behind
    <2> QED BY <1>4, <2>6, <2>7, <2>8, <2>9
  <1> QED BY <1>5, <1>6

\* A stream that ends as that of a resolved or of a closed session has delivered
\* everything the session accepted (subscribe_events, src/http/sse.rs).
THEOREM EndedTheorem ==
    Spec => EndedIsComplete
  <1>1. StreamInv /\ [Next]_vars =>
          [(sub' # sub /\ sub' \in {Ended("resolved"), Ended("not_open")} /\ cached /\ Unpublished = {})
             => Held >= log.top]_vars
    BY OnlyEndings, EndComplete
  <1> QED BY <1>1, StreamInvariant, PTL DEF Spec, EndedIsComplete
=============================================================================
