--------------------------- MODULE RegistryProofs ---------------------------
(***************************************************************************)
(* Proofs about the sessions a runtime holds (Registry): concurrent starts *)
(* of any number of ids by any number of senders, their rollbacks, the     *)
(* messages that wait for a session's mutex meanwhile, and the passes that *)
(* expire, evict and delete sessions.                                      *)
(*                                                                         *)
(* The passes check a session and remove an id, in two steps.  Eviction,   *)
(* and the collector where it looks at the session in memory, are safe     *)
(* beside any starts: an id that maps to an ended session cannot be taken. *)
(* An evicted session is judged by its snapshot, and its id can: the first *)
(* start that does so before the delete ends what is proved (maint.raced). *)
(*                                                                         *)
(* The receipts of an id need an invariant of their own: whatever anybody  *)
(* holds of them is one, and nobody can ask again once the copy it came    *)
(* from is gone (CopiesAgree, CopiesBacked).                               *)
(***************************************************************************)
EXTENDS Registry, FiniteSetTheorems, SequenceTheorems, TLAPS

\* The stages of a start: it holds the reservation, its SessionStart is in the
\* log, or it was rolled back.  Every other start made no session.
Reserved(s) == starts[s].pc \in {"store", "rollback"}
Committed(s) == starts[s].pc = "announce" \/ (starts[s].pc = "done" /\ starts[s].reply = "accepted")
RolledBack(s) == starts[s].pc = "done" /\ starts[s].reply = "storage_failed"
Born(s) == Reserved(s) \/ Committed(s) \/ RolledBack(s)

Ended(s) == sessions[s].state \in Terminal
\* A session of the id was accepted and has ended.
Over(i) == \E s \in Starts : IdOf(s) = i /\ Committed(s) /\ Ended(s)
Logged(i, s) == \E k \in DOMAIN disk[i].log : disk[i].log[k] = s

MaybeStart == Starts \cup {None}

SessionRecords ==
    [state : {"Open", "Suspended", "Resolved", "Expired"}, held : BOOLEAN, lapsed : BOOLEAN,
     old : BOOLEAN, paused : BOOLEAN]

DiskRecords ==
    [dir : BOOLEAN, log : Seq(Starts \cup Terminal), snap : MaybeStart,
     state : {None, "Open", "Resolved", "Expired"}, receipt : Nat]

\* A start is answered as its handler ends.
StartRecords ==
    {r \in [pc : {"check", "existing", "reserve", "store", "rollback", "announce", "done"},
            handle : MaybeStart,
            reply : {None, "duplicate", "exists", "rate_limited", "storage_failed", "accepted"}] :
        r.pc # "done" => r.reply = None}

MaintRecords ==
    [pc : {"idle", "cleanup", "scan", "receipts", "gc", "gc_lock", "gc_delete", "gc_forget"},
     todo : SUBSET (Starts \cup Ids), picked : SUBSET Ids, stale : SUBSET Starts,
     handle : MaybeStart, raced : BOOLEAN]

IssuerRecords ==
    [stripe : [Ids -> Readers \cup {None, "gc"}], cache : [Ids -> Nat], unpersisted : [Ids -> Nat],
     built : Nat]

RegistryShape ==
    /\ map \in [Ids -> MaybeStart]
    /\ sessions \in [Starts -> SessionRecords]
    /\ disk \in [Ids -> DiskRecords]
    /\ starts \in [Starts -> StartRecords]
    /\ message \in [pc : {"idle", "apply"}, handle : MaybeStart]
    /\ maint \in MaintRecords
    /\ issuer \in IssuerRecords

\* A session's mutex is held by its own start alone, an open or suspended
\* session is the one its id maps to, only a session that was made has ended,
\* and only one that has ended reaches the retention age.
LifeInv ==
    \A s \in Starts :
        /\ sessions[s].held <=> Reserved(s)
        /\ Reserved(s) => sessions[s].state = "Open"
        /\ RolledBack(s) => Ended(s)
        /\ Born(s) /\ ~Ended(s) => map[IdOf(s)] = s
        /\ sessions[s].state = "Suspended" => sessions[s].paused
        /\ Ended(s) => Born(s)
        /\ sessions[s].old => Ended(s)

\* What an id maps to was started with that id and not rolled back.
MapInv ==
    \A i \in Ids : map[i] # None =>
        IdOf(map[i]) = i /\ Born(map[i]) /\ ~RolledBack(map[i])

\* A handler that waits for a session's mutex waits for one that was made.
MessageInv == message.pc = "apply" => message.handle \in Starts /\ Born(message.handle)

\* A log begins with a SessionStart, its snapshot is of a session it holds,
\* and it holds every session that has not ended.
DiskInv ==
    \A i \in Ids :
        /\ disk[i].log # <<>> => disk[i].log[1] \in Starts
        /\ \A s \in Starts : disk[i].snap = s => IdOf(s) = i /\ Committed(s) /\ Logged(i, s)
        /\ \A s \in Starts : IdOf(s) = i /\ Committed(s) /\ ~Ended(s) => Logged(i, s)

\* An id may be dropped: a session of it is over, and it maps to no other.
Droppable(i) == Over(i) /\ (map[i] # None => Ended(map[i]))

\* What the passes have picked may be dropped, and a handle they are about to
\* look at, if it is past the retention age, is the one its id maps to.
MaintInv ==
    /\ maint.pc \in {"cleanup", "scan"} => \A s \in maint.todo : s \in Starts /\ Born(s)
    /\ \A s \in maint.stale : sessions[s].old
    /\ maint.pc = "scan" => \A s \in maint.todo \cap maint.stale : map[IdOf(s)] = s
    /\ maint.pc = "gc_lock" =>
        /\ maint.handle \in Starts /\ Born(maint.handle)
        /\ maint.handle \in maint.stale => map[IdOf(maint.handle)] = maint.handle
    /\ maint.pc \in {"idle", "cleanup", "receipts", "gc", "gc_lock"} => maint.picked = {}
    /\ \A i \in maint.picked : Droppable(i)

RegistryInv ==
    /\ RegistryShape /\ LifeInv /\ MapInv /\ MessageInv /\ DiskInv /\ MaintInv /\ OpenBounded

-----------------------------------------------------------------------------
(* Lemmas.                                                                 *)

\* The ids of a sender's open sessions.
OpenIds(s) ==
    {i \in Resident :
        /\ StartOf[map[i]].sender = StartOf[s].sender
        /\ sessions[map[i]].state = "Open"
        /\ ~sessions[map[i]].lapsed /\ ~sessions[map[i]].paused}

\* Each is one of finitely many ids.
LEMMA OpenIdsFinite ==
    ASSUME NEW s
    PROVE  IsFiniteSet(OpenIds(s)) /\ Cardinality(OpenIds(s)) \in Nat
BY RegistryConstants, FS_Subset, FS_CardinalityType DEF OpenIds, Resident

\* A step that opens nothing keeps the senders within their limit.
LEMMA OpenKept ==
    ASSUME OpenBounded, \A s \in Starts : OpenIds(s)' \subseteq OpenIds(s)
    PROVE  OpenBounded'
<1> SUFFICES ASSUME NEW s \in Starts PROVE Cardinality(OpenIds(s)') <= MaxOpen
  BY DEF OpenBounded, OpenIds
<1>1. Cardinality(OpenIds(s)) <= MaxOpen
  BY DEF OpenBounded, OpenIds
<1>2. IsFiniteSet(OpenIds(s)) /\ Cardinality(OpenIds(s)) \in Nat
  BY OpenIdsFinite
<1>3. OpenIds(s)' \in SUBSET OpenIds(s)
  OBVIOUS
<1>4. /\ Cardinality(OpenIds(s)') <= Cardinality(OpenIds(s))
      /\ Cardinality(OpenIds(s)') \in Nat
  BY <1>2, <1>3, FS_Subset, FS_CardinalityType
<1>5. MaxOpen \in Nat
  BY RegistryConstants
<1> QED
  BY <1>1, <1>2, <1>4, <1>5

\* An appended log keeps its first entry and everything it holds.
LEMMA Appended ==
    ASSUME NEW S, NEW log \in Seq(S), NEW e \in S
    PROVE  /\ Append(log, e) \in Seq(S) /\ Append(log, e) # <<>>
           /\ Append(log, e)[1] = (IF log = <<>> THEN e ELSE log[1])
           /\ \E k \in DOMAIN Append(log, e) : Append(log, e)[k] = e
           /\ \A k \in DOMAIN log : k \in DOMAIN Append(log, e) /\ Append(log, e)[k] = log[k]
<1>1. Append(log, e) \in Seq(S) /\ Append(log, e) # <<>>
  BY SMTT(30)
<1>2. Append(log, e)[1] = (IF log = <<>> THEN e ELSE log[1])
  OBVIOUS
<1>3. Len(log) + 1 \in DOMAIN Append(log, e) /\ Append(log, e)[Len(log) + 1] = e
  OBVIOUS
<1>4. \A k \in DOMAIN log : k \in DOMAIN Append(log, e) /\ Append(log, e)[k] = log[k]
  OBVIOUS
<1> QED
  BY <1>1, <1>2, <1>3, <1>4

\* The registry begins empty.
LEMMA RegistryBegins == Init => RegistryInv
<1> SUFFICES ASSUME Init PROVE RegistryInv
  OBVIOUS
<1>1. /\ \A i \in Ids : map[i] = None
      /\ \A s \in Starts : ~Born(s) /\ starts[s] \in StartRecords
      /\ starts \in [Starts -> StartRecords]
      /\ message = [pc |-> "idle", handle |-> None]
  BY DEF Init, Born, Reserved, Committed, RolledBack, StartRecords, MaybeStart, None
<1>2. RegistryShape
  BY <1>1, RegistryConstants
     DEF Init, RegistryShape, SessionRecords, NewSession, DiskRecords, Absent, MaintRecords,
         MaybeStart, NoReceipt, None, IssuerRecords
<1>3. LifeInv
  BY <1>1 DEF Init, LifeInv, NewSession, Born, Ended, Terminal
<1>4. MapInv /\ MessageInv /\ MaintInv
  BY <1>1 DEF Init, MapInv, MessageInv, MaintInv
<1>5. DiskInv
  BY <1>1, RegistryConstants DEF Init, DiskInv, Absent, Born, None
<1>6. OpenBounded
  <2> SUFFICES ASSUME NEW s \in Starts PROVE Cardinality(OpenIds(s)) <= MaxOpen
    BY DEF OpenBounded, OpenIds
  <2>1. OpenIds(s) = {}
    BY <1>1 DEF OpenIds, Resident
  <2> QED
    BY <2>1, FS_EmptySet, RegistryConstants
<1> QED
  BY <1>2, <1>3, <1>4, <1>5, <1>6 DEF RegistryInv

\* A step of the start handlers that makes no session and rolls none back.
LEMMA StartsOnly ==
    ASSUME RegistryInv, UNCHANGED <<map, sessions, disk, message, maint, issuer>>,
           starts' \in [Starts -> StartRecords],
           \A t \in Starts :
               /\ Reserved(t)' <=> Reserved(t)
               /\ Committed(t)' <=> Committed(t)
               /\ RolledBack(t)' <=> RolledBack(t)
    PROVE  RegistryInv'
<1>1. RegistryShape'
  BY DEF RegistryInv, RegistryShape
<1>2. \A t \in Starts : Born(t)' <=> Born(t)
  BY DEF Born
<1>3. \A i : Over(i) => Over(i)'
  BY DEF Over, Ended
<1>4. LifeInv'
  BY <1>2, <1>3 DEF RegistryInv, LifeInv, Ended
<1>5. MapInv' /\ MessageInv'
  BY <1>2 DEF RegistryInv, RegistryShape, MapInv, MessageInv, MaybeStart
<1>6. DiskInv'
  BY DEF RegistryInv, RegistryShape, DiskInv, DiskRecords, MaybeStart, Logged, Ended
<1>7. MaintInv'
  BY <1>2, <1>3 DEF RegistryInv, MaintInv, Droppable, Ended
<1>8. OpenBounded'
  BY DEF RegistryInv, OpenBounded, Resident
<1> QED
  BY <1>1, <1>4, <1>5, <1>6, <1>7, <1>8 DEF RegistryInv

\* The checks before a reservation and the event behind the commit.
LEMMA StartWalks ==
    ASSUME RegistryInv, NEW s \in Starts,
           StartCheck(s) \/ StartExisting(s) \/ StartAnnounce(s)
    PROVE  RegistryInv'
<1>1. UNCHANGED <<map, sessions, disk, message, maint, issuer>>
  BY DEF StartCheck, StartExisting, StartAnnounce
<1>2. IdOf(s) \in Ids /\ map[IdOf(s)] \in MaybeStart
  BY RegistryConstants DEF RegistryInv, RegistryShape, IdOf
<1>3. starts' \in [Starts -> StartRecords]
  BY <1>2 DEF StartCheck, StartExisting, StartAnnounce, Reply, RegistryInv, RegistryShape,
              StartRecords, MaybeStart, None
<1>4. \A t \in Starts :
        /\ Reserved(t)' <=> Reserved(t)
        /\ Committed(t)' <=> Committed(t)
        /\ RolledBack(t)' <=> RolledBack(t)
  BY DEF StartCheck, StartExisting, StartAnnounce, Reply, RegistryInv, RegistryShape,
         StartRecords, Reserved, Committed, RolledBack
<1> QED
  BY <1>1, <1>3, <1>4, StartsOnly

\* A handler that is not yet answered moves on.
LEMMA HandlerMoves ==
    ASSUME RegistryInv, NEW s \in Starts, starts[s].pc # "done",
           NEW p \in {"store", "rollback", "announce"},
           starts' = [starts EXCEPT ![s].pc = p]
    PROVE  /\ starts' \in [Starts -> StartRecords] /\ starts'[s].pc = p
           /\ \A t \in Starts \ {s} : starts'[t] = starts[t]
<1> DEFINE new == [starts[s] EXCEPT !.pc = p]
<1>1. starts \in [Starts -> StartRecords]
  BY DEF RegistryInv, RegistryShape
<1>2. new \in StartRecords /\ new.pc = p
  <2>1. starts[s] \in StartRecords
    BY <1>1
  <2> QED
    BY <2>1 DEF StartRecords
<1>3. starts' = [starts EXCEPT ![s] = new]
  OBVIOUS
<1> HIDE DEF new
<1> QED
  BY <1>1, <1>2, <1>3

\* The reservation and the count of the sender's sessions are one step.
LEMMA StartReserveStep ==
    ASSUME RegistryInv, NEW s \in Starts, StartReserve(s), ~maint'.raced
    PROVE  RegistryInv'
<1>1. UNCHANGED <<disk, message, maint, issuer>> /\ starts[s].pc = "reserve"
  <2>1. maint' = maint \/ maint' = [maint EXCEPT !.raced = @ \/ IdOf(s) \in maint.picked]
    BY DEF StartReserve
  <2>2. maint' = maint
    BY <2>1 DEF RegistryInv, RegistryShape, MaintRecords
  <2> QED
    BY <2>2 DEF StartReserve
<1>2. IdOf(s) \in Ids
  BY RegistryConstants DEF IdOf
<1>3. CASE UNCHANGED <<map, sessions>> /\ (Reply(s, "exists") \/ Reply(s, "rate_limited"))
  <2>1. starts' \in [Starts -> StartRecords]
    BY <1>3 DEF Reply, RegistryInv, RegistryShape, StartRecords, MaybeStart, None
  <2>2. \A t \in Starts :
          /\ Reserved(t)' <=> Reserved(t)
          /\ Committed(t)' <=> Committed(t)
          /\ RolledBack(t)' <=> RolledBack(t)
    BY <1>1, <1>3 DEF Reply, RegistryInv, RegistryShape, StartRecords, Reserved, Committed,
                      RolledBack
  <2> QED
    BY <1>1, <1>3, <2>1, <2>2, StartsOnly
<1>4. CASE /\ map[IdOf(s)] = None /\ ~OverLimit(s)
           /\ map' = [map EXCEPT ![IdOf(s)] = s]
           /\ sessions' = [sessions EXCEPT ![s] = NewSession(TRUE)]
           /\ starts' = [starts EXCEPT ![s].pc = "store"]
           /\ maint' = [maint EXCEPT !.raced = @ \/ IdOf(s) \in maint.picked]
  <2>1. /\ map'[IdOf(s)] = s /\ \A i \in Ids \ {IdOf(s)} : map'[i] = map[i]
        /\ sessions'[s] = NewSession(TRUE) /\ \A t \in Starts \ {s} : sessions'[t] = sessions[t]
        /\ starts'[s].pc = "store" /\ \A t \in Starts \ {s} : starts'[t] = starts[t]
        /\ starts' \in [Starts -> StartRecords]
    <3>1. /\ starts'[s].pc = "store" /\ \A t \in Starts \ {s} : starts'[t] = starts[t]
          /\ starts' \in [Starts -> StartRecords]
      BY <1>1, <1>4, HandlerMoves
    <3> QED
      BY <1>2, <1>4, <3>1 DEF RegistryInv, RegistryShape
  <2>2. RegistryShape'
    <3>1. map' \in [Ids -> MaybeStart]
      BY <1>2, <1>4 DEF RegistryInv, RegistryShape, MaybeStart
    <3>2. sessions' \in [Starts -> SessionRecords]
      BY <1>4 DEF RegistryInv, RegistryShape, SessionRecords, NewSession
    <3> QED
      BY <1>1, <2>1, <3>1, <3>2 DEF RegistryInv, RegistryShape
  <2>3. /\ ~Born(s) /\ Reserved(s)' /\ ~Committed(s)' /\ ~RolledBack(s)' /\ Born(s)'
        /\ \A t \in Starts \ {s} :
            /\ Reserved(t)' <=> Reserved(t)
            /\ Committed(t)' <=> Committed(t)
            /\ RolledBack(t)' <=> RolledBack(t)
            /\ Born(t)' <=> Born(t)
            /\ Ended(t)' <=> Ended(t)
    BY <1>1, <2>1 DEF Born, Reserved, Committed, RolledBack, Ended
  <2>4. \A i \in Ids : Over(i) => Over(i)'
    BY <2>3 DEF Over, Born
  <2>5. ~Ended(s)' /\ sessions'[s].held /\ sessions'[s].state = "Open" /\ ~sessions'[s].old
    BY <2>1 DEF NewSession, Ended, Terminal
  <2>6. \A t \in Starts : IdOf(t) \in Ids
    BY RegistryConstants DEF IdOf
  <2>7. \A t \in Starts \ {s} : Born(t) /\ ~Ended(t) => IdOf(t) # IdOf(s)
    BY <1>4, RegistryConstants DEF RegistryInv, LifeInv, None
  <2>8. LifeInv'
    <3> SUFFICES ASSUME NEW t \in Starts
                 PROVE  /\ sessions'[t].held <=> Reserved(t)'
                        /\ Reserved(t)' => sessions'[t].state = "Open"
                        /\ RolledBack(t)' => Ended(t)'
                        /\ Born(t)' /\ ~Ended(t)' => map'[IdOf(t)] = t
                        /\ sessions'[t].state = "Suspended" => sessions'[t].paused
                        /\ Ended(t)' => Born(t)'
                        /\ sessions'[t].old => Ended(t)'
      BY DEF LifeInv
    <3>1. CASE t = s
      BY <2>1, <2>3, <2>5, <3>1
    <3>2. CASE t # s
      BY <2>1, <2>3, <2>4, <2>6, <2>7, <3>2 DEF RegistryInv, LifeInv
    <3> QED
      BY <3>1, <3>2
  <2>9. MapInv' /\ MessageInv'
    BY <1>1, <2>1, <2>3 DEF RegistryInv, RegistryShape, MaybeStart, MapInv, MessageInv
  <2>10. DiskInv'
    <3>1. \A i \in Ids : disk[i].snap # s
      BY <2>3 DEF RegistryInv, DiskInv, Born
    <3>2. \A i \in Ids, t \in Starts : Logged(i, t)' <=> Logged(i, t)
      BY <1>1 DEF Logged
    <3> QED
      BY <1>1, <2>3, <3>1, <3>2 DEF RegistryInv, DiskInv
  <2>11. MaintInv'
    <3>1. \A t \in maint.stale : t # s /\ t \in Starts
      BY <2>3 DEF RegistryInv, RegistryShape, MaintRecords, MaintInv, LifeInv
    <3>4. IdOf(s) \notin maint.picked
      <4>1. maint \in MaintRecords
        BY DEF RegistryInv, RegistryShape
      <4>2. maint'.raced = (maint.raced \/ IdOf(s) \in maint.picked)
        BY <1>4, <4>1 DEF MaintRecords
      <4> QED
        BY <4>2
    <3>2. \A i \in maint.picked : i \in Ids /\ i # IdOf(s) /\ Droppable(i)'
      <4> SUFFICES ASSUME NEW i \in maint.picked
                   PROVE  i \in Ids /\ i # IdOf(s) /\ Droppable(i)'
        OBVIOUS
      <4>1. i \in Ids /\ Droppable(i)
        BY DEF RegistryInv, RegistryShape, MaintRecords, MaintInv
      <4>2. i # IdOf(s) /\ Over(i)' /\ map'[i] = map[i]
        BY <2>1, <2>4, <3>4, <4>1 DEF Droppable
      <4>3. map[i] # None => map[i] \in Starts /\ map[i] # s
        BY <2>3, <4>1 DEF RegistryInv, RegistryShape, MaybeStart, MapInv
      <4> QED
        BY <2>3, <4>1, <4>2, <4>3 DEF Droppable
    <3>3. \A t \in maint.stale : map[IdOf(t)] = t => map'[IdOf(t)] = t
      BY <1>4, <2>1, <2>6, <3>1, RegistryConstants DEF None
    <3> QED
      BY <1>1, <2>1, <2>3, <3>1, <3>2, <3>3 DEF RegistryInv, MaintInv
  <2>12. OpenBounded'
    <3> SUFFICES ASSUME NEW t \in Starts PROVE Cardinality(OpenIds(t)') <= MaxOpen
      BY DEF OpenBounded, OpenIds
    <3>1. \A i \in Ids \ {IdOf(s)} : map[i] # None => map[i] \in Starts \ {s}
      BY <2>3 DEF RegistryInv, RegistryShape, MaybeStart, MapInv
    <3>2. CASE StartOf[t].sender # StartOf[s].sender
      <4>1. \A i \in OpenIds(t)' : i \in Ids /\ i # IdOf(s)
        BY <2>1, <3>2 DEF OpenIds, Resident
      <4>2. OpenIds(t)' \in SUBSET OpenIds(t)
        BY <2>1, <3>1, <4>1 DEF OpenIds, Resident
      <4>3. /\ Cardinality(OpenIds(t)') <= Cardinality(OpenIds(t))
            /\ Cardinality(OpenIds(t)') \in Nat /\ Cardinality(OpenIds(t)) \in Nat
        BY <4>2, OpenIdsFinite, FS_Subset, FS_CardinalityType
      <4>4. Cardinality(OpenIds(t)) <= MaxOpen
        BY DEF RegistryInv, OpenBounded, OpenIds
      <4> QED
        BY <4>3, <4>4, RegistryConstants
    <3>3. CASE StartOf[t].sender = StartOf[s].sender
      <4> DEFINE counted == {i \in Resident : CountsOpen(map[i], s)}
      <4>1. OpenIds(t)' \subseteq counted \cup {IdOf(s)}
        BY <2>1, <3>1, <3>3 DEF OpenIds, Resident, CountsOpen
      <4>2. IsFiniteSet(counted) /\ Cardinality(counted) \in Nat
        BY RegistryConstants, FS_Subset, FS_CardinalityType DEF Resident
      <4>3. Cardinality(counted) < MaxOpen
        BY <1>4, <4>2, RegistryConstants DEF OverLimit
      <4>4. /\ IsFiniteSet(counted \cup {IdOf(s)})
            /\ Cardinality(counted \cup {IdOf(s)}) \in {Cardinality(counted), Cardinality(counted) + 1}
        BY <4>2, FS_AddElement
      <4>5. /\ Cardinality(OpenIds(t)') <= Cardinality(counted \cup {IdOf(s)})
            /\ Cardinality(OpenIds(t)') \in Nat
        BY <4>1, <4>4, FS_Subset, FS_CardinalityType
      <4> HIDE DEF counted
      <4> QED
        BY <4>2, <4>3, <4>4, <4>5, RegistryConstants
    <3> QED
      BY <3>2, <3>3
  <2> QED
    BY <2>2, <2>8, <2>9, <2>10, <2>11, <2>12 DEF RegistryInv
<1> QED
  BY <1>3, <1>4 DEF StartReserve

\* The commit of a start, or the failure it is rolled back for.
LEMMA StartStoreStep ==
    ASSUME RegistryInv, NEW s \in Starts, StartStore(s)
    PROVE  RegistryInv'
<1>1. UNCHANGED <<map, message, maint, issuer>> /\ starts[s].pc = "store"
  BY DEF StartStore
<1>2. IdOf(s) \in Ids /\ \A t \in Starts : IdOf(t) \in Ids
  BY RegistryConstants DEF IdOf
<1> DEFINE d == disk[IdOf(s)]
<1>3. d \in DiskRecords /\ Reserved(s) /\ ~Ended(s) /\ sessions[s].state = "Open" /\ map[IdOf(s)] = s
  BY <1>1, <1>2 DEF RegistryInv, RegistryShape, LifeInv, Reserved, Born, Ended, Terminal
<1>4. CASE \E created \in BOOLEAN :
             /\ disk' = [disk EXCEPT ![IdOf(s)].dir = @ \/ created]
             /\ starts' = [starts EXCEPT ![s].pc = "rollback"]
             /\ UNCHANGED sessions
  <2>1. /\ starts'[s].pc = "rollback" /\ \A t \in Starts \ {s} : starts'[t] = starts[t]
        /\ starts' \in [Starts -> StartRecords]
    BY <1>1, <1>4, HandlerMoves
  <2>2. /\ disk' \in [Ids -> DiskRecords]
        /\ \A i \in Ids : disk'[i].log = disk[i].log /\ disk'[i].snap = disk[i].snap
    <3>1. PICK b \in BOOLEAN : disk' = [disk EXCEPT ![IdOf(s)] = [d EXCEPT !.dir = b]]
      <4>1. PICK created \in BOOLEAN :
              disk' = [disk EXCEPT ![IdOf(s)] = [d EXCEPT !.dir = d.dir \/ created]]
        BY <1>4
      <4> WITNESS (d.dir \/ created) \in BOOLEAN
      <4> QED
        BY <4>1
    <3>2. [d EXCEPT !.dir = b] \in DiskRecords
      BY <1>3 DEF DiskRecords
    <3>3. [d EXCEPT !.dir = b].log = d.log /\ [d EXCEPT !.dir = b].snap = d.snap
      BY <1>3 DEF DiskRecords
    <3> QED
      BY <1>2, <3>1, <3>2, <3>3 DEF RegistryInv, RegistryShape
  <2>3. \A t \in Starts :
          /\ Reserved(t)' <=> Reserved(t)
          /\ Committed(t)' <=> Committed(t)
          /\ RolledBack(t)' <=> RolledBack(t)
          /\ Born(t)' <=> Born(t)
    BY <1>1, <2>1 DEF Born, Reserved, Committed, RolledBack
  <2>4. \A i : Over(i) => Over(i)'
    BY <1>4, <2>3 DEF Over, Ended
  <2>5. RegistryShape'
    BY <1>1, <1>4, <2>1, <2>2 DEF RegistryInv, RegistryShape
  <2>6. LifeInv' /\ MapInv' /\ MessageInv'
    BY <1>1, <1>4, <2>3, <2>4
       DEF RegistryInv, RegistryShape, MaybeStart, LifeInv, Ended, MapInv, MessageInv
  <2>7. DiskInv'
    BY <1>4, <2>2, <2>3
       DEF RegistryInv, RegistryShape, DiskRecords, MaybeStart, DiskInv, Logged, Ended
  <2>8. MaintInv'
    BY <1>1, <1>4, <2>3, <2>4 DEF RegistryInv, MaintInv, Droppable, Ended
  <2>9. OpenBounded'
    BY <1>1, <1>4 DEF RegistryInv, OpenBounded, Resident
  <2> QED
    BY <2>5, <2>6, <2>7, <2>8, <2>9 DEF RegistryInv
<1>5. CASE /\ \E e \in Saved(disk[IdOf(s)], s, "Open") :
                disk' = [disk EXCEPT ![IdOf(s)] = [e EXCEPT !.log = Append(@, s), !.dir = TRUE]]
           /\ sessions' = [sessions EXCEPT ![s].held = FALSE]
           /\ starts' = [starts EXCEPT ![s].pc = "announce"]
  <2>1. /\ starts'[s].pc = "announce" /\ \A t \in Starts \ {s} : starts'[t] = starts[t]
        /\ starts' \in [Starts -> StartRecords]
    BY <1>1, <1>5, HandlerMoves
  <2>2. /\ sessions' \in [Starts -> SessionRecords] /\ ~sessions'[s].held
        /\ \A t \in Starts \ {s} : sessions'[t] = sessions[t]
        /\ \A t \in Starts : /\ sessions'[t].state = sessions[t].state
                             /\ sessions'[t].lapsed <=> sessions[t].lapsed
                             /\ sessions'[t].old <=> sessions[t].old
                             /\ sessions'[t].paused <=> sessions[t].paused
    <3>1. sessions[s] \in SessionRecords
      BY DEF RegistryInv, RegistryShape
    <3> DEFINE freed == [sessions[s] EXCEPT !.held = FALSE]
    <3>2. /\ freed \in SessionRecords /\ freed.held = FALSE /\ freed.state = sessions[s].state
          /\ freed.lapsed = sessions[s].lapsed /\ freed.old = sessions[s].old
          /\ freed.paused = sessions[s].paused
      BY <3>1 DEF SessionRecords
    <3>3. sessions' = [sessions EXCEPT ![s] = freed]
      BY <1>5
    <3> HIDE DEF freed
    <3> QED
      BY <3>2, <3>3 DEF RegistryInv, RegistryShape
  <2>3. PICK e \in Saved(d, s, "Open") :
          disk' = [disk EXCEPT ![IdOf(s)] = [e EXCEPT !.log = Append(@, s), !.dir = TRUE]]
    BY <1>5
  <2>4. e \in DiskRecords /\ e.log = d.log /\ e.snap \in {d.snap, s}
    BY <1>3 DEF Saved, DiskRecords, MaybeStart
  <2>5. /\ Append(e.log, s) \in Seq(Starts \cup Terminal) /\ Append(e.log, s) # <<>>
        /\ Append(e.log, s)[1] \in Starts
        /\ \E k \in DOMAIN Append(e.log, s) : Append(e.log, s)[k] = s
        /\ \A k \in DOMAIN d.log : k \in DOMAIN Append(e.log, s) /\ Append(e.log, s)[k] = d.log[k]
    <3>1. d.log \in Seq(Starts \cup Terminal) /\ e.log = d.log
      BY <1>3, <2>4 DEF DiskRecords
    <3>2. d.log # <<>> => d.log[1] \in Starts
      BY <1>2 DEF RegistryInv, DiskInv
    <3>3. /\ Append(d.log, s) \in Seq(Starts \cup Terminal) /\ Append(d.log, s) # <<>>
          /\ Append(d.log, s)[1] = (IF d.log = <<>> THEN s ELSE d.log[1])
          /\ \E k \in DOMAIN Append(d.log, s) : Append(d.log, s)[k] = s
          /\ \A k \in DOMAIN d.log : k \in DOMAIN Append(d.log, s) /\ Append(d.log, s)[k] = d.log[k]
      <4> HIDE DEF d
      <4>1. s \in Starts \cup Terminal
        OBVIOUS
      <4> QED
        BY <3>1, <4>1, Appended
    <3>4. Append(d.log, s)[1] \in Starts
      BY <3>2, <3>3
    <3> QED
      BY <3>1, <3>3, <3>4
  <2>6. /\ disk' \in [Ids -> DiskRecords]
        /\ disk'[IdOf(s)].log = Append(e.log, s) /\ disk'[IdOf(s)].snap = e.snap
        /\ \A i \in Ids \ {IdOf(s)} : disk'[i] = disk[i]
    BY <1>2, <2>3, <2>4, <2>5 DEF RegistryInv, RegistryShape, DiskRecords
  <2>7. \A t \in Starts : Ended(t)' <=> Ended(t)
    BY <2>2 DEF Ended
  <2>8. /\ Committed(s)' /\ ~Reserved(s)' /\ ~RolledBack(s)' /\ Born(s)' /\ Born(s)
        /\ \A t \in Starts \ {s} :
            /\ Reserved(t)' <=> Reserved(t)
            /\ Committed(t)' <=> Committed(t)
            /\ RolledBack(t)' <=> RolledBack(t)
        /\ \A t \in Starts : Born(t)' <=> Born(t)
    BY <1>1, <2>1 DEF Born, Reserved, Committed, RolledBack
  <2>9. \A i : Over(i) => Over(i)'
    BY <2>7, <2>8 DEF Over
  <2>10. RegistryShape'
    BY <1>1, <2>1, <2>2, <2>6 DEF RegistryInv, RegistryShape
  <2>11. LifeInv'
    BY <1>1, <1>3, <2>2, <2>7, <2>8, <2>9 DEF RegistryInv, LifeInv
  <2>12. MapInv' /\ MessageInv'
    BY <1>1, <2>8 DEF RegistryInv, RegistryShape, MaybeStart, MapInv, MessageInv
  <2>13. \A i \in Ids, t \in Starts : Logged(i, t) => Logged(i, t)'
    BY <2>5, <2>6 DEF Logged
  <2>14. Logged(IdOf(s), s)'
    BY <2>5, <2>6 DEF Logged
  <2>15. DiskInv'
    <3> SUFFICES ASSUME NEW i \in Ids
                 PROVE  /\ disk'[i].log # <<>> => disk'[i].log[1] \in Starts
                        /\ \A t \in Starts :
                             /\ disk'[i].snap = t =>
                                    IdOf(t) = i /\ Committed(t)' /\ Logged(i, t)'
                             /\ IdOf(t) = i /\ Committed(t)' /\ ~Ended(t)' => Logged(i, t)'
      BY DEF DiskInv
    <3>1. disk'[i].log # <<>> => disk'[i].log[1] \in Starts
      BY <2>5, <2>6 DEF RegistryInv, DiskInv
    <3>2. disk'[i].snap = disk[i].snap \/ (disk'[i].snap = s /\ i = IdOf(s))
      BY <2>4, <2>6
    <3>3. \A t \in Starts : disk'[i].snap = t => IdOf(t) = i /\ Committed(t)' /\ Logged(i, t)'
      BY <2>8, <2>13, <2>14, <3>2 DEF RegistryInv, DiskInv
    <3>4. \A t \in Starts : IdOf(t) = i /\ Committed(t)' /\ ~Ended(t)' => Logged(i, t)'
      BY <2>7, <2>8, <2>13, <2>14 DEF RegistryInv, DiskInv
    <3> QED
      BY <3>1, <3>3, <3>4
  <2>16. MaintInv'
    <3>1. \A i \in maint.picked : Droppable(i) => Droppable(i)'
      BY <1>1, <2>7, <2>9 DEF RegistryInv, RegistryShape, MaybeStart, MaintRecords, Droppable
    <3>2. \A t \in maint.stale : t \in Starts
      BY DEF RegistryInv, RegistryShape, MaintRecords
    <3> QED
      BY <1>1, <2>2, <2>8, <3>1, <3>2 DEF RegistryInv, MaintInv
  <2>17. OpenBounded'
    <3>1. \A t \in Starts : OpenIds(t)' \subseteq OpenIds(t)
      BY <1>1, <2>2 DEF RegistryInv, RegistryShape, MaybeStart, OpenIds, Resident
    <3> QED
      BY <3>1, OpenKept DEF RegistryInv
  <2> QED
    BY <2>10, <2>11, <2>12, <2>15, <2>16, <2>17 DEF RegistryInv
<1> QED
  BY <1>4, <1>5 DEF StartStore

\* A session changes: what has ended stays ended, the mutex stays with its
\* start, and a session that was suspended or lapsed never counts as open again.
LEMMA SessionMoves ==
    ASSUME RegistryInv, NEW s \in Starts, UNCHANGED <<map, starts>>,
           sessions' \in [Starts -> SessionRecords],
           \A t \in Starts \ {s} : sessions'[t] = sessions[t],
           sessions'[s].held <=> sessions[s].held,
           Ended(s) => Ended(s)',
           Reserved(s) => sessions'[s].state = "Open",
           sessions'[s].state = "Suspended" => sessions'[s].paused,
           Ended(s)' => Born(s), sessions'[s].old => Ended(s)',
           sessions[s].old => sessions'[s].old,
           sessions'[s].state = "Open" /\ ~sessions'[s].lapsed /\ ~sessions'[s].paused =>
               sessions[s].state = "Open" /\ ~sessions[s].lapsed /\ ~sessions[s].paused
    PROVE  /\ LifeInv' /\ MapInv' /\ OpenBounded'
           /\ \A t \in Starts : Ended(t) => Ended(t)'
           /\ \A t \in Starts : sessions[t].old => sessions'[t].old
           /\ \A t \in Starts : /\ Reserved(t)' <=> Reserved(t)
                                /\ Committed(t)' <=> Committed(t)
                                /\ Born(t)' <=> Born(t)
           /\ \A i \in Ids : Droppable(i) => Droppable(i)'
<1>1. \A t \in Starts : /\ Reserved(t)' <=> Reserved(t)
                        /\ Committed(t)' <=> Committed(t)
                        /\ RolledBack(t)' <=> RolledBack(t)
                        /\ Born(t)' <=> Born(t)
  BY DEF Reserved, Committed, RolledBack, Born
<1>3. \A t \in Starts : Ended(t) => Ended(t)'
  BY DEF Ended
<1>2. \A i : Over(i) => Over(i)'
  BY <1>1, <1>3 DEF Over
<1>4. \A t \in Starts : sessions[t].old => sessions'[t].old
  OBVIOUS
<1>5. LifeInv'
  <2> SUFFICES ASSUME NEW t \in Starts
               PROVE  /\ sessions'[t].held <=> Reserved(t)'
                      /\ Reserved(t)' => sessions'[t].state = "Open"
                      /\ RolledBack(t)' => Ended(t)'
                      /\ Born(t)' /\ ~Ended(t)' => map'[IdOf(t)] = t
                      /\ sessions'[t].state = "Suspended" => sessions'[t].paused
                      /\ Ended(t)' => Born(t)'
                      /\ sessions'[t].old => Ended(t)'
    BY DEF LifeInv
  <2>1. CASE t = s
    BY <1>1, <1>2, <1>3, <2>1 DEF RegistryInv, LifeInv
  <2>2. CASE t # s
    BY <1>1, <2>2 DEF RegistryInv, LifeInv, Ended
  <2> QED
    BY <2>1, <2>2
<1>6. MapInv'
  BY <1>1 DEF RegistryInv, RegistryShape, MaybeStart, MapInv
<1>7. OpenBounded'
  <2>1. \A t \in Starts : OpenIds(t)' \subseteq OpenIds(t)
    BY DEF RegistryInv, RegistryShape, MaybeStart, OpenIds, Resident
  <2> QED
    BY <2>1, OpenKept DEF RegistryInv
<1>8. \A i \in Ids : Droppable(i) => Droppable(i)'
  BY <1>2, <1>3 DEF RegistryInv, RegistryShape, MaybeStart, Droppable
<1> QED
  BY <1>1, <1>3, <1>4, <1>5, <1>6, <1>7, <1>8

\* A step that changes nothing but a session.
LEMMA SessionsOnly ==
    ASSUME RegistryInv, UNCHANGED <<disk, message, maint, issuer, map>>, RegistryShape',
           LifeInv', MapInv', OpenBounded',
           \A t \in Starts : Ended(t) => Ended(t)',
           \A t \in Starts : sessions[t].old => sessions'[t].old,
           \A t \in Starts : /\ Reserved(t)' <=> Reserved(t)
                             /\ Committed(t)' <=> Committed(t)
                             /\ Born(t)' <=> Born(t),
           \A i \in Ids : Droppable(i) => Droppable(i)'
    PROVE  RegistryInv'
<1>1. MessageInv'
  BY DEF RegistryInv, MessageInv
<1>2. \A i \in Ids, t \in Starts : Logged(i, t)' <=> Logged(i, t)
  BY DEF Logged
<1>3. DiskInv'
  BY <1>2 DEF RegistryInv, DiskInv
<1>4. maint.stale \subseteq Starts /\ maint.picked \subseteq Ids
  BY DEF RegistryInv, RegistryShape, MaintRecords
<1>5. MaintInv'
  BY <1>4 DEF RegistryInv, MaintInv
<1> QED
  BY <1>1, <1>3, <1>5 DEF RegistryInv

\* A TTL passes, a session reaches the retention age.
LEMMA TimeStep ==
    ASSUME RegistryInv, NEW s \in Starts, Lapse(s) \/ Age(s)
    PROVE  RegistryInv'
<1>1. UNCHANGED <<map, disk, starts, message, maint, issuer>>
  BY DEF Lapse, Age
<1>2. sessions[s] \in SessionRecords
  BY DEF RegistryInv, RegistryShape
<1>3. CASE Lapse(s)
  <2> DEFINE new == [sessions[s] EXCEPT !.lapsed = TRUE]
  <2>1. /\ new \in SessionRecords /\ new.state = sessions[s].state /\ new.lapsed
        /\ new.held <=> sessions[s].held
        /\ new.old <=> sessions[s].old
        /\ new.paused <=> sessions[s].paused
    BY <1>2 DEF SessionRecords
  <2>2. sessions' = [sessions EXCEPT ![s] = new]
    BY <1>3 DEF Lapse
  <2> HIDE DEF new
  <2>3. sessions' \in [Starts -> SessionRecords] /\ sessions'[s] = new
        /\ \A t \in Starts \ {s} : sessions'[t] = sessions[t]
    BY <2>1, <2>2 DEF RegistryInv, RegistryShape
  <2>4. RegistryShape' /\ (Ended(s)' <=> Ended(s))
    BY <1>1, <2>1, <2>3 DEF RegistryInv, RegistryShape, Ended
  <2> QED
    BY <1>1, <2>1, <2>3, <2>4, SessionMoves, SessionsOnly DEF RegistryInv, LifeInv
<1>4. CASE Age(s)
  <2> DEFINE new == [sessions[s] EXCEPT !.old = TRUE]
  <2>1. /\ new \in SessionRecords /\ new.state = sessions[s].state /\ new.old
        /\ new.held <=> sessions[s].held
        /\ new.lapsed <=> sessions[s].lapsed
        /\ new.paused <=> sessions[s].paused
    BY <1>2 DEF SessionRecords
  <2>2. sessions' = [sessions EXCEPT ![s] = new]
    BY <1>4 DEF Age
  <2> HIDE DEF new
  <2>3. sessions' \in [Starts -> SessionRecords] /\ sessions'[s] = new
        /\ \A t \in Starts \ {s} : sessions'[t] = sessions[t]
    BY <2>1, <2>2 DEF RegistryInv, RegistryShape
  <2>4. RegistryShape' /\ (Ended(s)' <=> Ended(s)) /\ Ended(s)
    BY <1>1, <1>4, <2>1, <2>3 DEF RegistryInv, RegistryShape, Ended, Age
  <2> QED
    BY <1>1, <2>1, <2>3, <2>4, SessionMoves, SessionsOnly DEF RegistryInv, LifeInv
<1> QED
  BY <1>3, <1>4

\* A session is suspended, and resumed.
LEMMA PauseStep ==
    ASSUME RegistryInv, NEW i \in Ids, Pause(i) \/ Resume(i)
    PROVE  RegistryInv'
<1>1. PICK s \in Starts :
        /\ s = map[i] /\ UNCHANGED <<map, disk, starts, message, maint, issuer>>
        /\ ~sessions[s].held /\ ~Ended(s)
  BY DEF Pause, Resume, RegistryInv, RegistryShape, MaybeStart, Free, Ended, Terminal
<1>2. sessions[s] \in SessionRecords
  BY <1>1 DEF RegistryInv, RegistryShape
<1>3. CASE Pause(i)
  <2> DEFINE new == [sessions[s] EXCEPT !.state = "Suspended", !.paused = TRUE]
  <2>1. /\ new \in SessionRecords /\ new.state = "Suspended" /\ new.paused
        /\ new.held <=> sessions[s].held
        /\ new.old <=> sessions[s].old
    BY <1>2 DEF SessionRecords
  <2>2. sessions' = [sessions EXCEPT ![s] = new]
    BY <1>1, <1>3 DEF Pause
  <2> HIDE DEF new
  <2>3. sessions' \in [Starts -> SessionRecords] /\ sessions'[s] = new
        /\ \A t \in Starts \ {s} : sessions'[t] = sessions[t]
    BY <1>1, <2>1, <2>2 DEF RegistryInv, RegistryShape
  <2>4. RegistryShape'
    BY <1>1, <2>3 DEF RegistryInv, RegistryShape
  <2>5. ~Ended(s)'
    BY <2>1, <2>3 DEF Ended, Terminal
  <2> QED
    BY <1>1, <2>1, <2>3, <2>4, <2>5, SessionMoves, SessionsOnly DEF RegistryInv, LifeInv
<1>4. CASE Resume(i)
  <2> DEFINE new == [sessions[s] EXCEPT !.state = "Open"]
  <2>1. /\ new \in SessionRecords /\ new.state = "Open"
        /\ new.held <=> sessions[s].held
        /\ new.old <=> sessions[s].old
        /\ new.paused <=> sessions[s].paused
    BY <1>2 DEF SessionRecords
  <2>2. sessions' = [sessions EXCEPT ![s] = new] /\ sessions[s].paused
    BY <1>1, <1>4 DEF Resume, RegistryInv, LifeInv
  <2> HIDE DEF new
  <2>3. sessions' \in [Starts -> SessionRecords] /\ sessions'[s] = new
        /\ \A t \in Starts \ {s} : sessions'[t] = sessions[t]
    BY <1>1, <2>1, <2>2 DEF RegistryInv, RegistryShape
  <2>4. RegistryShape'
    BY <1>1, <2>3 DEF RegistryInv, RegistryShape
  <2>5. ~Ended(s)'
    BY <2>1, <2>3 DEF Ended, Terminal
  <2> QED
    BY <1>1, <2>1, <2>2, <2>3, <2>4, <2>5, SessionMoves, SessionsOnly DEF RegistryInv, LifeInv
<1> QED
  BY <1>3, <1>4

\* A session is ended: its log holds it already, so the entry is not the first.
LEMMA FinishKeeps ==
    ASSUME RegistryInv, NEW s \in Starts, NEW state \in Terminal, UNCHANGED <<map, starts>>,
           Born(s), ~sessions[s].held, sessions[s].state = "Open", Finish(s, state)
    PROVE  /\ LifeInv' /\ MapInv' /\ DiskInv' /\ OpenBounded'
           /\ sessions' \in [Starts -> SessionRecords] /\ disk' \in [Ids -> DiskRecords]
           /\ \A t \in Starts : sessions[t].old => sessions'[t].old
           /\ \A t \in Starts : Born(t)' <=> Born(t)
           /\ \A i \in Ids : Droppable(i) => Droppable(i)'
<1> DEFINE d == disk[IdOf(s)]
           new == [sessions[s] EXCEPT !.state = state]
<1>1. IdOf(s) \in Ids /\ d \in DiskRecords /\ sessions[s] \in SessionRecords
  BY RegistryConstants DEF RegistryInv, RegistryShape, IdOf
<1>2. state \in {"Resolved", "Expired"} /\ ~Ended(s) /\ ~Reserved(s) /\ ~RolledBack(s) /\ Committed(s)
  BY DEF Terminal, Ended, RegistryInv, LifeInv, Born
<1>3. Logged(IdOf(s), s)
  BY <1>1, <1>2 DEF RegistryInv, DiskInv
<1>4. /\ new \in SessionRecords /\ new.state = state
      /\ new.held <=> sessions[s].held
      /\ new.old <=> sessions[s].old
  BY <1>1, <1>2 DEF SessionRecords
<1>5. sessions' = [sessions EXCEPT ![s] = new]
  BY DEF Finish
<1> HIDE DEF new
<1>6. sessions' \in [Starts -> SessionRecords] /\ sessions'[s] = new
      /\ \A t \in Starts \ {s} : sessions'[t] = sessions[t]
  BY <1>4, <1>5 DEF RegistryInv, RegistryShape
<1>7. Ended(s)' /\ ~sessions[s].old
  BY <1>2, <1>4, <1>6 DEF Ended, Terminal, RegistryInv, LifeInv
<1>8. /\ LifeInv' /\ MapInv' /\ OpenBounded'
      /\ \A t \in Starts : Ended(t) => Ended(t)'
      /\ \A t \in Starts : sessions[t].old => sessions'[t].old
      /\ \A t \in Starts : /\ Reserved(t)' <=> Reserved(t)
                           /\ Committed(t)' <=> Committed(t)
                           /\ Born(t)' <=> Born(t)
      /\ \A i \in Ids : Droppable(i) => Droppable(i)'
  <2>1. sessions'[s].state \notin {"Open", "Suspended"}
    BY <1>2, <1>4, <1>6
  <2> QED
    BY <1>2, <1>4, <1>6, <1>7, <2>1, SessionMoves DEF RegistryInv, LifeInv
<1>9. PICK e \in Saved(d, s, state) :
        disk' = [disk EXCEPT ![IdOf(s)] = [e EXCEPT !.log = Append(@, state)]]
  BY DEF Finish
<1>10. e \in DiskRecords /\ e.log = d.log /\ e.snap \in {d.snap, s}
  BY <1>1, <1>2 DEF Saved, DiskRecords, MaybeStart
<1>11. /\ d.log \in Seq(Starts \cup Terminal) /\ d.log # <<>> /\ d.log[1] \in Starts
  <2>1. d.log \in Seq(Starts \cup Terminal)
    BY <1>1 DEF DiskRecords
  <2>2. d.log # <<>>
    BY <1>3 DEF Logged
  <2> QED
    BY <1>1, <2>1, <2>2 DEF RegistryInv, DiskInv
<1>12. /\ Append(d.log, state) \in Seq(Starts \cup Terminal)
       /\ Append(d.log, state)[1] \in Starts
       /\ \A k \in DOMAIN d.log :
            k \in DOMAIN Append(d.log, state) /\ Append(d.log, state)[k] = d.log[k]
  <2> HIDE DEF d
  <2>1. state \in Starts \cup Terminal
    OBVIOUS
  <2> QED
    BY <1>11, <2>1, Appended
<1>13. /\ disk' \in [Ids -> DiskRecords]
       /\ disk'[IdOf(s)].log = Append(d.log, state) /\ disk'[IdOf(s)].snap = e.snap
       /\ \A i \in Ids \ {IdOf(s)} : disk'[i] = disk[i]
  BY <1>1, <1>9, <1>10, <1>12 DEF RegistryInv, RegistryShape, DiskRecords
<1>14. \A i \in Ids, t \in Starts : Logged(i, t) => Logged(i, t)'
  BY <1>12, <1>13 DEF Logged
<1>15. DiskInv'
  <2> SUFFICES ASSUME NEW i \in Ids
               PROVE  /\ disk'[i].log # <<>> => disk'[i].log[1] \in Starts
                      /\ \A t \in Starts :
                           /\ disk'[i].snap = t =>
                                  IdOf(t) = i /\ Committed(t)' /\ Logged(i, t)'
                           /\ IdOf(t) = i /\ Committed(t)' /\ ~Ended(t)' => Logged(i, t)'
    BY DEF DiskInv
  <2>1. disk'[i].log # <<>> => disk'[i].log[1] \in Starts
    BY <1>12, <1>13 DEF RegistryInv, DiskInv
  <2>2. disk'[i].snap = disk[i].snap \/ (disk'[i].snap = s /\ i = IdOf(s))
    BY <1>10, <1>13
  <2>3. \A t \in Starts : disk'[i].snap = t => IdOf(t) = i /\ Committed(t)' /\ Logged(i, t)'
    BY <1>2, <1>3, <1>8, <1>14, <2>2 DEF RegistryInv, DiskInv
  <2>4. \A t \in Starts : IdOf(t) = i /\ Committed(t)' /\ ~Ended(t)' => Logged(i, t)'
    BY <1>8, <1>14 DEF RegistryInv, DiskInv
  <2> QED
    BY <2>1, <2>3, <2>4
<1> QED
  BY <1>6, <1>8, <1>13, <1>15

\* A message: the look at the map, and what it does under the mutex.
LEMMA MessageStep ==
    ASSUME RegistryInv, MessageApply \/ \E i \in Ids : MessageLookup(i)
    PROVE  RegistryInv'
<1>1. ASSUME NEW i \in Ids, MessageLookup(i) PROVE RegistryInv'
  <2>1. /\ UNCHANGED <<map, sessions, disk, starts, maint, issuer>>
        /\ message'.pc = "apply" /\ message'.handle = map[i] /\ map[i] # None
        /\ message' \in [pc : {"idle", "apply"}, handle : MaybeStart]
    BY <1>1 DEF MessageLookup, RegistryInv, RegistryShape
  <2>2. RegistryShape' /\ LifeInv' /\ MapInv' /\ OpenBounded'
    BY <2>1 DEF RegistryInv, RegistryShape, LifeInv, MapInv, OpenBounded, Resident, Reserved,
                Committed, RolledBack, Born, Ended, Over
  <2>3. map[i] \in Starts /\ Born(map[i])
    BY <2>1 DEF RegistryInv, RegistryShape, MaybeStart, MapInv
  <2>4. MessageInv'
    BY <2>1, <2>3 DEF MessageInv, Born, Reserved, Committed, RolledBack
  <2>5. DiskInv' /\ MaintInv'
    BY <2>1 DEF RegistryInv, DiskInv, MaintInv, Droppable, Over, Ended, Logged, Reserved,
                Committed, RolledBack, Born
  <2> QED
    BY <2>2, <2>4, <2>5 DEF RegistryInv
<1>2. CASE MessageApply
  <2> DEFINE s == message.handle
  <2>1. /\ UNCHANGED <<map, starts, maint, issuer>>
        /\ s \in Starts /\ Born(s) /\ ~sessions[s].held
    BY <1>2 DEF MessageApply, Free, RegistryInv, MessageInv
  <2>2. message' \in [pc : {"idle", "apply"}, handle : MaybeStart] /\ message'.pc = "idle"
    BY <1>2 DEF MessageApply, RegistryInv, RegistryShape, MaybeStart
  <2>3. CASE UNCHANGED <<sessions, disk>>
    <3>1. RegistryShape' /\ LifeInv' /\ MapInv' /\ OpenBounded'
      BY <2>1, <2>2, <2>3
         DEF RegistryInv, RegistryShape, LifeInv, MapInv, OpenBounded, Resident, Reserved,
             Committed, RolledBack, Born, Ended, Over
    <3>2. MessageInv' /\ DiskInv' /\ MaintInv'
      BY <2>1, <2>2, <2>3
         DEF RegistryInv, MessageInv, DiskInv, MaintInv, Droppable, Over, Ended, Logged,
             Reserved, Committed, RolledBack, Born
    <3> QED
      BY <3>1, <3>2 DEF RegistryInv
  <2>4. CASE sessions[s].state = "Open" /\ (Finish(s, "Expired") \/ Finish(s, "Resolved"))
    <3>1. /\ LifeInv' /\ MapInv' /\ DiskInv' /\ OpenBounded'
          /\ sessions' \in [Starts -> SessionRecords] /\ disk' \in [Ids -> DiskRecords]
          /\ \A t \in Starts : sessions[t].old => sessions'[t].old
          /\ \A t \in Starts : Born(t)' <=> Born(t)
          /\ \A i \in Ids : Droppable(i) => Droppable(i)'
      <4> HIDE DEF s
      <4>1. "Expired" \in Terminal /\ "Resolved" \in Terminal
        BY DEF Terminal
      <4> QED
        BY <2>1, <2>4, <4>1, FinishKeeps
    <3>2. RegistryShape' /\ MessageInv'
      BY <2>1, <2>2, <3>1 DEF RegistryInv, RegistryShape, MessageInv
    <3>3. maint.stale \subseteq Starts /\ maint.picked \subseteq Ids
      BY DEF RegistryInv, RegistryShape, MaintRecords
    <3>4. MaintInv'
      BY <2>1, <3>1, <3>3 DEF RegistryInv, MaintInv
    <3> QED
      BY <3>1, <3>2, <3>4 DEF RegistryInv
  <2> QED
    BY <1>2, <2>3, <2>4 DEF MessageApply
<1> QED
  BY <1>1, <1>2

\* The expiry pass, one session under its mutex.
LEMMA CleanupStep ==
    ASSUME RegistryInv, NEW s \in Starts, Cleanup(s)
    PROVE  RegistryInv'
<1>1. /\ UNCHANGED <<map, starts, message, issuer>>
      /\ Born(s) /\ ~sessions[s].held /\ maint.pc = "cleanup"
  BY DEF Cleanup, Free, RegistryInv, MaintInv
<1>2. /\ maint' \in MaintRecords /\ maint'.pc = "cleanup" /\ maint'.todo \subseteq maint.todo
      /\ maint'.picked = maint.picked /\ maint'.stale = maint.stale
      /\ maint.stale \subseteq Starts /\ maint.picked \subseteq Ids
  BY DEF Cleanup, RegistryInv, RegistryShape, MaintRecords
<1>3. CASE UNCHANGED <<sessions, disk>>
  <2>1. RegistryShape' /\ LifeInv' /\ MapInv' /\ OpenBounded'
    BY <1>1, <1>2, <1>3
       DEF RegistryInv, RegistryShape, LifeInv, MapInv, OpenBounded, Resident, Reserved,
           Committed, RolledBack, Born, Ended, Over
  <2>2. MessageInv' /\ DiskInv'
    BY <1>1, <1>3 DEF RegistryInv, MessageInv, DiskInv, Ended, Logged, Reserved, Committed,
                      RolledBack, Born
  <2>3. MaintInv'
    BY <1>1, <1>2, <1>3
       DEF RegistryInv, MaintInv, Droppable, Over, Ended, Reserved, Committed, RolledBack, Born
  <2> QED
    BY <2>1, <2>2, <2>3 DEF RegistryInv
<1>4. CASE sessions[s].state = "Open" /\ Finish(s, "Expired")
  <2>1. /\ LifeInv' /\ MapInv' /\ DiskInv' /\ OpenBounded'
        /\ sessions' \in [Starts -> SessionRecords] /\ disk' \in [Ids -> DiskRecords]
        /\ \A t \in Starts : sessions[t].old => sessions'[t].old
        /\ \A t \in Starts : Born(t)' <=> Born(t)
        /\ \A i \in Ids : Droppable(i) => Droppable(i)'
    <3>1. "Expired" \in Terminal
      BY DEF Terminal
    <3> QED
      BY <1>1, <1>4, <3>1, FinishKeeps
  <2>2. RegistryShape' /\ MessageInv'
    BY <1>1, <1>2, <2>1 DEF RegistryInv, RegistryShape, MessageInv
  <2>3. MaintInv'
    BY <1>1, <1>2, <2>1 DEF RegistryInv, MaintInv
  <2> QED
    BY <2>1, <2>2, <2>3 DEF RegistryInv
<1> QED
  BY <1>3, <1>4 DEF Cleanup

\* The rollback poisons the session it removes; its id mapped to nothing else.
LEMMA StartRollbackStep ==
    ASSUME RegistryInv, NEW s \in Starts, StartRollback(s)
    PROVE  RegistryInv'
<1>1. /\ UNCHANGED <<disk, message, maint, issuer>> /\ starts[s].pc = "rollback"
      /\ map' = [map EXCEPT ![IdOf(s)] = None]
  BY DEF StartRollback
<1>2. IdOf(s) \in Ids /\ \A t \in Starts : IdOf(t) \in Ids
  BY RegistryConstants DEF IdOf
<1>3. Reserved(s) /\ ~Ended(s) /\ map[IdOf(s)] = s
  BY <1>1 DEF RegistryInv, LifeInv, Reserved, Born, Ended, Terminal
<1>4. /\ starts' \in [Starts -> StartRecords]
      /\ starts'[s].pc = "done" /\ starts'[s].reply = "storage_failed"
      /\ \A t \in Starts \ {s} : starts'[t] = starts[t]
  <2>1. Reply(s, "storage_failed") /\ starts \in [Starts -> StartRecords]
    BY DEF StartRollback, RegistryInv, RegistryShape
  <2> QED
    BY <2>1, ZenonT(60) DEF Reply, StartRecords, MaybeStart
<1> DEFINE new == [sessions[s] EXCEPT !.state = "Expired", !.held = FALSE]
<1>5. /\ new \in SessionRecords /\ new.state = "Expired" /\ new.held = FALSE
      /\ new.old <=> sessions[s].old
  BY DEF RegistryInv, RegistryShape, SessionRecords
<1>6. sessions' = [sessions EXCEPT ![s] = new]
  BY DEF StartRollback
<1> HIDE DEF new
<1>7. /\ sessions' \in [Starts -> SessionRecords] /\ sessions'[s] = new
      /\ \A t \in Starts \ {s} : sessions'[t] = sessions[t]
      /\ map' \in [Ids -> MaybeStart] /\ map'[IdOf(s)] = None
      /\ \A i \in Ids \ {IdOf(s)} : map'[i] = map[i]
  BY <1>1, <1>2, <1>5, <1>6 DEF RegistryInv, RegistryShape, MaybeStart
<1>8. RegistryShape'
  BY <1>1, <1>4, <1>7 DEF RegistryInv, RegistryShape
<1>9. /\ Born(s) /\ Born(s)' /\ RolledBack(s)' /\ ~Committed(s) /\ ~Committed(s)' /\ ~Reserved(s)'
      /\ \A t \in Starts \ {s} :
          /\ Reserved(t)' <=> Reserved(t)
          /\ RolledBack(t)' <=> RolledBack(t)
      /\ \A t \in Starts : Committed(t)' <=> Committed(t)
      /\ \A t \in Starts : Born(t)' <=> Born(t)
  BY <1>1, <1>4 DEF Born, Reserved, Committed, RolledBack
<1>10. /\ Ended(s)' /\ \A t \in Starts \ {s} : Ended(t)' <=> Ended(t)
       /\ \A t \in Starts : Ended(t) => Ended(t)'
  BY <1>3, <1>5, <1>7 DEF Ended, Terminal
<1>11. \A i : Over(i) => Over(i)'
  BY <1>9, <1>10 DEF Over
<1>12. ~sessions[s].old
  BY <1>3 DEF RegistryInv, LifeInv
<1>13. LifeInv'
  <2> SUFFICES ASSUME NEW t \in Starts
               PROVE  /\ sessions'[t].held <=> Reserved(t)'
                      /\ Reserved(t)' => sessions'[t].state = "Open"
                      /\ RolledBack(t)' => Ended(t)'
                      /\ Born(t)' /\ ~Ended(t)' => map'[IdOf(t)] = t
                      /\ sessions'[t].state = "Suspended" => sessions'[t].paused
                      /\ Ended(t)' => Born(t)'
                      /\ sessions'[t].old => Ended(t)'
    BY DEF LifeInv
  <2>1. CASE t = s
    BY <1>5, <1>7, <1>9, <1>10, <1>12, <2>1
  <2>2. CASE t # s
    BY <1>2, <1>3, <1>7, <1>9, <1>10, <1>11, <2>2 DEF RegistryInv, LifeInv
  <2> QED
    BY <2>1, <2>2
<1>14. MapInv' /\ MessageInv'
  BY <1>1, <1>7, <1>9 DEF RegistryInv, RegistryShape, MaybeStart, MapInv, MessageInv
<1>15. DiskInv'
  <2>1. \A i \in Ids, t \in Starts : Logged(i, t)' <=> Logged(i, t)
    BY <1>1 DEF Logged
  <2> QED
    BY <1>1, <1>9, <1>10, <2>1 DEF RegistryInv, DiskInv
<1>16. MaintInv'
  <2>1. maint.stale \subseteq Starts /\ maint.picked \subseteq Ids
    BY DEF RegistryInv, RegistryShape, MaintRecords
  <2>2. \A t \in maint.stale : t # s /\ (map[IdOf(t)] = t => IdOf(t) # IdOf(s))
    BY <1>3, <1>12, <2>1 DEF RegistryInv, MaintInv
  <2>3. \A i \in maint.picked : i # IdOf(s) /\ Droppable(i)'
    <3> SUFFICES ASSUME NEW i \in maint.picked PROVE i # IdOf(s) /\ Droppable(i)'
      OBVIOUS
    <3>1. i \in Ids /\ Droppable(i) /\ i # IdOf(s)
      BY <1>3, <2>1, RegistryConstants DEF RegistryInv, MaintInv, Droppable, None
    <3>2. map[i] # None => map[i] \in Starts
      BY <3>1 DEF RegistryInv, RegistryShape, MaybeStart
    <3> QED
      BY <1>7, <1>10, <1>11, <3>1, <3>2 DEF Droppable
  <2> QED
    BY <1>1, <1>2, <1>7, <1>9, <2>1, <2>2, <2>3 DEF RegistryInv, MaintInv
<1>17. OpenBounded'
  <2>1. \A i \in Ids : map'[i] # None => map[i] = map'[i] /\ map[i] \in Starts \ {s}
    <3> SUFFICES ASSUME NEW i \in Ids, map'[i] # None
                 PROVE map[i] = map'[i] /\ map[i] \in Starts \ {s}
      OBVIOUS
    <3>1. i # IdOf(s) /\ map'[i] = map[i] /\ map[i] \in Starts
      BY <1>7 DEF RegistryInv, RegistryShape, MaybeStart
    <3> QED
      BY <3>1 DEF RegistryInv, MapInv
  <2>2. \A t \in Starts : OpenIds(t)' \subseteq OpenIds(t)
    BY <1>7, <2>1 DEF OpenIds, Resident
  <2> QED
    BY <2>2, OpenKept DEF RegistryInv
<1> QED
  BY <1>8, <1>13, <1>14, <1>15, <1>16, <1>17 DEF RegistryInv

\* A pass drops ids that may be dropped.
LEMMA DropsKeep ==
    ASSUME RegistryInv, NEW D \in SUBSET Ids, \A i \in D : Droppable(i),
           UNCHANGED <<sessions, disk, starts, message>>,
           map' = [i \in Ids |-> IF i \in D THEN None ELSE map[i]]
    PROVE  /\ map' \in [Ids -> MaybeStart]
           /\ LifeInv' /\ MapInv' /\ MessageInv' /\ DiskInv' /\ OpenBounded'
           /\ \A t \in Starts : Born(t)' <=> Born(t)
           /\ \A i \in Ids : Droppable(i) => Droppable(i)'
<1>1. map' \in [Ids -> MaybeStart] /\ \A i \in Ids : map'[i] = IF i \in D THEN None ELSE map[i]
  BY DEF RegistryInv, RegistryShape, MaybeStart
<1>2. \A t \in Starts : /\ Reserved(t)' <=> Reserved(t)
                        /\ Committed(t)' <=> Committed(t)
                        /\ RolledBack(t)' <=> RolledBack(t)
                        /\ Born(t)' <=> Born(t)
                        /\ Ended(t)' <=> Ended(t)
                        /\ IdOf(t) \in Ids
  BY RegistryConstants DEF Reserved, Committed, RolledBack, Born, Ended, IdOf
<1>3. \A i : Over(i)' <=> Over(i)
  BY <1>2 DEF Over
<1>4. LifeInv'
  <2>1. \A t \in Starts : Born(t) /\ ~Ended(t) => IdOf(t) \notin D
    BY <1>2, RegistryConstants DEF RegistryInv, LifeInv, Droppable, None
  <2> QED
    BY <1>1, <1>2, <1>3, <2>1 DEF RegistryInv, LifeInv
<1>5. MapInv' /\ MessageInv'
  BY <1>1, <1>2 DEF RegistryInv, RegistryShape, MaybeStart, MapInv, MessageInv
<1>6. DiskInv'
  <2>1. \A i \in Ids, t \in Starts : Logged(i, t)' <=> Logged(i, t)
    BY DEF Logged
  <2> QED
    BY <1>2, <2>1 DEF RegistryInv, DiskInv
<1>7. OpenBounded'
  <2>1. \A t \in Starts : OpenIds(t)' \subseteq OpenIds(t)
    BY <1>1 DEF OpenIds, Resident
  <2> QED
    BY <2>1, OpenKept DEF RegistryInv
<1>8. \A i \in Ids : Droppable(i) => Droppable(i)'
  BY <1>1, <1>2, <1>3 DEF RegistryInv, RegistryShape, MaybeStart, Droppable
<1> QED
  BY <1>1, <1>2, <1>4, <1>5, <1>6, <1>7, <1>8

\* Eviction removes the ids it picked.
LEMMA EvictRemoveStep ==
    ASSUME RegistryInv, EvictRemove
    PROVE  RegistryInv'
<1>1. /\ UNCHANGED <<sessions, disk, starts, message, issuer>> /\ maint.pc = "scan"
      /\ map' = [i \in Ids |-> IF i \in maint.picked THEN None ELSE map[i]]
  BY DEF EvictRemove
<1>2. maint.picked \in SUBSET Ids /\ \A i \in maint.picked : Droppable(i)
  BY DEF RegistryInv, RegistryShape, MaintRecords, MaintInv
<1>3. /\ map' \in [Ids -> MaybeStart]
      /\ LifeInv' /\ MapInv' /\ MessageInv' /\ DiskInv' /\ OpenBounded'
  BY <1>1, <1>2, DropsKeep
<1>4. /\ maint' \in MaintRecords /\ maint'.pc = "receipts" /\ maint'.picked = {}
      /\ maint'.stale = maint.stale
  BY <1>2 DEF EvictRemove, RegistryInv, RegistryShape, MaintRecords
<1>5. RegistryShape' /\ MaintInv'
  BY <1>1, <1>3, <1>4 DEF RegistryInv, RegistryShape, MaintInv
<1> QED
  BY <1>3, <1>5 DEF RegistryInv

\* Disk GC forgets what memory holds of the id it deleted.
LEMMA GcForgetStep ==
    ASSUME RegistryInv, NEW i \in Ids, GcForget(i)
    PROVE  RegistryInv'
<1>1. /\ UNCHANGED <<sessions, disk, starts, message>> /\ maint.picked = {i}
      /\ map' = [j \in Ids |-> IF j \in {i} THEN None ELSE map[j]]
      /\ issuer' \in IssuerRecords
  <2>1. issuer' \in IssuerRecords
    <3>1. /\ issuer \in IssuerRecords
          /\ issuer' = [issuer EXCEPT !.stripe[i] = None, !.cache[i] = NoReceipt,
                                      !.unpersisted[i] = NoReceipt]
      BY DEF GcForget, RegistryInv, RegistryShape
    <3> QED
      BY <3>1 DEF IssuerRecords, NoReceipt
  <2>2. map' = [j \in Ids |-> IF j \in {i} THEN None ELSE map[j]]
    BY DEF GcForget, RegistryInv, RegistryShape
  <2> QED
    BY <2>1, <2>2 DEF GcForget
<1>2. {i} \in SUBSET Ids /\ \A j \in {i} : Droppable(j)
  BY <1>1 DEF RegistryInv, MaintInv
<1>3. /\ map' \in [Ids -> MaybeStart]
      /\ LifeInv' /\ MapInv' /\ MessageInv' /\ DiskInv' /\ OpenBounded'
  BY <1>1, <1>2, DropsKeep
<1>4. /\ maint' \in MaintRecords /\ maint'.pc = "gc" /\ maint'.picked = {}
      /\ maint'.stale = maint.stale
  BY DEF GcForget, RegistryInv, RegistryShape, MaintRecords
<1>5. RegistryShape' /\ MaintInv'
  BY <1>1, <1>3, <1>4 DEF RegistryInv, RegistryShape, MaintInv
<1> QED
  BY <1>3, <1>5 DEF RegistryInv

\* A step that moves the maintenance task and nothing it looks at.
LEMMA MaintOnly ==
    ASSUME RegistryInv, UNCHANGED <<map, sessions, disk, starts, message>>,
           issuer' \in IssuerRecords, maint' \in MaintRecords, MaintInv'
    PROVE  RegistryInv'
<1>1. RegistryShape'
  BY DEF RegistryInv, RegistryShape
<1>2. LifeInv' /\ MapInv' /\ MessageInv'
  BY DEF RegistryInv, LifeInv, MapInv, MessageInv, Born, Reserved, Committed, RolledBack, Ended,
         Over
<1>3. DiskInv'
  BY DEF RegistryInv, DiskInv, Logged, Committed, Ended
<1>4. OpenBounded'
  BY DEF RegistryInv, OpenBounded, Resident
<1> QED
  BY <1>1, <1>2, <1>3, <1>4 DEF RegistryInv

\* The same, in terms of what the task has in hand.
LEMMA MaintMoves ==
    ASSUME RegistryInv, UNCHANGED <<map, sessions, disk, starts, message>>,
           issuer' \in IssuerRecords, NEW m \in MaintRecords, maint' = m,
           m.pc \in {"cleanup", "scan"} => \A s \in m.todo : s \in Starts /\ Born(s),
           \A s \in m.stale : sessions[s].old,
           m.pc = "scan" => \A s \in m.todo \cap m.stale : map[IdOf(s)] = s,
           m.pc = "gc_lock" =>
             /\ m.handle \in Starts /\ Born(m.handle)
             /\ m.handle \in m.stale => map[IdOf(m.handle)] = m.handle,
           m.pc \in {"idle", "cleanup", "receipts", "gc", "gc_lock"} => m.picked = {},
           \A i \in m.picked : Droppable(i)
    PROVE  RegistryInv'
<1>1. \A t \in Starts : Born(t)' <=> Born(t)
  BY DEF Born, Reserved, Committed, RolledBack
<1>2. \A i : Droppable(i) => Droppable(i)'
  BY DEF Droppable, Over, Ended, Committed
<1>3. MaintInv'
  BY <1>1, <1>2 DEF MaintInv
<1> QED
  BY <1>3, MaintOnly

\* What a pass finds in the map: sessions that were made, under their ids.
LEMMA Handles ==
    ASSUME RegistryInv, NEW s \in {map[i] : i \in Resident}
    PROVE  s \in Starts /\ Born(s) /\ map[IdOf(s)] = s
BY DEF Resident, RegistryInv, RegistryShape, MaybeStart, MapInv

\* A session past the retention age that its id still maps to may be dropped,
\* and so may an id that maps to nothing and has such a snapshot.
LEMMA PickedDroppable ==
    ASSUME RegistryInv, NEW s \in Starts, sessions[s].old,
           map[IdOf(s)] = s \/ (map[IdOf(s)] = None /\ Committed(s))
    PROVE  IdOf(s) \in Ids /\ Droppable(IdOf(s))
<1>1. IdOf(s) \in Ids /\ s # None
  BY RegistryConstants DEF IdOf, None
<1>2. Ended(s) /\ ~Reserved(s)
  BY DEF RegistryInv, LifeInv, Ended, Terminal
<1>3. Committed(s)
  BY <1>1, <1>2 DEF RegistryInv, MapInv, Born
<1> QED
  BY <1>1, <1>2, <1>3 DEF Droppable, Over

\* The steps of eviction and disk GC that only look.
LEMMA PassesStep ==
    ASSUME RegistryInv,
           \/ Tick \/ EvictBegin \/ GcBegin \/ GcLock \/ GcEnd
           \/ \E s \in Starts : EvictScan(s)
           \/ \E i \in Ids : EvictReceipt(i) \/ GcLook(i)
    PROVE  RegistryInv'
<1> DEFINE handles == {map[i] : i \in Resident}
<1>1. /\ \A s \in handles : s \in Starts /\ Born(s) /\ map[IdOf(s)] = s
      /\ Stale \subseteq Starts /\ \A s \in Stale : sessions[s].old
      /\ handles \subseteq Starts \cup Ids
  BY Handles DEF Stale
<1> HIDE DEF handles
<1>2. maint \in MaintRecords /\ MaintInv /\ issuer \in IssuerRecords
  BY DEF RegistryInv, RegistryShape
<1>3. CASE Tick
  <2> DEFINE m == [maint EXCEPT !.pc = "cleanup", !.todo = handles]
  <2>1. /\ m \in MaintRecords /\ m.pc = "cleanup" /\ m.todo = handles /\ m.picked = {}
        /\ m.stale = maint.stale
    BY <1>1, <1>2, <1>3 DEF MaintRecords, Tick, MaintInv
  <2>2. maint' = m /\ UNCHANGED <<map, sessions, disk, starts, message, issuer>>
    BY <1>3 DEF Tick, handles
  <2> HIDE DEF m
  <2> QED
    BY <1>1, <1>2, <2>1, <2>2, MaintMoves DEF MaintInv
<1>4. CASE EvictBegin
  <2> DEFINE m == [maint EXCEPT !.pc = "scan", !.todo = handles, !.stale = Stale]
  <2>1. /\ m \in MaintRecords /\ m.pc = "scan" /\ m.todo = handles /\ m.picked = {}
        /\ m.stale = Stale
    BY <1>1, <1>2, <1>4 DEF MaintRecords, EvictBegin, MaintInv
  <2>2. maint' = m /\ UNCHANGED <<map, sessions, disk, starts, message, issuer>>
    BY <1>4 DEF EvictBegin, handles
  <2> HIDE DEF m
  <2> QED
    BY <1>1, <1>2, <2>1, <2>2, MaintMoves
<1>5. ASSUME NEW s \in Starts, EvictScan(s) PROVE RegistryInv'
  <2> DEFINE picks == sessions[s].state \in Terminal /\ s \in maint.stale
             P == IF picks THEN maint.picked \cup {IdOf(s)} ELSE maint.picked
             m == [maint EXCEPT !.todo = @ \ {s}, !.picked = P]
  <2>1. maint.pc = "scan" /\ s \in maint.todo
    BY <1>5 DEF EvictScan
  <2>2. P \subseteq Ids /\ \A i \in P : Droppable(i)
    <3>1. maint.picked \subseteq Ids /\ \A i \in maint.picked : Droppable(i)
      BY <1>2 DEF MaintRecords, MaintInv
    <3>2. picks => IdOf(s) \in Ids /\ Droppable(IdOf(s))
      BY <1>2, <2>1, PickedDroppable DEF MaintInv
    <3> QED
      BY <3>1, <3>2
  <2>3. maint' = m /\ UNCHANGED <<map, sessions, disk, starts, message, issuer>>
    BY <1>5 DEF EvictScan
  <2> HIDE DEF P, picks
  <2>4. /\ m \in MaintRecords /\ m.pc = "scan" /\ m.todo = maint.todo \ {s} /\ m.picked = P
        /\ m.stale = maint.stale
    BY <1>2, <2>1, <2>2 DEF MaintRecords
  <2> HIDE DEF m
  <2> QED
    BY <1>2, <2>1, <2>2, <2>3, <2>4, MaintMoves DEF MaintInv
<1>6. ASSUME NEW i \in Ids, EvictReceipt(i) PROVE RegistryInv'
  <2> DEFINE m == [maint EXCEPT !.todo = @ \ {i}]
  <2>1. issuer' \in IssuerRecords
    <3>1. issuer' = [issuer EXCEPT !.cache[i] = NoReceipt,
                                   !.unpersisted[i] = IF disk[i].snap = None THEN NoReceipt ELSE @]
      BY <1>6 DEF EvictReceipt
    <3> QED
      BY <1>2, <3>1 DEF IssuerRecords, NoReceipt
  <2>2. maint' = m /\ UNCHANGED <<map, sessions, disk, starts, message>> /\ maint.pc = "receipts"
    BY <1>6 DEF EvictReceipt
  <2>3. m \in MaintRecords /\ m.pc = "receipts" /\ m.picked = {} /\ m.stale = maint.stale
    BY <1>2, <2>2 DEF MaintRecords, MaintInv
  <2> HIDE DEF m
  <2> QED
    BY <1>2, <2>1, <2>2, <2>3, MaintMoves DEF MaintInv
<1>7. CASE GcBegin
  <2> DEFINE listed == {i \in Ids : disk[i].dir}
             m == [maint EXCEPT !.pc = "gc", !.todo = listed, !.stale = Stale]
             n == [maint EXCEPT !.pc = "idle", !.stale = {}]
  <2>1. /\ m \in MaintRecords /\ m.pc = "gc" /\ m.picked = {} /\ m.stale = Stale
        /\ n \in MaintRecords /\ n.pc = "idle" /\ n.picked = {} /\ n.stale = {}
    BY <1>1, <1>2, <1>7 DEF MaintRecords, GcBegin, MaintInv
  <2>2. (maint' = m \/ maint' = n) /\ UNCHANGED <<map, sessions, disk, starts, message, issuer>>
    BY <1>7 DEF GcBegin
  <2> HIDE DEF m, n
  <2> QED
    BY <1>1, <1>2, <2>1, <2>2, MaintMoves
<1>8. ASSUME NEW i \in Ids, GcLook(i) PROVE RegistryInv'
  <2> DEFINE rest == [maint EXCEPT !.todo = @ \ {i}]
             m == [rest EXCEPT !.pc = "gc_lock", !.handle = map[i]]
             n == [rest EXCEPT !.pc = "gc_delete", !.picked = {i}]
             eligible == map[i] = None /\ disk[i].snap # None /\ disk[i].snap \in maint.stale
  <2>1. /\ maint.pc = "gc" /\ UNCHANGED <<map, sessions, disk, starts, message, issuer>>
        /\ \/ map[i] # None /\ maint' = m
           \/ eligible /\ maint' = n
           \/ maint' = rest
    BY <1>8 DEF GcLook
  <2>2. map[i] # None => map[i] \in Starts /\ Born(map[i]) /\ IdOf(map[i]) = i
    BY DEF RegistryInv, RegistryShape, MaybeStart, MapInv
  <2>3. eligible => Droppable(i)
    <3>1. maint.stale \subseteq Starts /\ \A s \in maint.stale : sessions[s].old
      BY <1>2 DEF MaintRecords, MaintInv
    <3>2. ASSUME eligible PROVE IdOf(disk[i].snap) = i /\ Committed(disk[i].snap)
      BY <3>1, <3>2 DEF RegistryInv, DiskInv
    <3> QED
      BY <3>1, <3>2, PickedDroppable
  <2>4. /\ rest \in MaintRecords /\ rest.pc = "gc" /\ rest.picked = {}
        /\ rest.stale = maint.stale
    BY <1>2, <2>1 DEF MaintRecords, MaintInv
  <2> HIDE DEF rest, eligible
  <2>5. map[i] \in MaybeStart
    BY DEF RegistryInv, RegistryShape
  <2>6. /\ m \in MaintRecords /\ m.pc = "gc_lock" /\ m.picked = {} /\ m.stale = maint.stale
        /\ m.handle = map[i]
        /\ n \in MaintRecords /\ n.pc = "gc_delete" /\ n.picked = {i} /\ n.stale = maint.stale
    BY <2>4, <2>5 DEF MaintRecords
  <2> HIDE DEF m, n
  <2>7. \A s \in maint.stale : sessions[s].old
    BY <1>2 DEF MaintInv
  <2>8. CASE map[i] # None /\ maint' = m
    BY <1>2, <2>1, <2>2, <2>6, <2>7, <2>8, MaintMoves
  <2>9. CASE eligible /\ maint' = n
    BY <1>2, <2>1, <2>3, <2>6, <2>7, <2>9, MaintMoves
  <2>10. CASE maint' = rest
    BY <1>2, <2>1, <2>4, <2>7, <2>10, MaintMoves
  <2> QED
    BY <2>1, <2>8, <2>9, <2>10
<1>9. CASE GcLock
  <2> DEFINE s == maint.handle
             m == [maint EXCEPT !.pc = "gc_delete", !.picked = {IdOf(s)}, !.handle = None]
             n == [maint EXCEPT !.pc = "gc", !.handle = None]
  <2>1. /\ maint.pc = "gc_lock" /\ UNCHANGED <<map, sessions, disk, starts, message, issuer>>
        /\ (s \in maint.stale /\ maint' = m) \/ maint' = n
    BY <1>9 DEF GcLock
  <2>2. s \in Starts /\ \A t \in maint.stale : sessions[t].old
    BY <1>2, <2>1 DEF MaintInv
  <2>3. IdOf(s) \in Ids /\ (s \in maint.stale => Droppable(IdOf(s)))
    <3>1. IdOf(s) \in Ids
      BY <2>2, RegistryConstants DEF IdOf
    <3>2. s \in maint.stale => map[IdOf(s)] = s
      BY <1>2, <2>1 DEF MaintInv
    <3> QED
      BY <2>2, <3>1, <3>2, PickedDroppable
  <2>4. /\ m \in MaintRecords /\ m.pc = "gc_delete" /\ m.picked = {IdOf(s)}
        /\ m.stale = maint.stale
        /\ n \in MaintRecords /\ n.pc = "gc" /\ n.picked = {} /\ n.stale = maint.stale
    BY <1>2, <2>1, <2>3 DEF MaintRecords, MaintInv, MaybeStart
  <2> HIDE DEF m, n, s
  <2> QED
    BY <1>2, <2>1, <2>2, <2>3, <2>4, MaintMoves
<1>10. CASE GcEnd
  <2> DEFINE m == [maint EXCEPT !.pc = "idle", !.stale = {}]
  <2>1. m \in MaintRecords /\ m.pc = "idle" /\ m.picked = {} /\ m.stale = {}
    BY <1>2, <1>10 DEF MaintRecords, GcEnd, MaintInv
  <2>2. maint' = m /\ UNCHANGED <<map, sessions, disk, starts, message, issuer>>
    BY <1>10 DEF GcEnd
  <2> HIDE DEF m
  <2> QED
    BY <1>2, <2>1, <2>2, MaintMoves
<1> QED
  BY <1>3, <1>4, <1>5, <1>6, <1>7, <1>8, <1>9, <1>10

\* Disk GC deletes what storage holds of an id that may be dropped.
LEMMA GcDeleteStep ==
    ASSUME RegistryInv, NEW i \in Ids, GcDelete(i)
    PROVE  RegistryInv'
<1>1. /\ UNCHANGED <<map, sessions, starts, message>>
      /\ maint.pc = "gc_delete" /\ maint.picked = {i}
      /\ maint \in MaintRecords /\ MaintInv /\ issuer \in IssuerRecords
  BY DEF GcDelete, RegistryInv, RegistryShape
<1>2. CASE UNCHANGED <<disk, issuer>> /\ maint' = [maint EXCEPT !.pc = "gc", !.picked = {}]
  <2> DEFINE m == [maint EXCEPT !.pc = "gc", !.picked = {}]
  <2>1. m \in MaintRecords /\ m.pc = "gc" /\ m.picked = {} /\ m.stale = maint.stale
    BY <1>1 DEF MaintRecords
  <2> HIDE DEF m
  <2> QED
    BY <1>1, <1>2, <2>1, MaintMoves DEF MaintInv, m
<1>3. CASE /\ disk' = [disk EXCEPT ![i] = Absent]
           /\ issuer' = [issuer EXCEPT !.stripe[i] = "gc"]
           /\ maint' = [maint EXCEPT !.pc = "gc_forget"]
  <2>1. /\ maint' \in MaintRecords /\ maint'.pc = "gc_forget" /\ maint'.picked = {i}
        /\ maint'.stale = maint.stale
    BY <1>1, <1>3 DEF MaintRecords
  <2>2. issuer' \in IssuerRecords
    BY <1>1, <1>3 DEF IssuerRecords
  <2>3. /\ disk' \in [Ids -> DiskRecords] /\ disk'[i] = Absent
        /\ \A j \in Ids \ {i} : disk'[j] = disk[j]
    <3>1. Absent \in DiskRecords
      BY DEF Absent, DiskRecords, MaybeStart, NoReceipt
    <3>2. disk \in [Ids -> DiskRecords]
      BY DEF RegistryInv, RegistryShape
    <3> QED
      BY <1>3, <3>1, <3>2
  <2>4. /\ \A t \in Starts : /\ Born(t)' <=> Born(t)
                             /\ Committed(t)' <=> Committed(t)
                             /\ Ended(t)' <=> Ended(t)
        /\ \A j : Droppable(j) => Droppable(j)'
    BY <1>1 DEF Born, Reserved, Committed, RolledBack, Droppable, Over, Ended
  <2>5. RegistryShape'
    BY <1>1, <2>1, <2>2, <2>3 DEF RegistryInv, RegistryShape
  <2>6. LifeInv' /\ MapInv' /\ MessageInv' /\ OpenBounded'
    BY <1>1 DEF RegistryInv, LifeInv, MapInv, MessageInv, Born, Reserved, Committed, RolledBack,
                Ended, Over, OpenBounded, Resident
  <2>7. DiskInv'
    <3> SUFFICES ASSUME NEW j \in Ids
                 PROVE  /\ disk'[j].log # <<>> => disk'[j].log[1] \in Starts
                        /\ \A t \in Starts :
                             /\ disk'[j].snap = t =>
                                    IdOf(t) = j /\ Committed(t)' /\ Logged(j, t)'
                             /\ IdOf(t) = j /\ Committed(t)' /\ ~Ended(t)' => Logged(j, t)'
      BY DEF DiskInv
    <3>1. CASE j = i
      <4>1. disk'[j].log = <<>> /\ disk'[j].snap = None
        BY <2>3, <3>1 DEF Absent
      <4>2. \A t \in Starts : ~(IdOf(t) = j /\ Committed(t) /\ ~Ended(t))
        BY <1>1, <3>1, RegistryConstants DEF RegistryInv, MaintInv, Droppable, LifeInv, Born, None
      <4> QED
        BY <2>4, <4>1, <4>2, RegistryConstants DEF None
    <3>2. CASE j # i
      <4>1. \A t \in Starts : Logged(j, t)' <=> Logged(j, t)
        BY <2>3, <3>2 DEF Logged
      <4> QED
        BY <2>3, <2>4, <3>2, <4>1 DEF RegistryInv, DiskInv
    <3> QED
      BY <3>1, <3>2
  <2>8. MaintInv'
    BY <1>1, <2>1, <2>4 DEF MaintInv
  <2> QED
    BY <2>5, <2>6, <2>7, <2>8 DEF RegistryInv
<1> QED
  BY <1>2, <1>3 DEF GcDelete

\* The clients leave the sessions alone; the receipt one stores is beside them.
LEMMA ClientStep ==
    ASSUME RegistryInv, ClientNext
    PROVE  RegistryInv'
<1>1. ASSUME UNCHANGED <<map, sessions, starts, message, maint>>,
             issuer' \in IssuerRecords, disk' \in [Ids -> DiskRecords],
             \A i \in Ids : disk'[i].log = disk[i].log /\ disk'[i].snap = disk[i].snap
      PROVE  RegistryInv'
  <2>1. RegistryShape'
    BY <1>1 DEF RegistryInv, RegistryShape
  <2>2. LifeInv' /\ MapInv' /\ MessageInv' /\ OpenBounded'
    BY <1>1 DEF RegistryInv, LifeInv, MapInv, MessageInv, Born, Reserved, Committed, RolledBack,
                Ended, Over, OpenBounded, Resident
  <2>3. \A i \in Ids, t \in Starts : Logged(i, t)' <=> Logged(i, t)
    BY <1>1 DEF Logged
  <2>4. \A t \in Starts : (Committed(t)' <=> Committed(t)) /\ (Ended(t)' <=> Ended(t))
    BY <1>1 DEF Committed, Ended
  <2>5. DiskInv'
    BY <1>1, <2>3, <2>4 DEF RegistryInv, DiskInv
  <2>6. MaintInv'
    BY <1>1 DEF RegistryInv, MaintInv, Droppable, Over, Ended, Born, Reserved, Committed,
                RolledBack
  <2> QED
    BY <2>1, <2>2, <2>5, <2>6 DEF RegistryInv
<1>2. issuer \in IssuerRecords /\ disk \in [Ids -> DiskRecords]
  BY DEF RegistryInv, RegistryShape
<1>3. ASSUME NEW r \in Readers, ReceiptStore(r) PROVE RegistryInv'
  <2> DEFINE i == client.reader[r].id
             n == issuer.built + 1
  <2>1. UNCHANGED <<map, sessions, starts, message, maint>>
    BY <1>3 DEF ReceiptStore
  <2>2. UNCHANGED disk \/ disk' = [disk EXCEPT ![i].receipt = n]
    BY <1>3 DEF ReceiptStore
  <2>3. n \in Nat
    BY <1>2 DEF IssuerRecords
  <2>4. issuer' \in IssuerRecords
    <3> DEFINE unlocked == [issuer EXCEPT !.stripe[i] = None]
               kept(b) == [unlocked EXCEPT !.cache[i] =
                              IF client.reader[r].in_memory THEN b ELSE @]
    <3>1. \/ issuer' = unlocked
          \/ disk[i].receipt # NoReceipt /\ issuer' = kept(disk[i].receipt)
          \/ issuer' = [kept(n) EXCEPT !.built = n]
          \/ issuer' = [unlocked EXCEPT !.unpersisted[i] = n, !.built = n]
      BY <1>3 DEF ReceiptStore
    <3> HIDE DEF i, n
    <3>2. unlocked \in IssuerRecords
      BY <1>2 DEF IssuerRecords
    <3> HIDE DEF unlocked
    <3>3. ASSUME NEW b \in Nat PROVE kept(b) \in IssuerRecords
      BY <3>2 DEF IssuerRecords
    <3>4. kept(disk[i].receipt) \in IssuerRecords
      <4>1. CASE i \in Ids
        BY <1>2, <3>3, <4>1 DEF DiskRecords
      <4>2. CASE i \notin Ids
        BY <3>2, <4>2 DEF IssuerRecords
      <4> QED
        BY <4>1, <4>2
    <3> HIDE DEF kept
    <3>5. CASE issuer' = [kept(n) EXCEPT !.built = n]
      <4>1. kept(n) \in IssuerRecords
        BY <2>3, <3>3
      <4> QED
        BY <2>3, <3>5, <4>1 DEF IssuerRecords
    <3>6. CASE issuer' = [unlocked EXCEPT !.unpersisted[i] = n, !.built = n]
      BY <2>3, <3>2, <3>6 DEF IssuerRecords
    <3> QED
      BY <3>1, <3>2, <3>4, <3>5, <3>6
  <2> HIDE DEF n, i
  <2>5. disk' \in [Ids -> DiskRecords]
    BY <1>2, <2>2, <2>3 DEF DiskRecords
  <2>6. \A j \in Ids : disk'[j].log = disk[j].log /\ disk'[j].snap = disk[j].snap
    <3> SUFFICES ASSUME NEW j \in Ids
                 PROVE  disk'[j].log = disk[j].log /\ disk'[j].snap = disk[j].snap
      OBVIOUS
    <3>1. disk'[j] = disk[j] \/ disk'[j] = [disk[j] EXCEPT !.receipt = n]
      BY <1>2, <2>2
    <3>2. disk[j] \in DiskRecords
      BY <1>2
    <3> QED
      BY <3>1, <3>2 DEF DiskRecords
  <2> QED
    BY <1>1, <1>2, <2>1, <2>3, <2>4, <2>5, <2>6
<1>4. ASSUME UNCHANGED kernel, issuer' \in IssuerRecords PROVE RegistryInv'
  BY <1>1, <1>2, <1>4 DEF kernel
<1>5. ASSUME NEW r \in Readers, ReceiptLock(r) PROVE RegistryInv'
  <2>1. \/ issuer' = issuer
        \/ issuer' = [issuer EXCEPT !.stripe[client.reader[r].id] = r]
    BY <1>5 DEF ReceiptLock
  <2>2. issuer' \in IssuerRecords
    BY <1>2, <2>1 DEF IssuerRecords
  <2> QED
    BY <1>4, <1>5, <2>2 DEF ReceiptLock
<1>6. ASSUME UNCHANGED <<kernel, issuer>> PROVE RegistryInv'
  BY <1>2, <1>4, <1>6
<1>7. CASE \/ \E n \in PageSizes : ListScan(n)
           \/ ListLookup \/ ListEmit \/ ListRespond
           \/ WatchSubscribe \/ WatchBegin \/ WatchDrain \/ WatchLive
           \/ \E s \in Starts : WatchSync(s)
  BY <1>6, <1>7 DEF ListScan, ListLookup, ListEmit, ListRespond, WatchSubscribe, WatchBegin,
                    WatchDrain, WatchLive, WatchSync
<1>8. CASE \/ \E r \in Readers : ReceiptCached(r)
           \/ \E r \in Readers, i \in Ids : ReceiptAsk(r, i)
  BY <1>6, <1>8 DEF ReceiptCached, ReceiptAsk
<1> QED
  BY <1>3, <1>5, <1>7, <1>8 DEF ClientNext

\* Every step keeps the registry's invariant.
LEMMA RegistryStep == RegistryInv /\ [Next]_vars /\ ~maint'.raced => RegistryInv'
<1> SUFFICES ASSUME RegistryInv, [Next]_vars, ~maint'.raced PROVE RegistryInv'
  OBVIOUS
<1>1. CASE StartNext
  BY <1>1, StartWalks, StartReserveStep, StartStoreStep, StartRollbackStep, TimeStep DEF StartNext
<1>2. CASE MessageNext
  BY <1>2, MessageStep, PauseStep DEF MessageNext
<1>3. CASE MaintenanceNext
  BY <1>3, PassesStep, CleanupStep, EvictRemoveStep, GcDeleteStep, GcForgetStep
     DEF MaintenanceNext
<1>4. CASE ClientNext
  BY <1>4, ClientStep
<1>5. CASE UNCHANGED vars
  <2>1. UNCHANGED <<map, sessions, disk, starts, message, maint, issuer>>
    BY <1>5 DEF vars, kernel
  <2>2. maint' \in MaintRecords /\ issuer' \in IssuerRecords
    BY <2>1 DEF RegistryInv, RegistryShape
  <2>3. MaintInv'
    BY <2>1 DEF RegistryInv, MaintInv, Droppable, Over, Ended, Born, Reserved, Committed,
                RolledBack
  <2> QED
    BY <2>1, <2>2, <2>3, MaintOnly
<1> QED
  BY <1>1, <1>2, <1>3, <1>4, <1>5 DEF Next

\* What the invariant says of logs and limits is what the run checks.
LEMMA RegistryImplies == RegistryInv => NothingBeforeStart /\ OpenBounded
<1> SUFFICES ASSUME RegistryInv PROVE NothingBeforeStart
  BY DEF RegistryInv
<1> SUFFICES ASSUME NEW i \in Ids
             PROVE  /\ disk[i].log # <<>> => disk[i].log[1] \in Starts
                    /\ disk[i].snap # None =>
                        /\ \E k \in DOMAIN disk[i].log : disk[i].log[k] = disk[i].snap
                        /\ starts[disk[i].snap].reply # "storage_failed"
  BY DEF NothingBeforeStart
<1>1. disk[i].log # <<>> => disk[i].log[1] \in Starts
  BY DEF RegistryInv, DiskInv
<1>2. ASSUME disk[i].snap # None
      PROVE  Committed(disk[i].snap) /\ Logged(i, disk[i].snap)
  <2>1. disk[i].snap \in Starts
    BY <1>2 DEF RegistryInv, RegistryShape, DiskRecords, MaybeStart
  <2> QED
    BY <2>1 DEF RegistryInv, DiskInv
<1>3. ASSUME disk[i].snap # None PROVE starts[disk[i].snap].reply # "storage_failed"
  <2>1. disk[i].snap \in Starts
    BY <1>3 DEF RegistryInv, RegistryShape, DiskRecords, MaybeStart
  <2> QED
    BY <1>2, <1>3, <2>1 DEF Committed, RegistryInv, RegistryShape, StartRecords, None
<1> QED
  BY <1>1, <1>2, <1>3 DEF Logged

\* A step unmaps an id only once its session has ended.
LEMMA DropsEnded ==
    ASSUME RegistryInv, [Next]_vars, NEW i \in Ids, map[i] # None, map'[i] # map[i]
    PROVE  sessions'[map[i]].state \in Terminal
<1>1. map \in [Ids -> MaybeStart] /\ \A s \in Starts : IdOf(s) \in Ids
  BY RegistryConstants DEF RegistryInv, RegistryShape, IdOf
<1>2. ASSUME UNCHANGED map PROVE FALSE
  BY <1>2
<1>3. ASSUME NEW s \in Starts, StartReserve(s) PROVE FALSE
  BY <1>1, <1>3 DEF StartReserve
<1>4. ASSUME NEW s \in Starts, StartRollback(s) PROVE sessions'[map[i]].state \in Terminal
  <2>1. map[IdOf(s)] = s
    BY <1>4 DEF StartRollback, RegistryInv, LifeInv, Born, Reserved, Ended, Terminal
  <2>2. i = IdOf(s)
    BY <1>1, <1>4 DEF StartRollback
  <2>3. sessions \in [Starts -> SessionRecords]
    BY DEF RegistryInv, RegistryShape
  <2>4. sessions'[s].state = "Expired"
    BY <1>4, <2>3 DEF StartRollback, SessionRecords
  <2> QED
    BY <2>1, <2>2, <2>4 DEF Terminal
<1>5. ASSUME i \in maint.picked, UNCHANGED sessions PROVE sessions'[map[i]].state \in Terminal
  BY <1>5 DEF RegistryInv, MaintInv, Droppable, Ended
<1>6. CASE EvictRemove
  BY <1>5, <1>6 DEF EvictRemove
<1>7. ASSUME NEW j \in Ids, GcForget(j) PROVE sessions'[map[i]].state \in Terminal
  <2>1. i = j /\ maint.picked = {j} /\ UNCHANGED sessions
    BY <1>1, <1>7 DEF GcForget
  <2> QED
    BY <1>5, <2>1
<1>8. CASE StartNext
  <2>1. ASSUME NEW s \in Starts,
               StartCheck(s) \/ StartExisting(s) \/ StartStore(s) \/ StartAnnounce(s)
                 \/ Lapse(s) \/ Age(s)
        PROVE  UNCHANGED map
    BY <2>1 DEF StartCheck, StartExisting, StartStore, StartAnnounce, Lapse, Age
  <2> QED
    BY <1>2, <1>3, <1>4, <1>8, <2>1 DEF StartNext
<1>9. CASE MessageNext
  BY <1>2, <1>9 DEF MessageNext, MessageApply, MessageLookup, Pause, Resume
<1>10. CASE MaintenanceNext
  <2>1. ASSUME Tick \/ EvictBegin \/ GcBegin \/ GcLock \/ GcEnd PROVE UNCHANGED map
    BY <2>1 DEF Tick, EvictBegin, GcBegin, GcLock, GcEnd
  <2>2. ASSUME NEW s \in Starts, Cleanup(s) \/ EvictScan(s) PROVE UNCHANGED map
    BY <2>2 DEF Cleanup, EvictScan
  <2>3. ASSUME NEW j \in Ids, EvictReceipt(j) \/ GcLook(j) \/ GcDelete(j) PROVE UNCHANGED map
    BY <2>3 DEF EvictReceipt, GcLook, GcDelete
  <2> QED
    BY <1>2, <1>6, <1>7, <1>10, <2>1, <2>2, <2>3 DEF MaintenanceNext
<1>11. CASE ClientNext
  BY <1>2, <1>11
     DEF ClientNext, ListScan, ListLookup, ListEmit, ListRespond, WatchSubscribe, WatchBegin,
         WatchDrain, WatchLive, WatchSync, ReceiptCached, ReceiptLock, ReceiptStore, ReceiptAsk,
         kernel
<1>12. CASE UNCHANGED vars
  BY <1>2, <1>12 DEF vars, kernel
<1> QED
  BY <1>8, <1>9, <1>10, <1>11, <1>12 DEF Next

-----------------------------------------------------------------------------
(* Receipts: an invariant beside RegistryInv.                              *)

ReaderRecords ==
    [pc : {"idle", "cached", "stripe", "store", "done"}, id : Ids \cup {0}, in_memory : BOOLEAN,
     from : MaybeStart, state : {None, "Open", "Suspended", "Resolved", "Expired"}]

ReceiptClients ==
    [kind : {"receipt"}, reader : [Readers -> ReaderRecords], served : [Starts -> SUBSET (Nat \ {NoReceipt})]]

ClientShape ==
    /\ "kind" \in DOMAIN client
    /\ client.kind = "receipt" =>
         /\ client \in ReceiptClients
         /\ \A r \in Readers : client.reader[r].pc # "idle" => client.reader[r].id \in Ids

\* A receipt of the id that somebody holds: storage, the issuer or a reader.
Copy(i, x) ==
    /\ x # NoReceipt
    /\ \/ x = disk[i].receipt \/ x = issuer.cache[i] \/ x = issuer.unpersisted[i]
       \/ /\ client.kind = "receipt"
          /\ \E s \in Starts : IdOf(s) = i /\ x \in client.served[s]

\* No id was accepted twice.
Once == \A i \in Ids : StartedOnce(i)

\* The id maps to no session a reader could read.
Vacant(i) == map[i] = None \/ Reserved(map[i])

\* Nobody will be given a receipt of the id any more.
Forgotten(i) ==
    Over(i) /\ disk[i].snap = None /\ (Vacant(i) \/ issuer.stripe[i] = "gc")

\* The receipts of an id that are held anywhere are one.
CopiesAgree == \A i \in Ids : \A x, y \in Nat : Copy(i, x) /\ Copy(i, y) => x = y

\* Where there is a receipt there is the one it was copied from, unless nobody
\* can ask for one again.
CopiesBacked ==
    \A i \in Ids : \A x \in Nat : Copy(i, x) =>
        disk[i].receipt # NoReceipt \/ issuer.unpersisted[i] # NoReceipt \/ Forgotten(i)

\* A reader that is about to store one holds the stripe, and whatever anybody
\* holds is what it will find stored.
StripeInv ==
    client.kind = "receipt" =>
        \A r \in Readers : client.reader[r].pc = "store" =>
            /\ client.reader[r].id \in Ids /\ issuer.stripe[client.reader[r].id] = r
            /\ \A x \in Nat : Copy(client.reader[r].id, x) => x = disk[client.reader[r].id].receipt

\* What eviction and disk GC have still to forget is out of the registry, or
\* out of storage and locked.
SweepInv ==
    /\ maint.pc = "receipts" => \A i \in maint.todo : i \in Ids /\ Over(i) /\ Vacant(i)
    /\ maint.pc = "gc_forget" =>
         \A i \in maint.picked : issuer.stripe[i] = "gc" /\ disk[i].snap = None
    /\ \A i \in Ids : issuer.stripe[i] = "gc" => maint.pc = "gc_forget" /\ i \in maint.picked

ReceiptInv == ClientShape /\ CopiesAgree /\ CopiesBacked /\ StripeInv /\ SweepInv

\* Nobody holds a receipt in the beginning.
LEMMA ReceiptsBegin == Init => ReceiptInv
<1> SUFFICES ASSUME Init PROVE ReceiptInv
  OBVIOUS
<1>1. /\ \A i \in Ids : disk[i] = Absent /\ issuer.cache[i] = NoReceipt /\ issuer.unpersisted[i] = NoReceipt
      /\ \A i \in Ids : issuer.stripe[i] = None
      /\ maint.pc = "idle"
  BY DEF Init
<1>2. PICK k \in {"none", "list", "watch", "receipt"} : client = NewClient(k)
  BY RegistryConstants DEF Init
<1>3. CASE k = "receipt"
  <2>1. client = [kind |-> "receipt",
                  reader |-> [r \in Readers |->
                    [pc |-> "idle", id |-> 0, in_memory |-> FALSE, from |-> None, state |-> None]],
                  served |-> [s \in Starts |-> {}]]
    BY <1>2, <1>3 DEF NewClient
  <2>2. client \in ReceiptClients /\ "kind" \in DOMAIN client
    BY <2>1 DEF ReceiptClients, ReaderRecords, MaybeStart
  <2>3. \A i \in Ids, x \in Nat : ~Copy(i, x)
    BY <1>1, <2>1 DEF Copy, Absent
  <2>4. \A r \in Readers : client.reader[r].pc = "idle"
    BY <2>1
  <2> QED
    BY <1>1, <2>2, <2>3, <2>4 DEF ReceiptInv, ClientShape, CopiesAgree, CopiesBacked, StripeInv, SweepInv, None
<1>4. CASE k # "receipt"
  <2>1. client.kind = k /\ "kind" \in DOMAIN client
    <3>1. CASE k = "none"
      BY <1>2, <3>1 DEF NewClient
    <3>2. CASE k = "list"
      BY <1>2, <3>2 DEF NewClient
    <3>3. CASE k = "watch"
      BY <1>2, <3>3 DEF NewClient
    <3> QED
      BY <1>2, <1>4, <3>1, <3>2, <3>3
  <2>2. \A i \in Ids, x \in Nat : ~Copy(i, x)
    BY <1>1, <1>4, <2>1 DEF Copy, Absent
  <2> QED
    BY <1>1, <1>4, <2>1, <2>2 DEF ReceiptInv, ClientShape, CopiesAgree, CopiesBacked, StripeInv, SweepInv, None
<1> QED
  BY <1>3, <1>4

\* What was accepted stays accepted and what has ended stays ended.
LEMMA OverForGood ==
    ASSUME RegistryInv, [Next]_vars, NEW t \in Starts
    PROVE  (Committed(t) => Committed(t)') /\ (Ended(t) => Ended(t)')
<1>1. starts \in [Starts -> StartRecords] /\ sessions \in [Starts -> SessionRecords]
  BY DEF RegistryInv, RegistryShape
<1>2. ASSUME UNCHANGED starts PROVE Committed(t) => Committed(t)'
  BY <1>2 DEF Committed
<1>3. ASSUME UNCHANGED sessions PROVE Ended(t) => Ended(t)'
  BY <1>3 DEF Ended
<1>4. ASSUME NEW s \in Starts, NEW state \in Terminal, Finish(s, state)
      PROVE  Ended(t) => Ended(t)'
  <2>1. sessions' = [sessions EXCEPT ![s] = [sessions[s] EXCEPT !.state = state]]
    BY <1>4 DEF Finish
  <2>2. [sessions[s] EXCEPT !.state = state].state = state
    BY <1>1 DEF SessionRecords
  <2> QED
    BY <1>1, <2>1, <2>2 DEF Ended
<1>5. CASE StartNext
  <2>1. PICK s \in Starts :
          \/ StartCheck(s) \/ StartExisting(s) \/ StartReserve(s) \/ StartStore(s)
          \/ StartRollback(s) \/ StartAnnounce(s)
          \/ Lapse(s) \/ Age(s)
    BY <1>5 DEF StartNext
  <2>2. starts[s] \in StartRecords /\ sessions[s] \in SessionRecords
    BY <1>1
  <2>3. CASE StartCheck(s) \/ StartExisting(s) \/ StartAnnounce(s)
    <3>1. Committed(t) => Committed(t)'
      BY <1>1, <2>2, <2>3 DEF StartCheck, StartExisting, StartAnnounce, Reply, Committed, StartRecords
    <3> QED
      BY <1>3, <2>3, <3>1 DEF StartCheck, StartExisting, StartAnnounce
  <2>4. CASE StartReserve(s)
    <3>1. Committed(t) => Committed(t)'
      BY <1>1, <2>2, <2>4 DEF StartReserve, Reply, Committed, StartRecords
    <3>2. ~Ended(s)
      BY <2>2, <2>4 DEF StartReserve, RegistryInv, LifeInv, Born, Reserved, Committed, RolledBack
    <3>3. t # s => sessions'[t] = sessions[t]
      BY <1>1, <2>4 DEF StartReserve
    <3> QED
      BY <3>1, <3>2, <3>3 DEF Ended
  <2>5. CASE StartStore(s)
    <3>1. Committed(t) => Committed(t)'
      BY <1>1, <2>2, <2>5 DEF StartStore, Committed, StartRecords
    <3>2. UNCHANGED sessions \/ sessions' = [sessions EXCEPT ![s] = [sessions[s] EXCEPT !.held = FALSE]]
      BY <2>5 DEF StartStore
    <3>3. [sessions[s] EXCEPT !.held = FALSE].state = sessions[s].state
      BY <2>2 DEF SessionRecords
    <3> QED
      BY <1>1, <3>1, <3>2, <3>3 DEF Ended
  <2>6. CASE StartRollback(s)
    <3>1. Committed(t) => Committed(t)'
      BY <1>1, <2>2, <2>6 DEF StartRollback, Reply, Committed, StartRecords
    <3>2. sessions' = [sessions EXCEPT ![s] = [sessions[s] EXCEPT !.state = "Expired", !.held = FALSE]]
      BY <2>6 DEF StartRollback
    <3>3. [sessions[s] EXCEPT !.state = "Expired", !.held = FALSE].state = "Expired"
      BY <2>2 DEF SessionRecords
    <3> QED
      BY <1>1, <3>1, <3>2, <3>3 DEF Ended, Terminal
  <2>7. CASE Lapse(s) \/ Age(s)
    <3>1. \/ sessions' = [sessions EXCEPT ![s] = [sessions[s] EXCEPT !.lapsed = TRUE]]
          \/ sessions' = [sessions EXCEPT ![s] = [sessions[s] EXCEPT !.old = TRUE]]
      BY <2>7 DEF Lapse, Age
    <3>2. /\ [sessions[s] EXCEPT !.lapsed = TRUE].state = sessions[s].state
          /\ [sessions[s] EXCEPT !.old = TRUE].state = sessions[s].state
      BY <2>2 DEF SessionRecords
    <3>3. Ended(t) => Ended(t)'
      BY <1>1, <3>1, <3>2 DEF Ended
    <3> QED
      BY <1>2, <2>7, <3>3 DEF Lapse, Age
  <2> QED
    BY <2>1, <2>3, <2>4, <2>5, <2>6, <2>7
<1>6. CASE MessageNext
  <2>1. UNCHANGED starts
    BY <1>6 DEF MessageNext, MessageApply, MessageLookup, Pause, Resume
  <2>2. CASE MessageApply
    <3>1. \/ UNCHANGED sessions
          \/ message.handle \in Starts /\ \E state \in Terminal : Finish(message.handle, state)
      BY <2>2 DEF MessageApply, RegistryInv, MessageInv, Terminal
    <3> QED
      BY <1>2, <1>3, <1>4, <2>1, <3>1
  <2>3. ASSUME NEW i \in Ids, Pause(i) \/ Resume(i) PROVE Ended(t) => Ended(t)'
    <3>1. map[i] \in Starts /\ ~Ended(map[i])
      BY <2>3 DEF Pause, Resume, RegistryInv, RegistryShape, MaybeStart, Ended, Terminal
    <3>2. t # map[i] => sessions'[t] = sessions[t]
      BY <1>1, <2>3 DEF Pause, Resume
    <3> QED
      BY <3>1, <3>2 DEF Ended
  <2>4. CASE \E i \in Ids : MessageLookup(i)
    BY <1>2, <1>3, <2>4 DEF MessageLookup
  <2> QED
    BY <1>2, <1>6, <2>1, <2>2, <2>3, <2>4 DEF MessageNext
<1>7. CASE MaintenanceNext
  <2>1. UNCHANGED starts
    BY <1>7 DEF MaintenanceNext, Tick, Cleanup, EvictBegin, EvictScan, EvictRemove, EvictReceipt,
                GcBegin, GcLook, GcLock, GcDelete, GcForget, GcEnd
  <2>2. UNCHANGED sessions \/ \E s \in Starts : Finish(s, "Expired")
    BY <1>7 DEF MaintenanceNext, Tick, Cleanup, EvictBegin, EvictScan, EvictRemove, EvictReceipt,
                GcBegin, GcLook, GcLock, GcDelete, GcForget, GcEnd
  <2> QED
    BY <1>2, <1>3, <1>4, <2>1, <2>2 DEF Terminal
<1>8. CASE ClientNext
  BY <1>2, <1>3, <1>8
     DEF ClientNext, ListScan, ListLookup, ListEmit, ListRespond, WatchSubscribe, WatchBegin,
         WatchDrain, WatchLive, WatchSync, ReceiptCached, ReceiptLock, ReceiptStore, ReceiptAsk,
         kernel
<1>9. CASE UNCHANGED vars
  BY <1>2, <1>3, <1>9 DEF vars, kernel
<1> QED
  BY <1>5, <1>6, <1>7, <1>8, <1>9 DEF Next

\* While no id is accepted twice, an id whose session is over stays without
\* one to read, and nothing is saved for it.
LEMMA OverStays ==
    ASSUME RegistryInv, [Next]_vars, Once', NEW i \in Ids, Over(i)
    PROVE  /\ Over(i)' /\ (Vacant(i) => Vacant(i)')
           /\ (Vacant(i) \/ Droppable(i)) /\ disk[i].snap = None => disk'[i].snap = None
<1> DEFINE Stays == /\ Vacant(i) => Vacant(i)'
                    /\ (Vacant(i) \/ Droppable(i)) /\ disk[i].snap = None => disk'[i].snap = None
<1> HIDE DEF Stays
<1>1. /\ map \in [Ids -> MaybeStart] /\ \A s \in Starts : IdOf(s) \in Ids /\ s # None
      /\ disk \in [Ids -> DiskRecords] /\ starts \in [Starts -> StartRecords]
      /\ map[i] # None => map[i] \in Starts /\ IdOf(map[i]) = i
  BY RegistryConstants DEF RegistryInv, RegistryShape, MapInv, IdOf, MaybeStart, None
<1>2. Over(i)'
  BY OverForGood DEF Over
<1> SUFFICES Stays
  BY <1>2 DEF Stays
<1>3. ASSUME UNCHANGED <<map, starts>>, disk'[i].snap = disk[i].snap PROVE Stays
  BY <1>3 DEF Stays, Vacant, Reserved
<1>4. ASSUME NEW s \in Starts, NEW state \in Terminal, UNCHANGED <<map, starts>>,
             Born(s), Free(s), sessions[s].state = "Open", Finish(s, state)
      PROVE  Stays
  <2>1. ~Ended(s) /\ map[IdOf(s)] = s /\ ~Reserved(s)
    BY <1>4 DEF RegistryInv, LifeInv, Ended, Terminal, Free
  <2>2. Vacant(i) \/ Droppable(i) => i # IdOf(s)
    BY <1>1, <2>1 DEF Droppable, Vacant
  <2>3. i # IdOf(s) => disk'[i] = disk[i]
    BY <1>1, <1>4 DEF Finish
  <2>4. Vacant(i) => Vacant(i)'
    BY <1>4 DEF Vacant, Reserved
  <2> QED
    BY <2>2, <2>3, <2>4 DEF Stays
<1>5. ASSUME NEW s \in Starts, i # IdOf(s), \A t \in Starts \ {s} : starts'[t] = starts[t],
             map'[i] = map[i], disk'[i] = disk[i]
      PROVE  Stays
  BY <1>1, <1>5 DEF Stays, Vacant, Reserved
<1>6. CASE StartNext
  <2>1. PICK s \in Starts :
          \/ StartCheck(s) \/ StartExisting(s) \/ StartReserve(s) \/ StartStore(s)
          \/ StartRollback(s) \/ StartAnnounce(s)
          \/ Lapse(s) \/ Age(s)
    BY <1>6 DEF StartNext
  <2>2. CASE Lapse(s) \/ Age(s)
    BY <1>3, <2>2 DEF Lapse, Age
  <2>3. ASSUME ~Lapse(s), ~Age(s)
        PROVE  /\ \A t \in Starts \ {s} : starts'[t] = starts[t]
               /\ i # IdOf(s) => map'[i] = map[i] /\ disk'[i] = disk[i]
    BY <1>1, <2>1, <2>3 DEF StartCheck, StartExisting, StartReserve, StartStore, StartRollback,
                            StartAnnounce, Reply
  <2>4. CASE i # IdOf(s)
    BY <1>5, <2>2, <2>3, <2>4
  <2>5. CASE i = IdOf(s) /\ (StartCheck(s) \/ StartExisting(s) \/ StartAnnounce(s))
    <3>1. UNCHANGED <<map, disk>> /\ ~Reserved(s)
      BY <2>5 DEF StartCheck, StartExisting, StartAnnounce, Reserved
    <3>2. CASE map[i] = s
      BY <1>1, <3>1, <3>2 DEF Stays, Vacant
    <3>3. CASE map[i] # s
      BY <1>1, <2>2, <2>3, <3>1, <3>3 DEF Stays, Vacant, Reserved
    <3> QED
      BY <1>1, <3>1, <3>2, <3>3
  <2>6. CASE i = IdOf(s) /\ StartReserve(s)
    <3>1. UNCHANGED disk /\ starts[s].pc = "reserve"
      BY <2>6 DEF StartReserve
    <3>2. CASE UNCHANGED map
      <4>1. ~Reserved(s)
        BY <3>1 DEF Reserved
      <4>2. CASE map[i] = s
        BY <1>1, <3>1, <3>2, <4>1, <4>2 DEF Stays, Vacant
      <4>3. CASE map[i] # s
        BY <1>1, <2>2, <2>3, <3>1, <3>2, <4>3 DEF Stays, Vacant, Reserved
      <4> QED
        BY <4>2, <4>3
    <3>3. CASE map' = [map EXCEPT ![IdOf(s)] = s] /\ starts' = [starts EXCEPT ![s].pc = "store"]
      <4>1. Reserved(s)' /\ map'[i] = s
        BY <1>1, <2>6, <3>1, <3>3, HandlerMoves DEF Reserved
      <4> QED
        BY <3>1, <4>1 DEF Stays, Vacant
    <3> QED
      BY <2>6, <3>2, <3>3 DEF StartReserve
  <2>7. CASE i = IdOf(s) /\ StartStore(s)
    <3>1. UNCHANGED map /\ starts[s].pc = "store"
      BY <2>7 DEF StartStore
    <3>2. CASE starts' = [starts EXCEPT ![s].pc = "announce"]
      <4>1. Committed(s)' /\ ~Committed(s)
        BY <3>1, <3>2, HandlerMoves DEF Committed
      <4>2. PICK t \in Starts : IdOf(t) = i /\ Committed(t)
        BY DEF Over
      <4>3. Committed(t)' /\ t # s
        BY <4>1, <4>2, OverForGood
      <4>4. Accepted(s)' /\ Accepted(t)'
        BY <4>1, <4>3 DEF Accepted, Committed
      <4> QED
        BY <2>7, <4>2, <4>3, <4>4 DEF Once, StartedOnce
    <3>3. CASE /\ starts' = [starts EXCEPT ![s].pc = "rollback"]
               /\ \E created \in BOOLEAN : disk' = [disk EXCEPT ![IdOf(s)].dir = @ \/ created]
      <4>1. Reserved(s)'
        BY <3>1, <3>3, HandlerMoves DEF Reserved
      <4>2. map[i] # s => (Vacant(i) => Vacant(i)')
        BY <1>1, <3>1, <3>3 DEF Vacant, Reserved
      <4>3. PICK b : disk' = [disk EXCEPT ![i].dir = b]
        BY <2>7, <3>3
      <4>4. disk'[i] = [disk[i] EXCEPT !.dir = b] /\ disk[i] \in DiskRecords
        BY <1>1, <4>3
      <4>5. disk'[i].snap = disk[i].snap
        BY <4>4 DEF DiskRecords
      <4> QED
        BY <3>1, <4>1, <4>2, <4>5 DEF Stays, Vacant
    <3> QED
      BY <2>7, <3>2, <3>3 DEF StartStore
  <2>8. CASE i = IdOf(s) /\ StartRollback(s)
    <3>1. map'[i] = None /\ UNCHANGED disk
      BY <1>1, <2>8 DEF StartRollback
    <3> QED
      BY <3>1 DEF Stays, Vacant
  <2> QED
    BY <2>1, <2>2, <2>4, <2>5, <2>6, <2>7, <2>8
<1>7. CASE MessageNext
  <2>1. CASE MessageApply
    <3>1. UNCHANGED <<map, starts>>
      BY <2>1 DEF MessageApply
    <3>2. CASE UNCHANGED disk
      BY <1>3, <3>1, <3>2
    <3>3. CASE /\ sessions[message.handle].state = "Open"
               /\ Finish(message.handle, "Expired") \/ Finish(message.handle, "Resolved")
      <4>1. /\ message.handle \in Starts /\ Born(message.handle) /\ Free(message.handle)
            /\ "Expired" \in Terminal /\ "Resolved" \in Terminal
        BY <2>1 DEF MessageApply, RegistryInv, MessageInv, Terminal
      <4> QED
        BY <1>4, <3>1, <3>3, <4>1
    <3> QED
      BY <2>1, <3>2, <3>3 DEF MessageApply
  <2>2. CASE \E j \in Ids : MessageLookup(j) \/ Pause(j) \/ Resume(j)
    BY <1>3, <2>2 DEF MessageLookup, Pause, Resume
  <2> QED
    BY <1>7, <2>1, <2>2 DEF MessageNext
<1>8. CASE MaintenanceNext
  <2>1. ASSUME NEW s \in Starts, Cleanup(s) PROVE Stays
    <3>1. UNCHANGED <<map, starts>> /\ Free(s) /\ Born(s) /\ "Expired" \in Terminal
      BY <2>1 DEF Cleanup, RegistryInv, MaintInv, Terminal
    <3>2. UNCHANGED disk \/ (sessions[s].state = "Open" /\ Finish(s, "Expired"))
      BY <2>1 DEF Cleanup
    <3> QED
      BY <1>3, <1>4, <3>1, <3>2
  <2>2. CASE EvictRemove
    <3>1. UNCHANGED <<starts, disk>> /\ map'[i] \in {None, map[i]}
      BY <2>2 DEF EvictRemove
    <3> QED
      BY <3>1 DEF Stays, Vacant, Reserved
  <2>3. ASSUME NEW j \in Ids, GcForget(j) PROVE Stays
    <3>1. UNCHANGED <<starts, disk>> /\ map'[i] \in {None, map[i]}
      BY <1>1, <2>3 DEF GcForget
    <3> QED
      BY <3>1 DEF Stays, Vacant, Reserved
  <2>4. ASSUME NEW j \in Ids, GcDelete(j) PROVE Stays
    <3>1. UNCHANGED <<map, starts>> /\ disk'[i] \in {Absent, disk[i]}
      BY <1>1, <2>4 DEF GcDelete
    <3> QED
      BY <3>1 DEF Stays, Vacant, Reserved, Absent
  <2>5. CASE \/ Tick \/ EvictBegin \/ GcBegin \/ GcLock \/ GcEnd
             \/ \E s \in Starts : EvictScan(s)
             \/ \E j \in Ids : EvictReceipt(j) \/ GcLook(j)
    BY <1>3, <2>5 DEF Tick, EvictBegin, GcBegin, GcLock, GcEnd, EvictScan, EvictReceipt, GcLook
  <2> QED
    BY <1>8, <2>1, <2>2, <2>3, <2>4, <2>5 DEF MaintenanceNext
<1>9. ASSUME NEW r \in Readers, ReceiptStore(r)
      PROVE  UNCHANGED <<map, starts>> /\ disk'[i].snap = disk[i].snap
  <2>1. UNCHANGED disk \/ disk' = [disk EXCEPT ![client.reader[r].id].receipt = issuer.built + 1]
    BY <1>9 DEF ReceiptStore
  <2>2. disk'[i] = disk[i] \/ disk'[i] = [disk[i] EXCEPT !.receipt = issuer.built + 1]
    BY <1>1, <2>1
  <2>3. disk[i] \in DiskRecords
    BY <1>1
  <2>4. disk'[i].snap = disk[i].snap
    BY <2>2, <2>3 DEF DiskRecords
  <2> QED
    BY <1>9, <2>4 DEF ReceiptStore
<1>10. CASE ClientNext
  <2>1. CASE \E r \in Readers : ReceiptStore(r)
    BY <1>3, <1>9, <2>1
  <2>2. CASE ~\E r \in Readers : ReceiptStore(r)
    BY <1>3, <1>10, <2>2
       DEF ClientNext, ListScan, ListLookup, ListEmit, ListRespond, WatchSubscribe, WatchBegin,
           WatchDrain, WatchLive, WatchSync, ReceiptCached, ReceiptLock, ReceiptAsk, kernel
  <2> QED
    BY <2>1, <2>2
<1>11. CASE UNCHANGED vars
  BY <1>3, <1>11 DEF vars, kernel
<1> QED
  BY <1>6, <1>7, <1>8, <1>10, <1>11 DEF Next

\* What was forgotten stays forgotten, as long as its stripe is held.
LEMMA ForgottenStays ==
    ASSUME RegistryInv, SweepInv, [Next]_vars, Once', NEW i \in Ids, Forgotten(i),
           issuer'.stripe[i] = issuer.stripe[i]
    PROVE  Forgotten(i)'
<1>1. Vacant(i) \/ Droppable(i)
  BY DEF Forgotten, SweepInv, RegistryInv, MaintInv
<1> QED
  BY <1>1, OverStays DEF Forgotten

\* A step that moves no receipt.
LEMMA ReceiptsRest ==
    ASSUME RegistryInv, ReceiptInv, Once', [Next]_vars, UNCHANGED issuer, SweepInv',
           \A i \in Ids : disk'[i].receipt = disk[i].receipt,
           ClientShape', client'.kind = client.kind,
           client.kind = "receipt" =>
             /\ client'.served = client.served
             /\ \A r \in Readers : client'.reader[r].pc = "store" => client'.reader[r] = client.reader[r]
    PROVE  ReceiptInv'
<1>1. \A i \in Ids : \A x : Copy(i, x)' <=> Copy(i, x)
  BY DEF Copy
<1>2. CopiesAgree'
  BY <1>1 DEF ReceiptInv, CopiesAgree
<1>3. CopiesBacked'
  BY <1>1, ForgottenStays DEF ReceiptInv, CopiesBacked
<1>4. StripeInv'
  BY <1>1 DEF ReceiptInv, StripeInv
<1> QED
  BY <1>2, <1>3, <1>4 DEF ReceiptInv

\* A step that leaves the maintenance task and the issuer alone keeps what
\* the passes have still to do.
LEMMA SweepRests ==
    ASSUME RegistryInv, SweepInv, [Next]_vars, Once', UNCHANGED <<maint, issuer>>
    PROVE  SweepInv'
<1>1. maint.pc = "receipts" => \A i \in maint.todo : i \in Ids /\ Over(i)' /\ Vacant(i)'
  BY OverStays DEF SweepInv
<1>2. \A i \in maint.picked : i \in Ids /\ Droppable(i) /\ Over(i)
  BY DEF RegistryInv, RegistryShape, MaintRecords, MaintInv, Droppable
<1>3. maint.pc = "gc_forget" => \A i \in maint.picked : disk'[i].snap = None
  BY <1>2, OverStays DEF SweepInv
<1> QED
  BY <1>1, <1>3 DEF SweepInv

\* Saving a session leaves its receipt.
LEMMA SavedReceipt ==
    ASSUME NEW d \in DiskRecords, NEW s, NEW state, NEW e \in Saved(d, s, state)
    PROVE  /\ e.receipt = d.receipt
           /\ \A l : [e EXCEPT !.log = l].receipt = d.receipt
           /\ \A l, b : [e EXCEPT !.log = l, !.dir = b].receipt = d.receipt
<1>1. e = d \/ e = [d EXCEPT !.snap = s, !.state = state]
  BY DEF Saved
<1>2. CASE e = d
  BY <1>2 DEF DiskRecords
<1>3. CASE e = [d EXCEPT !.snap = s, !.state = state]
  BY <1>3 DEF DiskRecords
<1> QED
  BY <1>1, <1>2, <1>3

\* A session that ends keeps the receipts of every id.
LEMMA FinishReceipts ==
    ASSUME RegistryInv, NEW s \in Starts, NEW state, Finish(s, state), NEW i \in Ids
    PROVE  disk'[i].receipt = disk[i].receipt
<1>1. disk \in [Ids -> DiskRecords]
  BY DEF RegistryInv, RegistryShape
<1>2. PICK e \in Saved(disk[IdOf(s)], s, state) :
        disk' = [disk EXCEPT ![IdOf(s)] = [e EXCEPT !.log = Append(@, state)]]
  BY DEF Finish
<1>3. CASE i = IdOf(s)
  <2>1. disk'[i] = [e EXCEPT !.log = Append(e.log, state)]
    BY <1>1, <1>2, <1>3
  <2> QED
    BY <1>1, <1>2, <1>3, <2>1, SavedReceipt
<1>4. CASE i # IdOf(s)
  BY <1>1, <1>2, <1>4
<1> QED
  BY <1>3, <1>4

\* A map that loses ids is no business of a reader of receipts.
LEMMA SeesKeeps ==
    ASSUME ClientShape, ClientSees(map')
    PROVE  /\ ClientShape' /\ client'.kind = client.kind
           /\ client.kind = "receipt" => client' = client
<1>1. CASE client.kind = "list"
  BY <1>1 DEF ClientSees, ClientShape
<1>2. CASE client.kind # "list"
  BY <1>2 DEF ClientSees, ClientShape
<1> QED
  BY <1>1, <1>2

\* Starts and messages move no receipt.
LEMMA StartReceipts ==
    ASSUME RegistryInv, ReceiptInv, Once', StartNext \/ MessageNext, ~maint'.raced
    PROVE  ReceiptInv'
<1>1. [Next]_vars
  BY DEF Next
<1>2. UNCHANGED <<maint, issuer>>
  <2>1. ASSUME NEW s \in Starts, StartReserve(s) PROVE UNCHANGED maint
    <3>1. maint' = maint \/ maint' = [maint EXCEPT !.raced = @ \/ IdOf(s) \in maint.picked]
      BY <2>1 DEF StartReserve
    <3> QED
      BY <3>1 DEF RegistryInv, RegistryShape, MaintRecords
  <2> QED
    BY <2>1 DEF StartNext, MessageNext, StartCheck, StartExisting, StartReserve, StartStore,
           StartRollback, StartAnnounce, Lapse, Age, MessageApply, MessageLookup, Pause, Resume
<1>3. SweepInv'
  BY <1>1, <1>2, SweepRests DEF ReceiptInv
<1>4. disk \in [Ids -> DiskRecords] /\ \A s \in Starts : IdOf(s) \in Ids
  BY RegistryConstants DEF RegistryInv, RegistryShape, IdOf
<1>5. ClientShape' /\ client'.kind = client.kind /\ (client.kind = "receipt" => client' = client)
  <2>1. CASE UNCHANGED client
    BY <2>1 DEF ReceiptInv, ClientShape
  <2>2. CASE \E s \in Starts : StartRollback(s)
    BY <2>2, SeesKeeps DEF StartRollback, ReceiptInv
  <2>3. \/ UNCHANGED client
        \/ \E s \in Starts : StartRollback(s)
    BY DEF StartNext, MessageNext, StartCheck, StartExisting, StartReserve, StartStore,
           StartAnnounce, Lapse, Age, MessageApply, MessageLookup, Pause, Resume
  <2> QED
    BY <2>1, <2>2, <2>3
<1>6. ASSUME NEW i \in Ids PROVE disk'[i].receipt = disk[i].receipt
  <2>1. CASE UNCHANGED disk
    BY <2>1
  <2>2. CASE MessageApply
    <3>1. CASE message.handle \in Starts /\ \E state : Finish(message.handle, state)
      BY <3>1, FinishReceipts
    <3> QED
      BY <2>1, <2>2, <3>1 DEF MessageApply, RegistryInv, MessageInv
  <2>3. ASSUME NEW s \in Starts, StartStore(s) PROVE disk'[i].receipt = disk[i].receipt
    <3>1. CASE i # IdOf(s)
      BY <1>4, <2>3, <3>1 DEF StartStore
    <3>2. CASE i = IdOf(s) /\ \E created \in BOOLEAN : disk' = [disk EXCEPT ![IdOf(s)].dir = @ \/ created]
      <4>1. PICK b : disk' = [disk EXCEPT ![i].dir = b]
        BY <3>2
      <4>2. disk'[i] = [disk[i] EXCEPT !.dir = b] /\ disk[i] \in DiskRecords
        BY <1>4, <4>1
      <4> QED
        BY <4>2 DEF DiskRecords
    <3>3. CASE /\ i = IdOf(s)
               /\ \E d \in Saved(disk[IdOf(s)], s, "Open") :
                    disk' = [disk EXCEPT ![IdOf(s)] = [d EXCEPT !.log = Append(@, s), !.dir = TRUE]]
      <4>1. PICK d \in Saved(disk[i], s, "Open") :
              disk' = [disk EXCEPT ![i] = [d EXCEPT !.log = Append(@, s), !.dir = TRUE]]
        BY <3>3
      <4>2. disk'[i] = [d EXCEPT !.log = Append(d.log, s), !.dir = TRUE] /\ disk[i] \in DiskRecords
        BY <1>4, <4>1
      <4> QED
        BY <4>1, <4>2, SavedReceipt
    <3> QED
      BY <2>3, <3>1, <3>2, <3>3 DEF StartStore
  <2>4. \/ UNCHANGED disk \/ MessageApply
        \/ \E s \in Starts : StartStore(s)
    BY DEF StartNext, MessageNext, StartCheck, StartExisting, StartReserve, StartRollback,
           StartAnnounce, Lapse, Age, MessageLookup, Pause, Resume
  <2> QED
    BY <2>1, <2>2, <2>3, <2>4
<1> QED
  BY <1>1, <1>2, <1>3, <1>5, <1>6, ReceiptsRest

\* The steps of the passes that move no receipt.
LEMMA PassReceipts ==
    ASSUME RegistryInv, ReceiptInv, Once',
           \/ Tick \/ EvictBegin \/ EvictRemove \/ GcBegin \/ GcLock \/ GcEnd
           \/ \E s \in Starts : Cleanup(s) \/ EvictScan(s)
           \/ \E i \in Ids : GcLook(i)
    PROVE  ReceiptInv'
<1>1. [Next]_vars
  BY DEF Next, MaintenanceNext
<1>2. UNCHANGED issuer /\ maint.pc # "gc_forget" /\ maint \in MaintRecords
  BY DEF Tick, EvictBegin, EvictRemove, GcBegin, GcLock, GcEnd, Cleanup, EvictScan, GcLook,
         RegistryInv, RegistryShape
<1>3. \A i \in Ids : issuer.stripe[i] # "gc"
  BY <1>2 DEF ReceiptInv, SweepInv
<1>4. CASE EvictRemove
  <2>1. /\ maint'.pc = "receipts" /\ maint'.todo = maint.picked
        /\ \A i \in maint.picked : Vacant(i)' /\ Over(i)
    BY <1>2, <1>4 DEF EvictRemove, MaintRecords, RegistryInv, MaintInv, Droppable, Vacant
  <2>2. \A i \in maint.picked : i \in Ids /\ Over(i)'
    BY <1>1, <1>2, <2>1, OverStays DEF MaintRecords
  <2>3. SweepInv'
    BY <1>2, <1>3, <2>1, <2>2 DEF SweepInv
  <2>4. ClientSees(map') /\ UNCHANGED disk
    BY <1>4 DEF EvictRemove
  <2> QED
    BY <1>1, <1>2, <2>3, <2>4, SeesKeeps, ReceiptsRest DEF ReceiptInv
<1>5. CASE ~EvictRemove
  <2>1. maint'.pc \notin {"receipts", "gc_forget"} /\ UNCHANGED client
    BY <1>2, <1>5
       DEF Tick, EvictBegin, GcBegin, GcLock, GcEnd, Cleanup, EvictScan, GcLook, MaintRecords
  <2>2. SweepInv'
    BY <1>2, <1>3, <2>1 DEF SweepInv
  <2>3. ASSUME NEW i \in Ids PROVE disk'[i].receipt = disk[i].receipt
    <3>1. UNCHANGED disk \/ \E s \in Starts : \E state : Finish(s, state)
      BY <1>5 DEF Tick, EvictBegin, GcBegin, GcLock, GcEnd, Cleanup, EvictScan, GcLook
    <3> QED
      BY <3>1, FinishReceipts
  <2>4. ClientShape'
    BY <2>1 DEF ReceiptInv, ClientShape
  <2> QED
    BY <1>1, <1>2, <2>1, <2>2, <2>3, <2>4, ReceiptsRest
<1> QED
  BY <1>4, <1>5

\* A step that drops copies of one id, whose stripe no reader holds, and
\* takes or releases that stripe.
LEMMA ReceiptsDrop ==
    ASSUME RegistryInv, ReceiptInv, Once', [Next]_vars, SweepInv', NEW i \in Ids,
           issuer.stripe[i] \notin Readers,
           \A j \in Ids \ {i} : /\ disk'[j].receipt = disk[j].receipt
                                /\ issuer'.stripe[j] = issuer.stripe[j]
                                /\ issuer'.cache[j] = issuer.cache[j]
                                /\ issuer'.unpersisted[j] = issuer.unpersisted[j],
           disk'[i].receipt \in {NoReceipt, disk[i].receipt},
           issuer'.cache[i] \in {NoReceipt, issuer.cache[i]},
           issuer'.unpersisted[i] \in {NoReceipt, issuer.unpersisted[i]},
           ClientShape', client'.kind = client.kind, client.kind = "receipt" => client' = client,
           \/ disk'[i].receipt # NoReceipt \/ issuer'.unpersisted[i] # NoReceipt
           \/ Forgotten(i)' \/ \A x \in Nat : ~Copy(i, x)
    PROVE  ReceiptInv'
<1>1. \A x : Copy(i, x)' => Copy(i, x)
  BY DEF Copy
<1>2. \A j \in Ids \ {i} : \A x : Copy(j, x)' <=> Copy(j, x)
  BY DEF Copy
<1>3. CopiesAgree'
  <2> SUFFICES ASSUME NEW j \in Ids, NEW x \in Nat, NEW y \in Nat, Copy(j, x)', Copy(j, y)'
               PROVE  x = y
    BY DEF CopiesAgree
  <2>1. Copy(j, x) /\ Copy(j, y)
    BY <1>1, <1>2
  <2> QED
    BY <2>1 DEF ReceiptInv, CopiesAgree
<1>4. CopiesBacked'
  <2> SUFFICES ASSUME NEW j \in Ids, NEW x \in Nat, Copy(j, x)'
               PROVE  \/ disk'[j].receipt # NoReceipt \/ issuer'.unpersisted[j] # NoReceipt
                      \/ Forgotten(j)'
    BY DEF CopiesBacked
  <2>1. CASE j = i
    BY <1>1, <2>1
  <2>2. CASE j # i
    <3>1. Copy(j, x)
      BY <1>2, <2>2
    <3>2. Forgotten(j) => Forgotten(j)'
      BY <2>2, ForgottenStays DEF ReceiptInv
    <3> QED
      BY <2>2, <3>1, <3>2 DEF ReceiptInv, CopiesBacked
  <2> QED
    BY <2>1, <2>2
<1>5. StripeInv'
  <2> SUFFICES ASSUME client'.kind = "receipt", NEW r \in Readers, client'.reader[r].pc = "store"
               PROVE  /\ client'.reader[r].id \in Ids /\ issuer'.stripe[client'.reader[r].id] = r
                      /\ \A x \in Nat : Copy(client.reader[r].id, x)' => x = disk'[client'.reader[r].id].receipt
    BY DEF StripeInv
  <2> QED
    BY <1>2 DEF ReceiptInv, StripeInv
<1> QED
  BY <1>3, <1>4, <1>5 DEF ReceiptInv

\* Eviction drops the cached copy, and the only one when nobody can ask again.
LEMMA EvictReceiptKeeps ==
    ASSUME RegistryInv, ReceiptInv, Once', NEW i \in Ids, EvictReceipt(i)
    PROVE  ReceiptInv'
<1>1. [Next]_vars
  BY DEF Next, MaintenanceNext
<1>2. /\ UNCHANGED <<map, sessions, disk, starts, client>>
      /\ issuer \in IssuerRecords /\ maint \in MaintRecords
      /\ maint.pc = "receipts" /\ maint' = [maint EXCEPT !.todo = @ \ {i}]
      /\ i \in maint.todo /\ issuer.stripe[i] = None
      /\ issuer' = [issuer EXCEPT !.cache[i] = NoReceipt,
                      !.unpersisted[i] = IF disk[i].snap = None THEN NoReceipt ELSE @]
  BY DEF EvictReceipt, RegistryInv, RegistryShape
<1>3. /\ \A j \in Ids : issuer'.stripe[j] = issuer.stripe[j]
      /\ \A j \in Ids \ {i} : issuer'.cache[j] = issuer.cache[j]
      /\ \A j \in Ids \ {i} : issuer'.unpersisted[j] = issuer.unpersisted[j]
      /\ issuer'.cache[i] = NoReceipt
      /\ issuer'.unpersisted[i] = IF disk[i].snap = None THEN NoReceipt ELSE issuer.unpersisted[i]
  BY <1>2 DEF IssuerRecords
<1>4. maint'.pc = "receipts" /\ maint'.todo \subseteq maint.todo
  BY <1>2 DEF MaintRecords
<1>5. SweepInv'
  <2>1. \A j \in maint'.todo : j \in Ids /\ Over(j)' /\ Vacant(j)'
    BY <1>2, <1>4 DEF ReceiptInv, SweepInv, Over, Committed, Ended, Vacant, Reserved
  <2>2. \A j \in Ids : issuer'.stripe[j] # "gc"
    BY <1>2, <1>3 DEF ReceiptInv, SweepInv
  <2> QED
    BY <1>4, <2>1, <2>2 DEF SweepInv
<1>6. disk[i].snap = None => Forgotten(i)'
  BY <1>2 DEF ReceiptInv, SweepInv, Forgotten, Over, Committed, Ended, Vacant, Reserved
<1>7. \A x \in Nat : Copy(i, x) =>
        disk[i].receipt # NoReceipt \/ issuer.unpersisted[i] # NoReceipt \/ Forgotten(i)
  BY DEF ReceiptInv, CopiesBacked
<1>8. Forgotten(i) => Forgotten(i)'
  BY <1>1, <1>3, ForgottenStays DEF ReceiptInv
<1>9. issuer.stripe[i] \notin Readers
  BY <1>2, RegistryConstants DEF None
<1>10. ClientShape'
  BY <1>2 DEF ReceiptInv, ClientShape
<1> QED
  BY <1>1, <1>2, <1>3, <1>5, <1>6, <1>7, <1>8, <1>9, <1>10, ReceiptsDrop

\* Disk GC deletes the stored receipt under the stripe and holds on to it
\* until the copies in memory are gone.
LEMMA GcDeleteReceipts ==
    ASSUME RegistryInv, ReceiptInv, Once', NEW i \in Ids, GcDelete(i)
    PROVE  ReceiptInv'
<1>1. [Next]_vars
  BY DEF Next, MaintenanceNext
<1>2. /\ UNCHANGED <<map, sessions, starts, client>>
      /\ issuer \in IssuerRecords /\ maint \in MaintRecords /\ disk \in [Ids -> DiskRecords]
      /\ maint.pc = "gc_delete" /\ maint.picked = {i} /\ issuer.stripe[i] = None
      /\ Over(i)
  BY DEF GcDelete, RegistryInv, RegistryShape, MaintInv, Droppable
<1>3. ClientShape' /\ Over(i)'
  BY <1>2 DEF ReceiptInv, ClientShape, Over, Committed, Ended, Vacant, Reserved
<1>4. \A j \in Ids : issuer.stripe[j] # "gc"
  BY <1>2 DEF ReceiptInv, SweepInv
<1>5. CASE /\ disk' = [disk EXCEPT ![i] = Absent]
           /\ issuer' = [issuer EXCEPT !.stripe[i] = "gc"]
           /\ maint' = [maint EXCEPT !.pc = "gc_forget"]
  <2>1. /\ disk'[i] = Absent /\ \A j \in Ids \ {i} : disk'[j] = disk[j]
        /\ issuer'.stripe[i] = "gc" /\ \A j \in Ids \ {i} : issuer'.stripe[j] = issuer.stripe[j]
        /\ issuer'.cache = issuer.cache /\ issuer'.unpersisted = issuer.unpersisted
    BY <1>2, <1>5 DEF IssuerRecords
  <2>2. maint'.pc = "gc_forget" /\ maint'.picked = {i}
    BY <1>2, <1>5 DEF MaintRecords
  <2>3. disk'[i].snap = None /\ disk'[i].receipt = NoReceipt
    BY <2>1 DEF Absent
  <2>4. Forgotten(i)'
    BY <1>3, <2>1, <2>3 DEF Forgotten
  <2>5. SweepInv'
    BY <1>4, <2>1, <2>2, <2>3 DEF SweepInv
  <2>6. issuer.stripe[i] \notin Readers
    BY <1>2, RegistryConstants DEF None
  <2> QED
    BY <1>1, <1>2, <1>3, <2>1, <2>3, <2>4, <2>5, <2>6, ReceiptsDrop
<1>6. CASE maint' = [maint EXCEPT !.pc = "gc", !.picked = {}] /\ UNCHANGED <<disk, issuer>>
  <2>1. maint'.pc = "gc"
    BY <1>2, <1>6 DEF MaintRecords
  <2>2. SweepInv'
    BY <1>4, <1>6, <2>1 DEF SweepInv
  <2> QED
    BY <1>1, <1>2, <1>3, <1>6, <2>2, ReceiptsRest
<1> QED
  BY <1>5, <1>6 DEF GcDelete

\* The copies in memory go with the stripe, when nobody can ask again.
LEMMA GcForgetReceipts ==
    ASSUME RegistryInv, ReceiptInv, Once', NEW i \in Ids, GcForget(i)
    PROVE  ReceiptInv'
<1>1. [Next]_vars
  BY DEF Next, MaintenanceNext
<1>2. /\ UNCHANGED <<sessions, starts, disk>> /\ map' = [map EXCEPT ![i] = None]
      /\ issuer \in IssuerRecords /\ maint \in MaintRecords /\ map \in [Ids -> MaybeStart]
      /\ maint.pc = "gc_forget" /\ maint.picked = {i} /\ Over(i)
      /\ maint' = [maint EXCEPT !.pc = "gc", !.picked = {}]
      /\ issuer' = [issuer EXCEPT !.stripe[i] = None, !.cache[i] = NoReceipt,
                                  !.unpersisted[i] = NoReceipt]
      /\ ClientSees(map')
  BY DEF GcForget, RegistryInv, RegistryShape, MaintInv, Droppable
<1>3. /\ issuer'.stripe[i] = None /\ issuer'.cache[i] = NoReceipt /\ issuer'.unpersisted[i] = NoReceipt
      /\ \A j \in Ids \ {i} : /\ issuer'.stripe[j] = issuer.stripe[j]
                              /\ issuer'.cache[j] = issuer.cache[j]
                              /\ issuer'.unpersisted[j] = issuer.unpersisted[j]
  BY <1>2 DEF IssuerRecords
<1>4. maint'.pc = "gc" /\ map'[i] = None
  BY <1>2 DEF MaintRecords
<1>5. issuer.stripe[i] = "gc" /\ disk[i].snap = None /\ \A j \in Ids \ {i} : issuer.stripe[j] # "gc"
  BY <1>2 DEF ReceiptInv, SweepInv
<1>6. Forgotten(i)'
  BY <1>2, <1>4, <1>5 DEF Forgotten, Over, Committed, Ended, Vacant, Reserved
<1>7. SweepInv'
  BY <1>3, <1>4, <1>5 DEF SweepInv, None
<1>8. issuer.stripe[i] \notin Readers
  BY <1>5, RegistryConstants
<1>9. ClientShape' /\ client'.kind = client.kind /\ (client.kind = "receipt" => client' = client)
  BY <1>2, SeesKeeps DEF ReceiptInv
<1> QED
  BY <1>1, <1>2, <1>3, <1>6, <1>7, <1>8, <1>9, ReceiptsDrop

\* The pages of a list and the sync of a watch have nothing to do with it.
LEMMA ViewReceipts ==
    ASSUME RegistryInv, ReceiptInv, Once',
           \/ \E n \in PageSizes : ListScan(n)
           \/ ListLookup \/ ListEmit \/ ListRespond
           \/ WatchSubscribe \/ WatchBegin \/ WatchDrain \/ WatchLive
           \/ \E s \in Starts : WatchSync(s)
    PROVE  ReceiptInv'
<1>1. [Next]_vars
  BY DEF Next, ClientNext
<1>2. client.kind # "receipt" /\ UNCHANGED <<kernel, issuer>>
  BY DEF ListScan, ListLookup, ListEmit, ListRespond, WatchSubscribe, WatchBegin, WatchDrain,
         WatchLive, WatchSync
<1>3. "kind" \in DOMAIN client
  BY DEF ReceiptInv, ClientShape
<1>4. "kind" \in DOMAIN client' /\ client'.kind = client.kind
  <2>1. CASE \E n \in PageSizes : ListScan(n)
    BY <1>3, <2>1 DEF ListScan
  <2>2. CASE ListLookup \/ ListEmit \/ ListRespond
    BY <1>3, <2>2 DEF ListLookup, ListEmit, ListRespond
  <2>3. CASE WatchSubscribe \/ WatchBegin \/ WatchDrain
    BY <1>3, <2>3 DEF WatchSubscribe, WatchBegin, WatchDrain
  <2>4. CASE WatchLive
    BY <1>3, <2>4 DEF WatchLive
  <2>5. CASE \E s \in Starts : WatchSync(s)
    BY <1>3, <2>5 DEF WatchSync
  <2> QED
    BY <2>1, <2>2, <2>3, <2>4, <2>5
<1>5. ClientShape'
  BY <1>2, <1>4 DEF ClientShape
<1>6. SweepInv'
  BY <1>1, <1>2, SweepRests DEF ReceiptInv, kernel
<1> QED
  BY <1>1, <1>2, <1>4, <1>5, <1>6, ReceiptsRest DEF kernel

\* A reader asks; nothing is served yet.
LEMMA ReaderAsks ==
    ASSUME RegistryInv, ReceiptInv, Once', NEW r \in Readers, NEW i \in Ids, ReceiptAsk(r, i)
    PROVE  ReceiptInv'
<1> DEFINE new == [client.reader[r] EXCEPT !.pc = "cached", !.id = i, !.from = Readable(i)]
<1>1. [Next]_vars
  BY DEF Next, ClientNext
<1>2. /\ client \in ReceiptClients /\ UNCHANGED <<kernel, issuer>>
      /\ client' = [client EXCEPT !.reader[r] = new]
  BY DEF ReceiptAsk, ReceiptInv, ClientShape
<1>3. Readable(i) \in MaybeStart
  BY DEF Readable, RegistryInv, RegistryShape, DiskRecords
<1>4. new \in ReaderRecords /\ new.pc = "cached" /\ new.id = i
  <2>1. client.reader[r] \in ReaderRecords
    BY <1>2 DEF ReceiptClients
  <2> QED
    BY <1>3, <2>1 DEF ReaderRecords
<1> HIDE DEF new
<1>5. /\ client' \in ReceiptClients /\ client'.served = client.served /\ client'.kind = "receipt"
      /\ client'.reader[r] = new /\ \A q \in Readers \ {r} : client'.reader[q] = client.reader[q]
      /\ client.kind = "receipt"
  BY <1>2, <1>4 DEF ReceiptClients
<1>6. ClientShape'
  BY <1>4, <1>5 DEF ClientShape, ReceiptClients, ReceiptInv
<1>7. SweepInv'
  BY <1>1, <1>2, SweepRests DEF ReceiptInv, kernel
<1> QED
  BY <1>1, <1>2, <1>4, <1>5, <1>6, <1>7, ReceiptsRest DEF kernel

\* A served receipt is told of its own session only.
LEMMA ServedFacts ==
    ASSUME client \in ReceiptClients, NEW r \in Readers, NEW b \in Nat \ {NoReceipt},
           Serve(r, b)
    PROVE  /\ client' \in ReceiptClients /\ client.kind = "receipt" /\ client'.kind = "receipt"
           /\ client'.reader[r].pc = "done" /\ client'.reader[r].id = client.reader[r].id
           /\ \A q \in Readers \ {r} : client'.reader[q] = client.reader[q]
           /\ \A s \in Starts :
                /\ client'.served[s] \subseteq client.served[s] \cup {b}
                /\ client.served[s] \subseteq client'.served[s]
                /\ IdOf(s) # client.reader[r].id => client'.served[s] = client.served[s]
<1> DEFINE new == [client.reader[r] EXCEPT !.pc = "done"]
           told == [s \in Starts |->
                      IF IdOf(s) = client.reader[r].id /\ client.reader[r].from = s
                      THEN client.served[s] \cup {b} ELSE client.served[s]]
<1>1. client' = [client EXCEPT !.reader[r] = new, !.served = told]
  BY DEF Serve
<1>2. new \in ReaderRecords /\ new.pc = "done" /\ new.id = client.reader[r].id
  <2>1. client.reader[r] \in ReaderRecords
    BY DEF ReceiptClients
  <2> QED
    BY <2>1 DEF ReaderRecords
<1>3. /\ told \in [Starts -> SUBSET (Nat \ {NoReceipt})]
      /\ \A s \in Starts :
           /\ told[s] \subseteq client.served[s] \cup {b}
           /\ client.served[s] \subseteq told[s]
           /\ IdOf(s) # client.reader[r].id => told[s] = client.served[s]
  BY DEF ReceiptClients
<1> HIDE DEF new, told
<1>4. /\ client'.kind = client.kind /\ client'.served = told
      /\ client'.reader = [client.reader EXCEPT ![r] = new] /\ client.kind = "receipt"
      /\ client' \in ReceiptClients
  BY <1>1, <1>2, <1>3 DEF ReceiptClients
<1>5. client'.reader[r] = new /\ \A q \in Readers \ {r} : client'.reader[q] = client.reader[q]
  BY <1>4 DEF ReceiptClients
<1> QED
  BY <1>2, <1>3, <1>4, <1>5

\* Nor does a reader that goes on, or is refused, change what was served.
LEMMA RefusedFacts ==
    ASSUME client \in ReceiptClients, NEW r \in Readers, NEW p \in {"stripe", "done"},
           client' = [client EXCEPT !.reader[r].pc = p]
    PROVE  /\ client' \in ReceiptClients /\ client.kind = "receipt" /\ client'.kind = "receipt"
           /\ client'.reader[r].pc = p /\ client'.reader[r].id = client.reader[r].id
           /\ client'.served = client.served
           /\ \A q \in Readers \ {r} : client'.reader[q] = client.reader[q]
<1> DEFINE new == [client.reader[r] EXCEPT !.pc = p]
<1>1. client' = [client EXCEPT !.reader[r] = new]
  OBVIOUS
<1>2. new \in ReaderRecords /\ new.pc = p /\ new.id = client.reader[r].id
  <2>1. client.reader[r] \in ReaderRecords
    BY DEF ReceiptClients
  <2> QED
    BY <2>1 DEF ReaderRecords
<1> HIDE DEF new
<1> QED
  BY <1>1, <1>2 DEF ReceiptClients

\* A copy that is served is one more of the same.
LEMMA ServesCopy ==
    ASSUME RegistryInv, ReceiptInv, Once', client \in ReceiptClients, [Next]_vars, NEW r \in Readers,
           UNCHANGED <<kernel, issuer>>, client.reader[r].id \in Ids,
           Cached(client.reader[r].id) # NoReceipt, Serve(r, Cached(client.reader[r].id))
    PROVE  ReceiptInv'
<1> DEFINE i == client.reader[r].id
           b == Cached(i)
<1>1. b \in Nat \ {NoReceipt} /\ Copy(i, b)
  BY DEF Cached, Copy, RegistryInv, RegistryShape, IssuerRecords
<1>2. /\ client' \in ReceiptClients /\ client.kind = "receipt" /\ client'.kind = "receipt"
      /\ client'.reader[r].pc = "done" /\ client'.reader[r].id = i
      /\ \A q \in Readers \ {r} : client'.reader[q] = client.reader[q]
      /\ \A s \in Starts :
           /\ client'.served[s] \subseteq client.served[s] \cup {b}
           /\ client.served[s] \subseteq client'.served[s]
           /\ IdOf(s) # i => client'.served[s] = client.served[s]
  BY <1>1, ServedFacts
<1> HIDE DEF b, i
<1>3. \A j \in Ids : \A x : Copy(j, x)' => Copy(j, x) \/ (j = i /\ x = b)
  BY <1>2 DEF Copy, kernel
<1>4. \A j \in Ids : \A x : Copy(j, x)' => Copy(j, x)
  BY <1>1, <1>3
<1>5. CopiesAgree'
  <2> SUFFICES ASSUME NEW j \in Ids, NEW x \in Nat, NEW y \in Nat, Copy(j, x)', Copy(j, y)'
               PROVE  x = y
    BY DEF CopiesAgree
  <2>1. Copy(j, x) /\ Copy(j, y)
    BY <1>4
  <2> QED
    BY <2>1 DEF ReceiptInv, CopiesAgree
<1>6. CopiesBacked'
  BY <1>4, ForgottenStays DEF ReceiptInv, CopiesBacked, kernel
<1>7. StripeInv'
  BY <1>2, <1>4 DEF ReceiptInv, StripeInv, kernel
<1>8. SweepInv'
  BY SweepRests DEF ReceiptInv, kernel
<1>9. ClientShape'
  BY <1>2 DEF ClientShape, ReceiptClients, ReceiptInv, i
<1> QED
  BY <1>5, <1>6, <1>7, <1>8, <1>9 DEF ReceiptInv

\* A reader is served a cached copy, or goes on to the stripe.
LEMMA ReaderCached ==
    ASSUME RegistryInv, ReceiptInv, Once', NEW r \in Readers, ReceiptCached(r)
    PROVE  ReceiptInv'
<1>1. [Next]_vars
  BY DEF Next, ClientNext
<1>2. /\ client \in ReceiptClients /\ UNCHANGED <<kernel, issuer>>
      /\ client.reader[r].id \in Ids
  BY DEF ReceiptCached, ReceiptInv, ClientShape
<1>3. CASE Cached(client.reader[r].id) # NoReceipt
  BY <1>1, <1>2, <1>3, ServesCopy DEF ReceiptCached
<1>4. CASE Cached(client.reader[r].id) = NoReceipt
  <2>1. client' = [client EXCEPT !.reader[r].pc = "stripe"]
    BY <1>4 DEF ReceiptCached
  <2>2. /\ client' \in ReceiptClients /\ client.kind = "receipt" /\ client'.kind = "receipt"
        /\ client'.reader[r].pc = "stripe" /\ client'.reader[r].id = client.reader[r].id
        /\ client'.served = client.served
        /\ \A q \in Readers \ {r} : client'.reader[q] = client.reader[q]
    BY <1>2, <2>1, RefusedFacts
  <2>3. ClientShape'
    BY <1>2, <2>2 DEF ClientShape, ReceiptClients, ReceiptInv
  <2>4. SweepInv'
    BY <1>1, <1>2, SweepRests DEF ReceiptInv, kernel
  <2> QED
    BY <1>1, <1>2, <2>2, <2>3, <2>4, ReceiptsRest DEF kernel
<1> QED
  BY <1>3, <1>4

\* Under the stripe: a copy, nothing, or the session as it is now.
LEMMA ReaderLocks ==
    ASSUME RegistryInv, ReceiptInv, Once', NEW r \in Readers, ReceiptLock(r)
    PROVE  ReceiptInv'
<1> DEFINE i == client.reader[r].id
           s == Readable(i)
<1>1. [Next]_vars
  BY DEF Next, ClientNext
<1>2. /\ client \in ReceiptClients /\ UNCHANGED kernel /\ i \in Ids
      /\ issuer.stripe[i] = None /\ issuer \in IssuerRecords
  BY DEF ReceiptLock, ReceiptInv, ClientShape, RegistryInv, RegistryShape
<1>3. CASE Cached(i) # NoReceipt /\ Serve(r, Cached(i)) /\ UNCHANGED issuer
  BY <1>1, <1>2, <1>3, ServesCopy
<1>4. CASE Refuse(r) /\ UNCHANGED issuer
  <2>1. /\ client' \in ReceiptClients /\ client.kind = "receipt" /\ client'.kind = "receipt"
        /\ client'.reader[r].pc = "done" /\ client'.reader[r].id = client.reader[r].id
        /\ client'.served = client.served
        /\ \A q \in Readers \ {r} : client'.reader[q] = client.reader[q]
    BY <1>2, <1>4, RefusedFacts DEF Refuse
  <2>2. ClientShape'
    BY <1>2, <2>1 DEF ClientShape, ReceiptClients, ReceiptInv
  <2>3. SweepInv'
    BY <1>1, <1>2, <1>4, SweepRests DEF ReceiptInv, kernel
  <2> QED
    BY <1>1, <1>2, <1>4, <2>1, <2>2, <2>3, ReceiptsRest DEF kernel
<1>5. CASE /\ Cached(i) = NoReceipt /\ s # None /\ Free(s)
           /\ issuer' = [issuer EXCEPT !.stripe[i] = r]
           /\ client' = [client EXCEPT !.reader[r] =
                [@ EXCEPT !.pc = "store", !.in_memory = map[i] # None, !.from = s,
                          !.state = IF map[i] # None THEN sessions[s].state ELSE disk[i].state]]
  <2> DEFINE mem == map[i] # None
             state == IF map[i] # None THEN sessions[s].state ELSE disk[i].state
             new == [client.reader[r] EXCEPT !.pc = "store", !.in_memory = mem, !.from = s,
                                             !.state = state]
  <2>1. s \in Starts /\ s \in MaybeStart
    BY <1>2, <1>5 DEF Readable, RegistryInv, RegistryShape, DiskRecords, MaybeStart
  <2>2. state \in {None, "Open", "Suspended", "Resolved", "Expired"}
    <3>1. sessions[s] \in SessionRecords /\ disk[i] \in DiskRecords
      BY <1>2, <2>1 DEF RegistryInv, RegistryShape
    <3> QED
      BY <3>1 DEF SessionRecords, DiskRecords
  <2>3. mem \in BOOLEAN
    OBVIOUS
  <2>4. client' = [client EXCEPT !.reader[r] = new]
    BY <1>5
  <2> HIDE DEF mem, state
  <2>5. new \in ReaderRecords /\ new.pc = "store" /\ new.id = i
    <3>1. client.reader[r] \in ReaderRecords
      BY <1>2 DEF ReceiptClients
    <3> QED
      BY <2>1, <2>2, <2>3, <3>1 DEF ReaderRecords
  <2> HIDE DEF new
  <2>6. /\ client' \in ReceiptClients /\ client'.served = client.served
        /\ client'.kind = "receipt" /\ client.kind = "receipt"
        /\ client'.reader[r] = new /\ \A q \in Readers \ {r} : client'.reader[q] = client.reader[q]
    BY <1>2, <2>4, <2>5 DEF ReceiptClients
  <2>7. /\ issuer'.cache = issuer.cache /\ issuer'.unpersisted = issuer.unpersisted
        /\ issuer'.stripe[i] = r /\ \A j \in Ids \ {i} : issuer'.stripe[j] = issuer.stripe[j]
    BY <1>2, <1>5 DEF IssuerRecords
  <2> HIDE DEF i, s
  <2>8. \A j \in Ids : \A x : Copy(j, x)' <=> Copy(j, x)
    BY <1>2, <2>6, <2>7 DEF Copy, kernel
  <2>9. ~Forgotten(i)
    <3>1. map[i] # None => map[i] = s /\ ~Reserved(s)
      BY <1>2, <1>5, <2>1 DEF Readable, s, Free, RegistryInv, LifeInv
    <3> QED
      BY <1>2, <1>5, <3>1 DEF Forgotten, Vacant, Readable, s, None
  <2>10. CopiesBacked'
    <3> SUFFICES ASSUME NEW j \in Ids, NEW x \in Nat, Copy(j, x)
                 PROVE  \/ disk'[j].receipt # NoReceipt \/ issuer'.unpersisted[j] # NoReceipt
                        \/ Forgotten(j)'
      BY <2>8 DEF CopiesBacked
    <3>1. disk[j].receipt # NoReceipt \/ issuer.unpersisted[j] # NoReceipt \/ Forgotten(j)
      BY DEF ReceiptInv, CopiesBacked
    <3>2. Forgotten(j) => Forgotten(j)'
      BY <1>1, <2>7, <2>9, ForgottenStays DEF ReceiptInv
    <3> QED
      BY <1>2, <2>7, <3>1, <3>2 DEF kernel
  <2>11. \A x \in Nat : Copy(i, x) => x = disk[i].receipt
    <3> SUFFICES ASSUME NEW x \in Nat, Copy(i, x) PROVE x = disk[i].receipt
      OBVIOUS
    <3>1. disk[i].receipt # NoReceipt
      BY <1>2, <1>5, <2>9 DEF ReceiptInv, CopiesBacked, Cached
    <3>2. disk[i].receipt \in Nat /\ Copy(i, disk[i].receipt)
      BY <1>2, <3>1 DEF Copy, RegistryInv, RegistryShape, DiskRecords
    <3> QED
      BY <1>2, <3>2 DEF ReceiptInv, CopiesAgree
  <2>12. StripeInv'
    <3> SUFFICES ASSUME NEW q \in Readers, client'.reader[q].pc = "store"
                 PROVE  /\ client'.reader[q].id \in Ids /\ issuer'.stripe[client'.reader[q].id] = q
                        /\ \A x \in Nat : Copy(client.reader[q].id, x)'
                              => x = disk'[client'.reader[q].id].receipt
      BY DEF StripeInv
    <3>1. CASE q = r
      BY <1>2, <2>5, <2>6, <2>7, <2>8, <2>11, <3>1 DEF kernel
    <3>2. CASE q # r
      <4>1. client'.reader[q] = client.reader[q]
        BY <2>6, <3>2
      <4>2. /\ client.reader[q].id \in Ids /\ issuer.stripe[client.reader[q].id] = q
            /\ \A x \in Nat : Copy(client.reader[q].id, x) => x = disk[client.reader[q].id].receipt
        BY <2>6, <4>1 DEF ReceiptInv, StripeInv
      <4>3. client.reader[q].id # i
        BY <1>2, <4>2, RegistryConstants DEF None
      <4> QED
        BY <1>2, <2>7, <2>8, <4>1, <4>2, <4>3 DEF kernel
    <3> QED
      BY <3>1, <3>2
  <2>13. SweepInv'
    <3>1. r # "gc" /\ issuer.stripe[i] # "gc"
      BY <1>2, RegistryConstants DEF None
    <3>2. maint.pc = "gc_forget" => i \notin maint.picked
      BY <3>1 DEF ReceiptInv, SweepInv
    <3>3. \A j \in maint.picked : j \in Ids
      BY DEF RegistryInv, RegistryShape, MaintRecords
    <3>4. maint.pc = "receipts" => \A j \in maint.todo : j \in Ids /\ Over(j)' /\ Vacant(j)'
      BY <1>2 DEF ReceiptInv, SweepInv, kernel, Over, Committed, Ended, Vacant, Reserved
    <3>5. maint.pc = "gc_forget" => \A j \in maint.picked : issuer'.stripe[j] = "gc" /\ disk'[j].snap = None
      BY <1>2, <2>7, <3>2, <3>3 DEF ReceiptInv, SweepInv, kernel
    <3>6. \A j \in Ids : issuer'.stripe[j] = "gc" => maint.pc = "gc_forget" /\ j \in maint.picked
      BY <2>7, <3>1 DEF ReceiptInv, SweepInv
    <3> QED
      BY <1>2, <3>4, <3>5, <3>6 DEF SweepInv, kernel
  <2>14. CopiesAgree'
    BY <2>8 DEF ReceiptInv, CopiesAgree
  <2>15. ClientShape'
    BY <1>2, <2>5, <2>6 DEF ClientShape, ReceiptClients, ReceiptInv
  <2> QED
    BY <2>10, <2>12, <2>13, <2>14, <2>15 DEF ReceiptInv
<1> QED
  BY <1>3, <1>4, <1>5 DEF ReceiptLock

\* The reader that held the stripe of an id is done, and what anybody now
\* holds of that id is one receipt with its source.
LEMMA StripeReleased ==
    ASSUME RegistryInv, ReceiptInv, Once', [Next]_vars, NEW r \in Readers, client \in ReceiptClients,
           NEW i \in Ids, i = client.reader[r].id, issuer.stripe[i] = r,
           UNCHANGED <<map, sessions, starts, maint>>,
           \A j \in Ids : disk'[j].snap = disk[j].snap,
           \A j \in Ids \ {i} : /\ disk'[j].receipt = disk[j].receipt
                                /\ issuer'.stripe[j] = issuer.stripe[j]
                                /\ issuer'.cache[j] = issuer.cache[j]
                                /\ issuer'.unpersisted[j] = issuer.unpersisted[j],
           issuer'.stripe[i] = None,
           client' \in ReceiptClients, client'.kind = "receipt", client.kind = "receipt",
           client'.reader[r].pc = "done", client'.reader[r].id = i,
           \A q \in Readers \ {r} : client'.reader[q] = client.reader[q],
           \A s \in Starts : IdOf(s) # i => client'.served[s] = client.served[s],
           NEW b \in Nat, \A x \in Nat : Copy(i, x)' => x = b,
           \A x \in Nat : Copy(i, x)' => disk'[i].receipt # NoReceipt \/ issuer'.unpersisted[i] # NoReceipt
    PROVE  ReceiptInv'
<1>1. \A j \in Ids \ {i} : \A x : Copy(j, x)' <=> Copy(j, x)
  BY DEF Copy
<1>2. CopiesAgree'
  <2> SUFFICES ASSUME NEW j \in Ids, NEW x \in Nat, NEW y \in Nat, Copy(j, x)', Copy(j, y)'
               PROVE  x = y
    BY DEF CopiesAgree
  <2>1. CASE j = i
    BY <2>1
  <2>2. CASE j # i
    <3>1. Copy(j, x) /\ Copy(j, y)
      BY <1>1, <2>2
    <3> QED
      BY <3>1 DEF ReceiptInv, CopiesAgree
  <2> QED
    BY <2>1, <2>2
<1>3. CopiesBacked'
  <2> SUFFICES ASSUME NEW j \in Ids, NEW x \in Nat, Copy(j, x)'
               PROVE  \/ disk'[j].receipt # NoReceipt \/ issuer'.unpersisted[j] # NoReceipt
                      \/ Forgotten(j)'
    BY DEF CopiesBacked
  <2>1. CASE j = i
    BY <2>1
  <2>2. CASE j # i
    <3>1. Copy(j, x)
      BY <1>1, <2>2
    <3>2. Forgotten(j) => Forgotten(j)'
      BY <2>2, ForgottenStays DEF ReceiptInv
    <3> QED
      BY <2>2, <3>1, <3>2 DEF ReceiptInv, CopiesBacked
  <2> QED
    BY <2>1, <2>2
<1>4. StripeInv'
  <2> SUFFICES ASSUME NEW q \in Readers, client'.reader[q].pc = "store"
               PROVE  /\ client'.reader[q].id \in Ids /\ issuer'.stripe[client'.reader[q].id] = q
                      /\ \A x \in Nat : Copy(client.reader[q].id, x)'
                            => x = disk'[client'.reader[q].id].receipt
    BY DEF StripeInv
  <2>1. q # r /\ client'.reader[q] = client.reader[q]
    OBVIOUS
  <2>2. /\ client.reader[q].id \in Ids /\ issuer.stripe[client.reader[q].id] = q
        /\ \A x \in Nat : Copy(client.reader[q].id, x) => x = disk[client.reader[q].id].receipt
    BY <2>1 DEF ReceiptInv, StripeInv
  <2>3. client.reader[q].id # i
    BY <2>1, <2>2
  <2> QED
    BY <1>1, <2>1, <2>2, <2>3
<1>5. SweepInv'
  <2>1. r # "gc" /\ None # "gc"
    BY RegistryConstants DEF None
  <2>2. maint.pc = "gc_forget" => i \notin maint.picked
    BY <2>1 DEF ReceiptInv, SweepInv
  <2>3. \A j \in maint.picked : j \in Ids
    BY DEF RegistryInv, RegistryShape, MaintRecords
  <2>4. maint.pc = "receipts" => \A j \in maint.todo : j \in Ids /\ Over(j)' /\ Vacant(j)'
    BY DEF ReceiptInv, SweepInv, Over, Committed, Ended, Vacant, Reserved
  <2>5. maint.pc = "gc_forget" => \A j \in maint.picked : issuer'.stripe[j] = "gc" /\ disk'[j].snap = None
    BY <2>2, <2>3 DEF ReceiptInv, SweepInv
  <2>6. \A j \in Ids : issuer'.stripe[j] = "gc" => maint.pc = "gc_forget" /\ j \in maint.picked
    BY <2>1 DEF ReceiptInv, SweepInv
  <2> QED
    BY <2>4, <2>5, <2>6 DEF SweepInv
<1>6. ClientShape'
  BY DEF ClientShape, ReceiptClients, ReceiptInv
<1> QED
  BY <1>2, <1>3, <1>4, <1>5, <1>6 DEF ReceiptInv

\* The stored receipt is served, or a new one where there was none at all.
LEMMA ReaderStores ==
    ASSUME RegistryInv, ReceiptInv, Once', NEW r \in Readers, ReceiptStore(r)
    PROVE  ReceiptInv'
<1>0. PICK i \in Ids : i = client.reader[r].id
  BY DEF ReceiptStore, ReceiptInv, StripeInv
<1> DEFINE mem == client.reader[r].in_memory
           n == issuer.built + 1
           unlocked == [issuer EXCEPT !.stripe[i] = None]
           kept(b) == [unlocked EXCEPT !.cache[i] = IF mem THEN b ELSE @]
<1>1. [Next]_vars
  BY DEF Next, ClientNext
<1>2. /\ client \in ReceiptClients /\ client.kind = "receipt" /\ UNCHANGED <<map, sessions, starts, maint>>
      /\ issuer.stripe[i] = r
      /\ \A x \in Nat : Copy(i, x) => x = disk[i].receipt
      /\ issuer \in IssuerRecords /\ disk \in [Ids -> DiskRecords]
  BY <1>0 DEF ReceiptStore, ReceiptInv, ClientShape, StripeInv, RegistryInv, RegistryShape
<1>3. n \in Nat \ {NoReceipt} /\ disk[i].receipt \in Nat
  BY <1>2 DEF IssuerRecords, NoReceipt, DiskRecords
<1>4. /\ \/ Refuse(r) /\ issuer' = unlocked /\ UNCHANGED disk
         \/ /\ disk[i].receipt # NoReceipt /\ Serve(r, disk[i].receipt)
            /\ issuer' = kept(disk[i].receipt) /\ UNCHANGED disk
         \/ /\ disk[i].receipt = NoReceipt /\ Serve(r, n)
            /\ \/ /\ disk' = [disk EXCEPT ![i].receipt = n]
                  /\ issuer' = [kept(n) EXCEPT !.built = n]
               \/ /\ issuer' = [unlocked EXCEPT !.unpersisted[i] = n, !.built = n]
                  /\ UNCHANGED disk
  BY <1>0 DEF ReceiptStore
<1> HIDE DEF mem, n
<1>5. /\ unlocked \in IssuerRecords /\ unlocked.stripe = [issuer.stripe EXCEPT ![i] = None]
      /\ unlocked.cache = issuer.cache /\ unlocked.unpersisted = issuer.unpersisted
  BY <1>2 DEF IssuerRecords
<1> HIDE DEF unlocked
<1>6. ASSUME NEW b \in Nat
      PROVE  /\ kept(b) \in IssuerRecords /\ kept(b).stripe = unlocked.stripe
             /\ kept(b).unpersisted = issuer.unpersisted
             /\ kept(b).cache = [issuer.cache EXCEPT ![i] = IF mem THEN b ELSE @]
  BY <1>5 DEF IssuerRecords
<1> HIDE DEF kept
<1>7. CASE Refuse(r) /\ issuer' = unlocked /\ UNCHANGED disk
  <2>1. /\ client' \in ReceiptClients /\ client'.kind = "receipt"
        /\ client'.reader[r].pc = "done" /\ client'.reader[r].id = client.reader[r].id
        /\ client'.served = client.served
        /\ \A q \in Readers \ {r} : client'.reader[q] = client.reader[q]
    BY <1>2, <1>7, RefusedFacts DEF Refuse
  <2>2. /\ issuer'.stripe[i] = None /\ \A j \in Ids \ {i} : issuer'.stripe[j] = issuer.stripe[j]
        /\ issuer'.cache = issuer.cache /\ issuer'.unpersisted = issuer.unpersisted
    BY <1>2, <1>5, <1>7 DEF IssuerRecords
  <2>3. \A x : Copy(i, x)' <=> Copy(i, x)
    BY <1>2, <1>7, <2>1, <2>2 DEF Copy
  <2>4. \A x \in Nat : Copy(i, x)' => x = disk[i].receipt /\ disk'[i].receipt # NoReceipt
    BY <1>2, <1>7, <2>3 DEF Copy
  <2>6. /\ \A j \in Ids : disk'[j].snap = disk[j].snap
        /\ \A j \in Ids \ {i} : /\ disk'[j].receipt = disk[j].receipt
                                /\ issuer'.stripe[j] = issuer.stripe[j]
                                /\ issuer'.cache[j] = issuer.cache[j]
                                /\ issuer'.unpersisted[j] = issuer.unpersisted[j]
        /\ issuer'.stripe[i] = None /\ client'.reader[r].id = i
        /\ \A s \in Starts : IdOf(s) # i => client'.served[s] = client.served[s]
        /\ \A x \in Nat : Copy(i, x)' => x = disk[i].receipt
        /\ \A x \in Nat : Copy(i, x)' =>
             disk'[i].receipt # NoReceipt \/ issuer'.unpersisted[i] # NoReceipt
    BY <1>0, <1>7, <2>1, <2>2, <2>4
  <2> QED
    BY <1>0, <1>1, <1>2, <1>3, <2>1, <2>6, StripeReleased
<1>8. ASSUME NEW b \in Nat \ {NoReceipt}, Serve(r, b), \A x \in Nat : Copy(i, x) => x = b,
             \A j \in Ids \ {i} : disk'[j] = disk[j],
             disk'[i].snap = disk[i].snap,
             disk'[i].receipt \in {NoReceipt, b},
             issuer'.stripe = unlocked.stripe,
             issuer'.cache \in [Ids -> Nat], issuer'.unpersisted \in [Ids -> Nat],
             \A j \in Ids \ {i} : /\ issuer'.cache[j] = issuer.cache[j]
                                  /\ issuer'.unpersisted[j] = issuer.unpersisted[j],
             issuer'.cache[i] \in {b, issuer.cache[i]},
             issuer'.unpersisted[i] \in {b, issuer.unpersisted[i]},
             disk'[i].receipt # NoReceipt \/ issuer'.unpersisted[i] # NoReceipt
      PROVE  ReceiptInv'
  <2>1. /\ client' \in ReceiptClients /\ client'.kind = "receipt"
        /\ client'.reader[r].pc = "done" /\ client'.reader[r].id = client.reader[r].id
        /\ \A q \in Readers \ {r} : client'.reader[q] = client.reader[q]
        /\ \A s \in Starts :
             /\ client'.served[s] \subseteq client.served[s] \cup {b}
             /\ IdOf(s) # i => client'.served[s] = client.served[s]
    BY <1>0, <1>2, <1>8, ServedFacts
  <2>2. \A x \in Nat : Copy(i, x)' => Copy(i, x) \/ x = b
    BY <1>2, <1>8, <2>1 DEF Copy
  <2>3. \A x \in Nat : Copy(i, x)' => x = b
    BY <1>8, <2>2
  <2>4. issuer'.stripe[i] = None /\ \A j \in Ids \ {i} : issuer'.stripe[j] = issuer.stripe[j]
    BY <1>2, <1>5, <1>8 DEF IssuerRecords
  <2>5. /\ \A j \in Ids : disk'[j].snap = disk[j].snap
        /\ \A j \in Ids \ {i} : disk'[j].receipt = disk[j].receipt
    BY <1>8
  <2>6. /\ \A j \in Ids : disk'[j].snap = disk[j].snap
        /\ \A j \in Ids \ {i} : /\ disk'[j].receipt = disk[j].receipt
                                /\ issuer'.stripe[j] = issuer.stripe[j]
                                /\ issuer'.cache[j] = issuer.cache[j]
                                /\ issuer'.unpersisted[j] = issuer.unpersisted[j]
        /\ issuer'.stripe[i] = None /\ client'.reader[r].id = i
        /\ \A s \in Starts : IdOf(s) # i => client'.served[s] = client.served[s]
        /\ \A x \in Nat : Copy(i, x)' => x = b
        /\ \A x \in Nat : Copy(i, x)' =>
             disk'[i].receipt # NoReceipt \/ issuer'.unpersisted[i] # NoReceipt
    BY <1>0, <1>8, <2>1, <2>3, <2>4, <2>5
  <2> QED
    BY <1>0, <1>1, <1>2, <1>8, <2>1, <2>6, StripeReleased
<1>9. CASE /\ disk[i].receipt # NoReceipt /\ Serve(r, disk[i].receipt)
           /\ issuer' = kept(disk[i].receipt) /\ UNCHANGED disk
  <2>1. /\ issuer' \in IssuerRecords /\ issuer'.stripe = unlocked.stripe
        /\ issuer'.unpersisted = issuer.unpersisted
        /\ issuer'.cache = [issuer.cache EXCEPT ![i] = IF mem THEN disk[i].receipt ELSE @]
    BY <1>3, <1>6, <1>9
  <2>2. /\ issuer'.cache \in [Ids -> Nat] /\ issuer'.unpersisted \in [Ids -> Nat]
        /\ issuer'.cache[i] \in {disk[i].receipt, issuer.cache[i]}
        /\ \A j \in Ids \ {i} : issuer'.cache[j] = issuer.cache[j]
    BY <1>2, <2>1 DEF IssuerRecords
  <2> QED
    BY <1>2, <1>3, <1>8, <1>9, <2>1, <2>2
<1>10. ASSUME disk[i].receipt = NoReceipt PROVE \A x \in Nat : Copy(i, x) => x = n
  BY <1>2, <1>10 DEF Copy
<1>11. CASE /\ disk[i].receipt = NoReceipt /\ Serve(r, n)
            /\ disk' = [disk EXCEPT ![i].receipt = n]
            /\ issuer' = [kept(n) EXCEPT !.built = n]
  <2>1. /\ issuer'.stripe = unlocked.stripe /\ issuer'.unpersisted = issuer.unpersisted
        /\ issuer'.cache = [issuer.cache EXCEPT ![i] = IF mem THEN n ELSE @]
    BY <1>3, <1>6, <1>11 DEF IssuerRecords
  <2>2. /\ issuer'.cache \in [Ids -> Nat] /\ issuer'.unpersisted \in [Ids -> Nat]
        /\ issuer'.cache[i] \in {n, issuer.cache[i]}
        /\ \A j \in Ids \ {i} : issuer'.cache[j] = issuer.cache[j]
    BY <1>2, <1>3, <2>1 DEF IssuerRecords
  <2>3. \A j \in Ids \ {i} : disk'[j] = disk[j]
    BY <1>2, <1>11
  <2>4. disk'[i].snap = disk[i].snap /\ disk'[i].receipt = n
    <3>1. disk'[i] = [disk[i] EXCEPT !.receipt = n] /\ disk[i] \in DiskRecords
      BY <1>2, <1>11
    <3> QED
      BY <3>1 DEF DiskRecords
  <2> QED
    BY <1>3, <1>8, <1>10, <1>11, <2>1, <2>2, <2>3, <2>4
<1>12. CASE /\ disk[i].receipt = NoReceipt /\ Serve(r, n) /\ UNCHANGED disk
            /\ issuer' = [unlocked EXCEPT !.unpersisted[i] = n, !.built = n]
  <2>1. /\ issuer'.stripe = unlocked.stripe /\ issuer'.cache = issuer.cache
        /\ issuer'.unpersisted = [issuer.unpersisted EXCEPT ![i] = n]
    BY <1>3, <1>5, <1>12 DEF IssuerRecords
  <2>2. /\ issuer'.cache \in [Ids -> Nat] /\ issuer'.unpersisted \in [Ids -> Nat]
        /\ issuer'.unpersisted[i] = n
        /\ \A j \in Ids \ {i} : issuer'.unpersisted[j] = issuer.unpersisted[j]
    BY <1>2, <1>3, <2>1 DEF IssuerRecords
  <2> QED
    BY <1>3, <1>8, <1>10, <1>12, <2>1, <2>2
<1> QED
  BY <1>4, <1>7, <1>9, <1>11, <1>12

\* Every step keeps the receipts one.
LEMMA ReceiptsStep ==
    RegistryInv /\ ReceiptInv /\ [Next]_vars /\ Once' /\ ~maint'.raced => ReceiptInv'
<1> SUFFICES ASSUME RegistryInv, ReceiptInv, [Next]_vars, Once', ~maint'.raced PROVE ReceiptInv'
  OBVIOUS
<1>1. CASE MaintenanceNext
  BY <1>1, PassReceipts, EvictReceiptKeeps, GcDeleteReceipts, GcForgetReceipts DEF MaintenanceNext
<1>2. CASE ClientNext
  BY <1>2, ViewReceipts, ReaderAsks, ReaderCached, ReaderLocks, ReaderStores DEF ClientNext
<1>3. CASE UNCHANGED vars
  <2>1. UNCHANGED <<map, sessions, disk, starts, maint, issuer, client>>
    BY <1>3 DEF vars, kernel
  <2>2. ClientShape'
    BY <2>1 DEF ReceiptInv, ClientShape
  <2>3. SweepInv'
    BY <2>1, SweepRests DEF ReceiptInv
  <2> QED
    BY <2>1, <2>2, <2>3, ReceiptsRest
<1> QED
  BY <1>1, <1>2, <1>3, StartReceipts DEF Next

\* What the invariant says of copies is what the run checks.
LEMMA ReceiptImplies == RegistryInv /\ ReceiptInv => OneReceipt
<1> SUFFICES ASSUME RegistryInv, ReceiptInv, client.kind = "receipt"
             PROVE  /\ \A s \in Starts : Cardinality(client.served[s]) <= 1
                    /\ \A i \in Ids : issuer.cache[i] # NoReceipt /\ disk[i].receipt # NoReceipt
                                        => issuer.cache[i] = disk[i].receipt
  BY DEF OneReceipt
<1>1. ASSUME NEW s \in Starts PROVE Cardinality(client.served[s]) <= 1
  <2>1. IdOf(s) \in Ids /\ client.served[s] \subseteq Nat
    BY RegistryConstants DEF IdOf, ReceiptInv, ClientShape, ReceiptClients
  <2>2. \A x \in client.served[s] : x \in Nat /\ Copy(IdOf(s), x)
    BY DEF Copy, ReceiptInv, ClientShape, ReceiptClients
  <2>3. \A x, y \in client.served[s] : x = y
    BY <2>1, <2>2 DEF ReceiptInv, CopiesAgree
  <2>4. CASE client.served[s] = {}
    BY <2>4, FS_EmptySet
  <2>5. CASE client.served[s] # {}
    <3>1. PICK x : client.served[s] = {x}
      BY <2>3, <2>5
    <3> QED
      BY <3>1, FS_Singleton
  <2> QED
    BY <2>4, <2>5
<1>2. ASSUME NEW i \in Ids, issuer.cache[i] # NoReceipt, disk[i].receipt # NoReceipt
      PROVE  issuer.cache[i] = disk[i].receipt
  <2>1. /\ issuer.cache[i] \in Nat /\ disk[i].receipt \in Nat
        /\ Copy(i, issuer.cache[i]) /\ Copy(i, disk[i].receipt)
    BY <1>2 DEF Copy, RegistryInv, RegistryShape, IssuerRecords, DiskRecords
  <2> QED
    BY <1>2, <2>1 DEF ReceiptInv, CopiesAgree
<1> QED
  BY <1>1, <1>2

-----------------------------------------------------------------------------
(* Theorems.                                                               *)

\* The race is never forgotten, and no id that was accepted twice becomes one
\* that was accepted once.
LEMMA RaceStays ==
    ASSUME "raced" \in DOMAIN maint, [Next]_vars
    PROVE  "raced" \in DOMAIN maint' /\ (maint.raced => maint'.raced)
<1>1. CASE UNCHANGED maint
  BY <1>1
<1>2. CASE StartNext
  <2>1. ASSUME NEW s \in Starts, StartReserve(s), ~UNCHANGED maint
        PROVE  maint' = [maint EXCEPT !.raced = maint.raced \/ IdOf(s) \in maint.picked]
    BY <2>1 DEF StartReserve
  <2>2. CASE \E s \in Starts : StartReserve(s)
    BY <1>1, <2>1, <2>2
  <2>3. CASE ~\E s \in Starts : StartReserve(s)
    BY <1>1, <1>2, <2>3 DEF StartNext, StartCheck, StartExisting, StartStore, StartRollback,
                            StartAnnounce, Lapse, Age
  <2> QED
    BY <2>2, <2>3
<1>3. CASE MessageNext
  BY <1>1, <1>3 DEF MessageNext, MessageApply, MessageLookup, Pause, Resume
<1>4. CASE MaintenanceNext
  <2>1. CASE Tick \/ EvictBegin \/ EvictRemove \/ GcBegin \/ GcLock \/ GcEnd
    BY <2>1 DEF Tick, EvictBegin, EvictRemove, GcBegin, GcLock, GcEnd
  <2>2. ASSUME NEW s \in Starts, Cleanup(s) \/ EvictScan(s)
        PROVE  "raced" \in DOMAIN maint' /\ (maint.raced => maint'.raced)
    BY <2>2 DEF Cleanup, EvictScan
  <2>3. ASSUME NEW i \in Ids, EvictReceipt(i) \/ GcLook(i) \/ GcDelete(i) \/ GcForget(i)
        PROVE  "raced" \in DOMAIN maint' /\ (maint.raced => maint'.raced)
    BY <2>3 DEF EvictReceipt, GcLook, GcDelete, GcForget
  <2> QED
    BY <1>4, <2>1, <2>2, <2>3 DEF MaintenanceNext
<1>5. CASE ClientNext
  BY <1>1, <1>5
     DEF ClientNext, ListScan, ListLookup, ListEmit, ListRespond, WatchSubscribe, WatchBegin,
         WatchDrain, WatchLive, WatchSync, ReceiptCached, ReceiptLock, ReceiptStore, ReceiptAsk,
         kernel
<1>6. CASE UNCHANGED vars
  BY <1>1, <1>6 DEF vars, kernel
<1> QED
  BY <1>2, <1>3, <1>4, <1>5, <1>6 DEF Next

LEMMA OnceBefore ==
    ASSUME RegistryInv, [Next]_vars, Once'
    PROVE  Once
<1>1. ASSUME NEW s \in Starts, Accepted(s) PROVE Accepted(s)'
  <2>1. Committed(s)
    BY <1>1 DEF Accepted, Committed, RegistryInv, RegistryShape, StartRecords, None
  <2>2. Committed(s)'
    BY <2>1, OverForGood
  <2> QED
    BY <2>2 DEF Accepted, Committed
<1> QED
  BY <1>1 DEF Once, StartedOnce

\* Up to the first race the registry's invariant holds, and the receipts' while
\* no id was accepted twice besides.
UpToRace ==
    /\ "raced" \in DOMAIN maint
    /\ maint.raced \/ (RegistryInv /\ (Once => ReceiptInv))

LEMMA RaceBegins == Init => UpToRace
<1>1. Init => "raced" \in DOMAIN maint
  BY DEF Init
<1> QED
  BY <1>1, RegistryBegins, ReceiptsBegin DEF UpToRace

LEMMA RaceStep == UpToRace /\ [Next]_vars => UpToRace'
<1> SUFFICES ASSUME UpToRace, [Next]_vars PROVE UpToRace'
  OBVIOUS
<1>1. "raced" \in DOMAIN maint' /\ (maint.raced => maint'.raced)
  BY RaceStays DEF UpToRace
<1>2. CASE ~maint'.raced
  <2>1. RegistryInv /\ (Once => ReceiptInv)
    BY <1>1, <1>2 DEF UpToRace
  <2>2. RegistryInv'
    BY <1>2, <2>1, RegistryStep
  <2>3. Once' => ReceiptInv'
    BY <1>2, <2>1, OnceBefore, ReceiptsStep
  <2> QED
    BY <1>1, <2>2, <2>3 DEF UpToRace
<1> QED
  BY <1>1, <1>2 DEF UpToRace

\* Concurrent starts are safe (process_session_start), for any number of ids,
\* senders and starts and any max_open_sessions: a rolled-back start leaves
\* nothing in its id's log, the snapshot of an id is of a session its log
\* holds, and no sender has more open sessions than its limit, up to the first
\* start that takes an id between the collector's look at it and its delete.
THEOREM StartsTheorem == Spec => []StartsSound
<1>1. UpToRace => StartsSound
  BY RegistryImplies DEF UpToRace, StartsSound
<1> QED
  BY <1>1, RaceBegins, RaceStep, PTL DEF Spec

\* Eviction and disk GC, which check a session in one step and remove its id
\* in a later one, and the rollback of a start, beside any starts of the same
\* id: an id is taken out of the registry only when the session it maps to has
\* ended, or behind a start that took an id the collector had judged by its
\* snapshot.
THEOREM DropsTheorem == Spec => OnlyTerminalDropped
<1>1. UpToRace /\ [Next]_vars =>
        [\A i \in Ids :
           map[i] # None /\ map'[i] # map[i] =>
               sessions'[map[i]].state \in Terminal \/ maint.raced]_vars
  BY DropsEnded DEF UpToRace
<1> QED
  BY <1>1, RaceBegins, RaceStep, PTL DEF Spec, OnlyTerminalDropped

\* Every reader of a session is served the same receipt (decision_receipt),
\* for any number of ids and of readers, however first requests, eviction,
\* disk GC, rolled-back starts and failing storage interleave, and with a
\* backend that keeps none, while no id was accepted twice.
THEOREM ReceiptTheorem == Spec => []OneReceipt
<1>1. UpToRace => OneReceipt
  BY ReceiptImplies DEF UpToRace, OneReceipt, Once
<1> QED
  BY <1>1, RaceBegins, RaceStep, PTL DEF Spec
=============================================================================
