------------------------------ MODULE Anchors -------------------------------
(***************************************************************************)
(* Trace anchors: the span of the accepted SessionStart, to which the      *)
(* later spans of its session are linked (src/runtime.rs capture_anchor to *)
(* prune_anchors, src/telemetry/anchor.rs, process.rs and transition.rs,   *)
(* and the anchor records of the backends).                                *)
(*                                                                         *)
(* A start is numbered, and its number is its anchor.  The cache is filled *)
(* at the start and, after a restart, from the record in storage, by       *)
(* requests that hold no lock of the session; the record is written behind *)
(* the start's answer.  Entries leave with their session: maintenance      *)
(* evicts and prunes, disk GC deletes, and a sweep at startup removes the  *)
(* records of sessions that are gone.  An id names one session, whose start *)
(* may be retried.                                                         *)
(***************************************************************************)
EXTENDS Integers, FiniteSets

CONSTANTS
    AnchorIds,       \* session ids
    Spans,           \* envelopes processed at a time, none of them a start
    MaxSessionStarts, \* bound: SessionStarts
    MaxCrashes       \* bound: restarts

ASSUME AnchorsConstants == MaxSessionStarts \in Nat /\ MaxCrashes \in Nat

VARIABLES
    creates,   \* whether the backend stores a record without its session
    home,      \* the registry, by id: phase and number of the session
    cache,     \* AnchorCache: a number, Negative or Miss
    kept,      \* storage, by id: the session logged, its snapshot, its end, its anchor
    writes,    \* anchor records on their way to storage
    lookup,    \* the lookups under way, one per span and the kernel's
    upkeep,    \* the maintenance pass
    sweep,     \* the orphan sweep
    begun,     \* history: the starts so far
    spent,     \* history: the ids of the starts that were accepted
    crashes,
    misled,    \* history: the links to a span that is not the session's start
    swept      \* history: the sessions whose record the sweep took while they lived

anchorVars == <<creates, home, cache, kept, writes, lookup, upkeep, sweep, begun, spent, crashes,
                misled, swept>>

Miss == -1
Negative == 0
NotYet == 0     \* the session of a lookup whose start is not accepted yet
Away == [phase |-> "absent", n |-> 0, captured |-> FALSE]
Nowhere == [logged |-> 0, snap |-> 0, over |-> FALSE, anchor |-> 0]
NoLookup == [pc |-> "idle"]
Lookups == Spans \cup {"kernel"}

Resident(i) == home[i].phase # "absent"

NothingTraced ==
    /\ creates \in BOOLEAN
    /\ home = [i \in AnchorIds |-> Away]
    /\ cache = [i \in AnchorIds |-> Miss]
    \* a binary without anchors deleted old sessions and left their records
    /\ spent \in IF creates THEN SUBSET AnchorIds ELSE {{}}
    /\ kept = [i \in AnchorIds |->
                 [Nowhere EXCEPT !.anchor = IF i \in spent THEN MaxSessionStarts + 1 ELSE 0]]
    /\ writes = {} /\ lookup = [r \in Lookups |-> NoLookup]
    /\ sweep = [pc |-> "due", keys |-> {}]
    /\ begun = 0 /\ crashes = 0 /\ misled = {} /\ swept = {}

AnchorInit == NothingTraced /\ upkeep = [pc |-> "idle", gone |-> {}]

-----------------------------------------------------------------------------
(* The start of a session.                                                 *)

\* The placeholder is in the registry before anything is stored.
InsertStart(i) ==
    /\ ~Resident(i) /\ begun < MaxSessionStarts
    /\ i \notin spent
    /\ begun' = begun + 1
    /\ home' = [home EXCEPT ![i] = [phase |-> "starting", n |-> begun + 1, captured |-> FALSE]]
    /\ UNCHANGED <<creates, cache, kept, writes, lookup, upkeep, sweep, spent, crashes, misled, swept>>

RollbackStart(i) ==
    /\ home[i].phase = "starting"
    /\ home' = [home EXCEPT ![i] = Away]
    /\ UNCHANGED <<creates, cache, kept, writes, lookup, upkeep, sweep, begun, spent, crashes, misled,
                   swept>>

\* The SessionStart is logged: capture_anchor puts its span in the cache, in
\* the place of whatever is there.
CommitStart(i) ==
    /\ home[i].phase = "starting"
    /\ home' = [home EXCEPT ![i].phase = "saving", ![i].captured = TRUE]
    /\ cache' = [cache EXCEPT ![i] = home[i].n]
    /\ kept' = [kept EXCEPT ![i].logged = home[i].n, ![i].over = FALSE]
    /\ spent' = spent \cup {i}
    /\ UNCHANGED <<creates, writes, lookup, upkeep, sweep, begun, crashes, misled, swept>>

\* The snapshot is saved, or not; persist_anchor only behind a stored one.
SaveStart(i) ==
    /\ home[i].phase = "saving"
    /\ home' = [home EXCEPT ![i].phase = "running"]
    /\ \/ /\ kept' = [kept EXCEPT ![i].snap = home[i].n]
          /\ writes' = writes \cup {<<i, home[i].n>>}
       \/ UNCHANGED <<kept, writes>>
    /\ UNCHANGED <<creates, cache, lookup, upkeep, sweep, begun, spent, crashes, misled, swept>>

\* The spawned write: it may fail, and a backend that keeps the record in the
\* session's directory does not create that directory.
StoreAnchor(w) ==
    /\ w \in writes
    /\ writes' = writes \ {w}
    /\ \/ /\ creates \/ kept[w[1]].logged # 0
          /\ kept' = [kept EXCEPT ![w[1]].anchor = w[2]]
       \/ UNCHANGED kept
    /\ UNCHANGED <<creates, home, cache, lookup, upkeep, sweep, begun, spent, crashes, misled, swept>>

-----------------------------------------------------------------------------
(* Lookups: by the span of an envelope (trace_anchor, once the session is  *)
(* seen in the registry), and by the kernel for the span of a transition,  *)
(* under the session's mutex (observe_transition).                         *)

Ask(i) ==
    [pc |-> "lookup", id |-> i, captured |-> home[i].captured,
     of |-> IF home[i].phase = "starting" THEN NotYet ELSE home[i].n]

TraceAnchor(r, i) ==
    /\ r \in Spans /\ lookup[r].pc = "idle" /\ Resident(i)
    /\ lookup' = [lookup EXCEPT ![r] = Ask(i)]
    /\ UNCHANGED <<creates, home, cache, kept, writes, upkeep, sweep, begun, spent, crashes, misled,
                   swept>>

\* A transition to a terminal state, logged before it is observed.
ObserveTransition(i) ==
    /\ home[i].phase = "running" /\ lookup["kernel"].pc = "idle"
    /\ home' = [home EXCEPT ![i].phase = "over"]
    /\ kept' = [kept EXCEPT ![i].over = TRUE]
    /\ lookup' = [lookup EXCEPT !["kernel"] = Ask(i)]
    /\ UNCHANGED <<creates, cache, writes, upkeep, sweep, begun, spent, crashes, misled, swept>>

\* A link to the session's own start; or to none, unless the start was
\* accepted by this process and the session is still there.
Own(r, anchor) ==
    \/ lookup[r].of = NotYet
    \/ anchor = lookup[r].of
    \/ anchor = Negative /\ ~(lookup[r].captured /\ Resident(lookup[r].id))

Link(r, anchor) ==
    /\ misled' = misled \cup (IF Own(r, anchor) THEN {} ELSE {[of |-> lookup[r].of, to |-> anchor]})
    /\ lookup' = [lookup EXCEPT ![r] = NoLookup]

LookupAnchor(r) ==
    LET i == lookup[r].id IN
    /\ lookup[r].pc = "lookup"
    /\ IF cache[i] # Miss THEN Link(r, cache[i])
       ELSE lookup' = [lookup EXCEPT ![r].pc = "load"] /\ UNCHANGED misled
    /\ UNCHANGED <<creates, home, cache, kept, writes, upkeep, sweep, begun, spent, crashes, swept>>

\* A record that is missing, unreadable or too slow to arrive is none.
LoadAnchor(r) ==
    /\ lookup[r].pc = "load"
    /\ \E loaded \in {kept[lookup[r].id].anchor, Negative} :
         lookup' = [lookup EXCEPT ![r] = [pc |-> "loaded", id |-> @.id, of |-> @.of,
                                          captured |-> @.captured, value |-> loaded]]
    /\ UNCHANGED <<creates, home, cache, kept, writes, upkeep, sweep, begun, spent, crashes, misled,
                   swept>>

\* Mutant: what storage held replaces what a start put there meanwhile.
PutLoadedReplacing(i, loaded) == loaded

\* AnchorCache::put_loaded: an entry that is there stays.
PutLoaded(i, loaded) == IF cache[i] = Miss THEN loaded ELSE cache[i]

CacheLoaded(r) ==
    LET i == lookup[r].id IN
    /\ lookup[r].pc = "loaded"
    /\ cache' = [cache EXCEPT ![i] = PutLoaded(i, lookup[r].value)]
    /\ Link(r, cache'[i])
    /\ UNCHANGED <<creates, home, kept, writes, upkeep, sweep, begun, spent, crashes, swept>>

-----------------------------------------------------------------------------
(* Maintenance.                                                            *)

\* The session's mutex is held while its transition is observed.
HeldByKernel(i) == IF lookup["kernel"].pc = "idle" THEN FALSE ELSE lookup["kernel"].id = i

\* The terminal sessions old enough, read under their mutexes, leave the
\* registry; the pass goes on without them, or without any.
EvictSessions(gone) ==
    /\ upkeep.pc = "idle"
    /\ gone \subseteq {i \in AnchorIds : home[i].phase = "over"}
    /\ \A i \in gone : ~HeldByKernel(i)
    /\ home' = [i \in AnchorIds |-> IF i \in gone THEN Away ELSE home[i]]
    /\ upkeep' = [pc |-> IF gone = {} THEN "prune" ELSE "forget", gone |-> gone]
    /\ UNCHANGED <<creates, cache, kept, writes, lookup, sweep, begun, spent, crashes, misled, swept>>

ForgetAnchors ==
    /\ upkeep.pc = "forget"
    /\ cache' = [i \in AnchorIds |-> IF i \in upkeep.gone THEN Miss ELSE cache[i]]
    /\ upkeep' = [pc |-> "prune", gone |-> {}]
    /\ UNCHANGED <<creates, home, kept, writes, lookup, sweep, begun, spent, crashes, misled, swept>>

\* Mutant: an anchor stays until its own session is evicted.
PruneAnchorsNot ==
    /\ upkeep.pc = "prune"
    /\ upkeep' = [pc |-> "idle", gone |-> {}]
    /\ UNCHANGED <<creates, home, cache, kept, writes, lookup, sweep, begun, spent, crashes, misled,
                   swept>>

\* Under the registry's read lock: only the anchors of residents stay.
PruneAnchors ==
    /\ upkeep.pc = "prune"
    /\ cache' = [i \in AnchorIds |-> IF Resident(i) THEN cache[i] ELSE Miss]
    /\ upkeep' = [pc |-> "idle", gone |-> {}]
    /\ UNCHANGED <<creates, home, kept, writes, lookup, sweep, begun, spent, crashes, misled, swept>>

\* Disk GC: a terminal session that is not in memory is deleted with its
\* record, and its anchor forgotten.
GcAnchor(i) ==
    /\ ~Resident(i) /\ kept[i].logged # 0 /\ kept[i].over
    /\ kept' = [kept EXCEPT ![i] = Nowhere]
    /\ cache' = [cache EXCEPT ![i] = Miss]
    /\ UNCHANGED <<creates, home, writes, lookup, upkeep, sweep, begun, spent, crashes, misled, swept>>

-----------------------------------------------------------------------------
(* The orphan sweep, once at startup and beside the serving.  Its iterator *)
(* sees the keys of one moment; whether a key's session is there is asked  *)
(* later, and the deletes are written later still.                         *)

SweepScan ==
    /\ sweep.pc = "due"
    /\ sweep' = [pc |-> "check", keys |-> {i \in AnchorIds : kept[i].anchor # 0}]
    /\ UNCHANGED <<creates, home, cache, kept, writes, lookup, upkeep, begun, spent, crashes, misled,
                   swept>>

SweepCheck ==
    /\ sweep.pc = "check"
    /\ sweep' = [pc |-> "delete", keys |-> {i \in sweep.keys : kept[i].snap = 0}]
    /\ UNCHANGED <<creates, home, cache, kept, writes, lookup, upkeep, begun, spent, crashes, misled,
                   swept>>

SweepDelete ==
    /\ sweep.pc = "delete"
    /\ kept' = [i \in AnchorIds |-> IF i \in sweep.keys THEN [kept[i] EXCEPT !.anchor = 0] ELSE kept[i]]
    /\ swept' = swept \cup {kept[i].anchor : i \in {j \in sweep.keys :
                                kept[j].logged # 0 /\ kept[j].anchor = kept[j].logged}}
    /\ sweep' = [pc |-> "done", keys |-> {}]
    /\ UNCHANGED <<creates, home, cache, writes, lookup, upkeep, begun, spent, crashes, misled>>

\* The process dies and is started again: sessions come back from their logs,
\* the cache comes back empty, and writes under way are lost.
RestartAnchors ==
    /\ crashes < MaxCrashes
    /\ crashes' = crashes + 1
    /\ home' = [i \in AnchorIds |->
                  IF kept[i].logged = 0 THEN Away
                  ELSE [phase |-> IF kept[i].over THEN "over" ELSE "running", n |-> kept[i].logged,
                        captured |-> FALSE]]
    /\ cache' = [i \in AnchorIds |-> Miss]
    /\ writes' = {} /\ lookup' = [r \in Lookups |-> NoLookup]
    /\ upkeep' = [pc |-> "idle", gone |-> {}] /\ sweep' = [pc |-> "due", keys |-> {}]
    /\ UNCHANGED <<creates, kept, begun, spent, misled, swept>>

Upkeep == (\E gone \in SUBSET AnchorIds : EvictSessions(gone)) \/ ForgetAnchors \/ PruneAnchors

AnchorNext ==
    \/ \E i \in AnchorIds :
         \/ InsertStart(i) \/ RollbackStart(i) \/ CommitStart(i) \/ SaveStart(i)
         \/ ObserveTransition(i) \/ GcAnchor(i)
         \/ \E r \in Lookups : TraceAnchor(r, i)
    \/ \E w \in writes : StoreAnchor(w)
    \/ \E r \in Lookups : LookupAnchor(r) \/ LoadAnchor(r) \/ CacheLoaded(r)
    \/ Upkeep
    \/ SweepScan \/ SweepCheck \/ SweepDelete
    \/ RestartAnchors

AnchorSpec == AnchorInit /\ [][AnchorNext]_anchorVars

\* The maintenance loop runs on every tick (src/main.rs).
AnchorFairness == WF_anchorVars(Upkeep)

-----------------------------------------------------------------------------
(* Properties.                                                             *)

\* A span is linked to the start of its own session or to none, and to its
\* own when that start was accepted by this process and the session is still
\* there, whatever loads, evictions, prunes and sweeps run beside it; and the
\* sweep never takes the record of a session that lives (the comments on
\* put_loaded, persist_anchor and prune_anchors in src/runtime.rs).
AnchorsSound == misled = {} /\ swept = {}

\* What a late load leaves behind for a session that is gone does not stay:
\* the cache comes back to the sessions in memory (prune_anchors).
CacheDrains ==
    \A i \in AnchorIds :
        (~Resident(i) /\ cache[i] # Miss) ~> (Resident(i) \/ cache[i] = Miss)
=============================================================================
