------------------------------ MODULE Registry ------------------------------
(***************************************************************************)
(* The sessions a runtime holds and who may see them: the registry map and *)
(* its per-session mutexes (macp-storage/src/registry.rs), the reservation *)
(* a SessionStart makes in it, the maintenance passes that expire, evict   *)
(* and delete sessions (src/runtime.rs), and the three clients that read   *)
(* across it: ListSessions (src/pagination.rs), WatchSessions              *)
(* (src/watch_sync.rs) and GetDecisionReceipt (src/receipts.rs).           *)
(*                                                                         *)
(* A session is named by the SessionStart that made it: an id may be       *)
(* started more than once, and each start builds a session of its own.     *)
(* What a message does to a session is the module Kernel's business; here  *)
(* one either resolves it or is refused.  Ages and deadlines are flags     *)
(* that time sets.  The clients never act on one another, so a behaviour   *)
(* follows one kind of them.                                               *)
(***************************************************************************)
EXTENDS Integers, Sequences, FiniteSets, SequencesExt

CONSTANTS
    Ids,             \* session ids, numbered in byte order
    Starts,          \* the SessionStart requests
    StartOf,         \* what each carries: id, sender and message_id
    MaxOpen,         \* max_open_sessions of every sender
    PageSizes,       \* the page_size values a client asks for
    DefaultPageSize, \* list_sessions_default_page_size
    MaxPageSize,     \* list_sessions_max_page_size
    BusCapacity,     \* capacity of session_lifecycle_bus
    PendingLimit,    \* PENDING_EVENT_LIMIT
    Readers,         \* concurrent GetDecisionReceipt calls
    Scenarios        \* bounds: the client followed, if any, the starts sent,
                     \* how many messages, suspensions and maintenance ticks
                     \* there are, whether a snapshot may fail, and whether
                     \* the backend keeps receipts

ASSUME RegistryConstants ==
    /\ Ids \subseteq Nat \ {0} /\ IsFiniteSet(Ids)
    /\ "none" \notin Starts
    /\ StartOf \in [Starts -> [id : Ids, sender : STRING, message : STRING]]
    /\ MaxOpen \in Nat /\ PageSizes \subseteq Nat
    /\ DefaultPageSize \in Nat /\ MaxPageSize \in Nat
    /\ BusCapacity \in Nat \ {0} /\ PendingLimit \in Nat
    /\ {"none", "gc"} \cap Readers = {}
    /\ Scenarios \subseteq
         [client : {"none", "list", "watch", "receipt"}, starts : SUBSET Starts, messages : Nat,
          pauses : Nat, ticks : Nat, faults : BOOLEAN, durable : BOOLEAN]

None == "none"
NoReceipt == 0

VARIABLES
    map,       \* SessionRegistry.sessions: the session each id maps to
    sessions,  \* the sessions, as their mutexes guard them
    disk,      \* durable storage by id
    starts,    \* the SessionStart handlers
    message,   \* the handler of a session message
    maint,     \* the maintenance task; raced: history, a start has reserved
               \* an id between the collector's look at it and its delete
    bus,       \* every event sent on session_lifecycle_bus
    issuer,    \* ReceiptIssuer: stripe, cache and unpersisted, by id
    client,    \* the client followed
    left       \* what the scenario still allows

kernel == <<map, sessions, disk, starts, message, maint, bus>>
vars == <<kernel, issuer, client, left>>

-----------------------------------------------------------------------------
(* State.                                                                  *)

Terminal == {"Resolved", "Expired"}

\* held: its mutex is taken; lapsed: its TTL has passed; old: it has reached
\* the retention age; paused: history, it was suspended once.
NewSession(held) ==
    [state |-> "Open", held |-> held, lapsed |-> FALSE, old |-> FALSE, paused |-> FALSE]

IdOf(s) == StartOf[s].id
Resident == {i \in Ids : map[i] # None}
Free(s) == ~sessions[s].held

\* What storage holds of an id: the entries of its log, a SessionStart as the
\* session it starts; the session and state of its snapshot; its receipt.
Absent == [dir |-> FALSE, log |-> <<>>, snap |-> None, state |-> None, receipt |-> NoReceipt]

\* save_session, best effort: the records it may leave.
Saved(d, s, state) ==
    {[d EXCEPT !.snap = s, !.state = state]} \cup {e \in {d} : left.faults}

\* The empty page_token: the first page when sent, the last when returned.
EmptyToken == [version |-> "empty", cursor |-> 0]

Event(type, id) == [type |-> type, id |-> id]

\* The bus keeps what a watcher, if one is followed, may still receive.
Emit(type, id) ==
    bus' = IF client.kind = "watch" THEN Append(bus, Event(type, id)) ELSE bus

NewClient(kind) ==
    CASE kind = "none" -> [kind |-> "none"]
      [] kind = "list" ->
           [kind |-> "list", pc |-> "request", token |-> EmptyToken, page |-> <<>>,
            next |-> EmptyToken, handle |-> None, out |-> <<>>, stayed |-> {}]
      [] kind = "watch" ->
           [kind |-> "watch", pc |-> "off", from |-> 0, pos |-> 0, handles |-> {},
            snapshot |-> {}, synced |-> {}, pending |-> <<>>, created |-> <<>>]
      [] kind = "receipt" ->
           [kind |-> "receipt",
            reader |-> [r \in Readers |->
                [pc |-> "idle", id |-> 0, in_memory |-> FALSE, from |-> None, state |-> None]],
            served |-> [s \in Starts |-> {}]]

Init ==
    /\ map = [i \in Ids |-> None]
    /\ sessions = [s \in Starts |-> NewSession(FALSE)]
    /\ disk = [i \in Ids |-> Absent]
    /\ maint = [pc |-> "idle", todo |-> {}, picked |-> {}, stale |-> {}, handle |-> None,
                raced |-> FALSE]
    /\ bus = <<>>
    /\ issuer = [stripe |-> [i \in Ids |-> None], cache |-> [i \in Ids |-> NoReceipt],
                 unpersisted |-> [i \in Ids |-> NoReceipt], built |-> 0]
    /\ \E c \in Scenarios :
         /\ starts = [s \in Starts |-> [pc |-> IF s \in c.starts THEN "check" ELSE "done",
                                        handle |-> None, reply |-> None]]
         /\ message = [pc |-> "idle", handle |-> None]
         /\ left = [messages |-> c.messages, pauses |-> c.pauses, ticks |-> c.ticks,
                    faults |-> c.faults, durable |-> c.durable]
         /\ client = NewClient(c.client)

\* A traversal in progress keeps count of the ids that stay registered.
ClientSees(newMap) ==
    client' = IF client.kind = "list"
              THEN [client EXCEPT !.stayed = @ \ {i \in Ids : newMap[i] = None}]
              ELSE client

-----------------------------------------------------------------------------
(* SessionStart (process_session_start).                                   *)

Reply(s, r) == starts' = [starts EXCEPT ![s].pc = "done", ![s].reply = r, ![s].handle = None]

\* The existing-session check: the handle is taken under the map lock.
StartCheck(s) ==
    /\ starts[s].pc = "check"
    /\ starts' = [starts EXCEPT ![s].handle = map[IdOf(s)],
                                ![s].pc = IF map[IdOf(s)] = None THEN "reserve" ELSE "existing"]
    /\ UNCHANGED <<map, sessions, disk, message, maint, bus, issuer, client, left>>

\* Under the existing session's mutex.
StartExisting(s) ==
    /\ starts[s].pc = "existing" /\ Free(starts[s].handle)
    /\ Reply(s, IF StartOf[starts[s].handle].message = StartOf[s].message
                THEN "duplicate" ELSE "exists")
    /\ UNCHANGED <<map, sessions, disk, message, maint, bus, issuer, client, left>>

\* Mutant: only sessions that can be inspected count.
CountsOpenIfFree(a, s) ==
    /\ ~sessions[a].held
    /\ StartOf[a].sender = StartOf[s].sender
    /\ sessions[a].state = "Open" /\ ~sessions[a].lapsed

\* The open sessions max_open weighs: a session whose mutex is taken counts
\* whoever started it.
CountsOpen(a, s) ==
    \/ sessions[a].held
    \/ /\ StartOf[a].sender = StartOf[s].sender
       /\ sessions[a].state = "Open" /\ ~sessions[a].lapsed

OverLimit(s) == Cardinality({i \in Resident : CountsOpen(map[i], s)}) >= MaxOpen

\* The reservation, under the map's write lock; the session's own mutex is
\* taken before the session is published.
StartReserve(s) ==
    /\ starts[s].pc = "reserve"
    /\ \/ /\ map[IdOf(s)] # None
          /\ Reply(s, "exists")
          /\ UNCHANGED <<map, sessions, maint>>
       \/ /\ map[IdOf(s)] = None /\ OverLimit(s)
          /\ Reply(s, "rate_limited")
          /\ UNCHANGED <<map, sessions, maint>>
       \/ /\ map[IdOf(s)] = None /\ ~OverLimit(s)
          /\ map' = [map EXCEPT ![IdOf(s)] = s]
          /\ sessions' = [sessions EXCEPT ![s] = NewSession(TRUE)]
          /\ starts' = [starts EXCEPT ![s].pc = "store"]
          /\ maint' = [maint EXCEPT !.raced = @ \/ IdOf(s) \in maint.picked]
    /\ UNCHANGED <<disk, message, bus, issuer, client, left>>

\* create_session_storage, then the append that is the commit point, the
\* best-effort snapshot, and the mutex's release.
StartStore(s) ==
    /\ starts[s].pc = "store"
    /\ \/ /\ \E d \in Saved(disk[IdOf(s)], s, "Open") :
               disk' = [disk EXCEPT ![IdOf(s)] = [d EXCEPT !.log = Append(@, s), !.dir = TRUE]]
          /\ sessions' = [sessions EXCEPT ![s].held = FALSE]
          /\ starts' = [starts EXCEPT ![s].pc = "announce"]
       \/ /\ \E created \in BOOLEAN : disk' = [disk EXCEPT ![IdOf(s)].dir = @ \/ created]
          /\ starts' = [starts EXCEPT ![s].pc = "rollback"]
          /\ UNCHANGED sessions
    /\ UNCHANGED <<map, message, maint, bus, issuer, client, left>>

\* Mutant: the session is removed but not poisoned.
StartRollbackUnpoisoned(s) ==
    /\ starts[s].pc = "rollback"
    /\ sessions' = [sessions EXCEPT ![s].held = FALSE]
    /\ map' = [map EXCEPT ![IdOf(s)] = None]
    /\ Reply(s, "storage_failed")
    /\ ClientSees(map')
    /\ UNCHANGED <<disk, message, maint, bus, issuer, left>>

\* The rollback of a reservation: the session is poisoned, then removed.
StartRollback(s) ==
    /\ starts[s].pc = "rollback"
    /\ sessions' = [sessions EXCEPT ![s].state = "Expired", ![s].held = FALSE]
    /\ map' = [map EXCEPT ![IdOf(s)] = None]
    /\ Reply(s, "storage_failed")
    /\ ClientSees(map')
    /\ UNCHANGED <<disk, message, maint, bus, issuer, left>>

\* The Created event, after the mutex is released.
StartAnnounce(s) ==
    /\ starts[s].pc = "announce"
    /\ Emit("Created", IdOf(s))
    /\ Reply(s, "accepted")
    /\ UNCHANGED <<map, sessions, disk, message, maint, issuer, client, left>>

-----------------------------------------------------------------------------
(* Messages, suspension and the passing of time.                           *)

\* get_shared for a session message.
MessageLookup(i) ==
    /\ message.pc = "idle" /\ left.messages > 0 /\ map[i] # None
    /\ message' = [message EXCEPT !.pc = "apply", !.handle = map[i]]
    /\ left' = [left EXCEPT !.messages = @ - 1]
    /\ UNCHANGED <<map, sessions, disk, starts, maint, bus, issuer, client>>

\* A session is ended: the entry, the snapshot (best effort) and the event.
Finish(s, state) ==
    /\ sessions' = [sessions EXCEPT ![s].state = state]
    /\ \E d \in Saved(disk[IdOf(s)], s, state) :
         disk' = [disk EXCEPT ![IdOf(s)] = [d EXCEPT !.log = Append(@, state)]]
    /\ Emit(state, IdOf(s))

\* Under the session's mutex: an open session is resolved by the message, or
\* expired by it when its TTL has passed; any other refuses it.
MessageApply ==
    LET s == message.handle IN
    /\ message.pc = "apply" /\ Free(s)
    /\ message' = [message EXCEPT !.pc = "idle", !.handle = None]
    /\ \/ /\ sessions[s].state = "Open" /\ sessions[s].lapsed
          /\ Finish(s, "Expired")
       \/ /\ sessions[s].state = "Open" /\ ~sessions[s].lapsed
          /\ Finish(s, "Resolved")
       \/ /\ sessions[s].state # "Open"
          /\ UNCHANGED <<sessions, disk, bus>>
    /\ UNCHANGED <<map, starts, maint, issuer, client, left>>

\* SuspendSession and ResumeSession.
Pause(i) ==
    LET s == map[i] IN
    /\ s # None /\ left.pauses > 0
    /\ Free(s) /\ sessions[s].state = "Open" /\ ~sessions[s].lapsed
    /\ sessions' = [sessions EXCEPT ![s].state = "Suspended", ![s].paused = TRUE]
    /\ left' = [left EXCEPT !.pauses = @ - 1]
    /\ Emit("Suspended", i)
    /\ UNCHANGED <<map, disk, starts, message, maint, issuer, client>>

Resume(i) ==
    LET s == map[i] IN
    /\ s # None /\ Free(s) /\ sessions[s].state = "Suspended"
    /\ sessions' = [sessions EXCEPT ![s].state = "Open"]
    /\ Emit("Resumed", i)
    /\ UNCHANGED <<map, disk, starts, message, maint, issuer, client, left>>

\* A TTL passes.
Lapse(s) ==
    /\ sessions[s].state = "Open" /\ ~sessions[s].lapsed /\ map[IdOf(s)] = s
    /\ sessions' = [sessions EXCEPT ![s].lapsed = TRUE]
    /\ UNCHANGED <<map, disk, starts, message, maint, bus, issuer, client, left>>

\* A terminal session reaches the retention age.
Age(s) ==
    /\ sessions[s].state \in Terminal /\ ~sessions[s].old
    /\ sessions' = [sessions EXCEPT ![s].old = TRUE]
    /\ UNCHANGED <<map, disk, starts, message, maint, bus, issuer, client, left>>

-----------------------------------------------------------------------------
(* The maintenance task: cleanup, eviction and disk GC, one after another. *)

\* A tick: the cleanup snapshots the handles.
Tick ==
    /\ maint.pc = "idle" /\ left.ticks > 0
    /\ maint' = [maint EXCEPT !.pc = "cleanup", !.todo = {map[i] : i \in Resident}]
    /\ left' = [left EXCEPT !.ticks = @ - 1]
    /\ UNCHANGED <<map, sessions, disk, starts, message, bus, issuer, client>>

\* cleanup_expired_sessions, one session: re-checked under its mutex.
Cleanup(s) ==
    /\ maint.pc = "cleanup" /\ s \in maint.todo /\ Free(s)
    /\ maint' = [maint EXCEPT !.todo = @ \ {s}]
    /\ \/ /\ sessions[s].state = "Open" /\ sessions[s].lapsed
          /\ Finish(s, "Expired")
       \/ /\ ~(sessions[s].state = "Open" /\ sessions[s].lapsed)
          /\ UNCHANGED <<sessions, disk, bus>>
    /\ UNCHANGED <<map, starts, message, issuer, client, left>>

\* The sessions older than the cutoff a pass computes as it begins.
Stale == {s \in Starts : sessions[s].old}

\* evict_stale_sessions snapshots the handles again.
EvictBegin ==
    /\ maint.pc = "cleanup" /\ maint.todo = {}
    /\ maint' = [maint EXCEPT !.pc = "scan", !.todo = {map[i] : i \in Resident},
                              !.stale = Stale]
    /\ UNCHANGED <<map, sessions, disk, starts, message, bus, issuer, client, left>>

\* Mutant: a session that is no longer Open is stale.
EvictScanNotOpen(s) ==
    /\ maint.pc = "scan" /\ s \in maint.todo /\ Free(s)
    /\ maint' = [maint EXCEPT !.todo = @ \ {s},
                              !.picked = IF sessions[s].state # "Open"
                                         THEN @ \cup {IdOf(s)} ELSE @]
    /\ UNCHANGED <<map, sessions, disk, starts, message, bus, issuer, client, left>>

\* The sessions to evict are picked by id, each under its mutex.
EvictScan(s) ==
    /\ maint.pc = "scan" /\ s \in maint.todo /\ Free(s)
    /\ maint' = [maint EXCEPT !.todo = @ \ {s},
                              !.picked = IF sessions[s].state \in Terminal /\ s \in maint.stale
                                         THEN @ \cup {IdOf(s)} ELSE @]
    /\ UNCHANGED <<map, sessions, disk, starts, message, bus, issuer, client, left>>

\* The picked ids are removed under one write lock.
EvictRemove ==
    /\ maint.pc = "scan" /\ maint.todo = {}
    /\ map' = [i \in Ids |-> IF i \in maint.picked THEN None ELSE map[i]]
    /\ maint' = [maint EXCEPT !.pc = "receipts", !.todo = maint.picked, !.picked = {}]
    /\ ClientSees(map')
    /\ UNCHANGED <<sessions, disk, starts, message, bus, issuer, left>>

\* Mutant: an unpersisted receipt is dropped like a cached one.
EvictReceiptAll(i) ==
    /\ maint.pc = "receipts" /\ i \in maint.todo /\ issuer.stripe[i] = None
    /\ maint' = [maint EXCEPT !.todo = @ \ {i}]
    /\ issuer' = [issuer EXCEPT !.cache[i] = NoReceipt, !.unpersisted[i] = NoReceipt]
    /\ UNCHANGED <<map, sessions, disk, starts, message, bus, client, left>>

\* Under an id's stripe: the cached receipt goes; the only copy of an
\* unpersisted one goes when the session can no longer be read.
EvictReceipt(i) ==
    /\ maint.pc = "receipts" /\ i \in maint.todo /\ issuer.stripe[i] = None
    /\ maint' = [maint EXCEPT !.todo = @ \ {i}]
    /\ issuer' = [issuer EXCEPT !.cache[i] = NoReceipt,
                                !.unpersisted[i] = IF disk[i].snap = None THEN NoReceipt ELSE @]
    /\ UNCHANGED <<map, sessions, disk, starts, message, bus, client, left>>

\* gc_disk_sessions lists storage, where disk retention is configured.
GcBegin ==
    /\ maint.pc = "receipts" /\ maint.todo = {}
    /\ \/ maint' = [maint EXCEPT !.pc = "gc", !.todo = {i \in Ids : disk[i].dir}, !.stale = Stale]
       \/ maint' = [maint EXCEPT !.pc = "idle", !.stale = {}]
    /\ UNCHANGED <<map, sessions, disk, starts, message, bus, issuer, client, left>>

\* Eligibility, from memory or, for an evicted session, from its snapshot.
GcLook(i) ==
    /\ maint.pc = "gc" /\ i \in maint.todo
    /\ LET d == disk[i]
           rest == [maint EXCEPT !.todo = @ \ {i}] IN
       maint' = IF map[i] # None
                THEN [rest EXCEPT !.pc = "gc_lock", !.handle = map[i]]
                ELSE IF d.snap # None /\ d.state \in Terminal /\ d.snap \in maint.stale
                THEN [rest EXCEPT !.pc = "gc_delete", !.picked = {i}]
                ELSE rest
    /\ UNCHANGED <<map, sessions, disk, starts, message, bus, issuer, client, left>>

GcLock ==
    LET s == maint.handle IN
    /\ maint.pc = "gc_lock" /\ Free(s)
    /\ maint' = IF sessions[s].state \in Terminal /\ s \in maint.stale
                THEN [maint EXCEPT !.pc = "gc_delete", !.picked = {IdOf(s)}, !.handle = None]
                ELSE [maint EXCEPT !.pc = "gc", !.handle = None]
    /\ UNCHANGED <<map, sessions, disk, starts, message, bus, issuer, client, left>>

\* delete_session, under the id's stripe; it may fail.
GcDelete(i) ==
    /\ maint.pc = "gc_delete" /\ maint.picked = {i} /\ issuer.stripe[i] = None
    /\ \/ /\ disk' = [disk EXCEPT ![i] = Absent]
          /\ issuer' = [issuer EXCEPT !.stripe[i] = "gc"]
          /\ maint' = [maint EXCEPT !.pc = "gc_forget"]
       \/ /\ maint' = [maint EXCEPT !.pc = "gc", !.picked = {}]
          /\ UNCHANGED <<disk, issuer>>
    /\ UNCHANGED <<map, sessions, starts, message, bus, client, left>>

\* What memory still holds of the id goes too.
GcForget(i) ==
    /\ maint.pc = "gc_forget" /\ maint.picked = {i}
    /\ map' = [map EXCEPT ![i] = None]
    /\ issuer' = [issuer EXCEPT !.stripe[i] = None, !.cache[i] = NoReceipt, !.unpersisted[i] = NoReceipt]
    /\ maint' = [maint EXCEPT !.pc = "gc", !.picked = {}]
    /\ ClientSees(map')
    /\ UNCHANGED <<sessions, disk, starts, message, bus, left>>

GcEnd ==
    /\ maint.pc = "gc" /\ maint.todo = {}
    /\ maint' = [maint EXCEPT !.pc = "idle", !.stale = {}]
    /\ UNCHANGED <<map, sessions, disk, starts, message, bus, issuer, client, left>>

-----------------------------------------------------------------------------
(* ListSessions.                                                           *)

\* page_size: 0 is the default, a cap applies, and a page holds at least one.
EffectivePageSize(n) ==
    LET size == IF n = 0 THEN DefaultPageSize ELSE IF n < MaxPageSize THEN n ELSE MaxPageSize
    IN  IF size = 0 THEN 1 ELSE size

\* A continuation token: a version prefix and the last id of the page.
EncodePageToken(i) == [version |-> "v1", cursor |-> i]
\* What decode_page_token refuses: a token of another format, or one with no
\* cursor.  The id itself need not exist.
TokenValid(t) == t.version = "empty" \/ (t.version = "v1" /\ t.cursor # 0)

\* session_ids_after: ascending, at most limit.
SessionIdsAfter(cursor, limit) ==
    LET after == {i \in Resident : i > cursor}
        first == {i \in after : Cardinality({j \in after : j < i}) < limit}
    IN  SetToSortSeq(first, LAMBDA a, b : a < b)

\* The scan.  One id more than the page holds tells whether more remain; the
\* cursor comes from the ids scanned, not from the sessions that survive.
ListScan(n) ==
    LET t == client.token
        size == EffectivePageSize(n)
        ids == SessionIdsAfter(t.cursor, size + 1)
        page == SubSeq(ids, 1, IF Len(ids) < size THEN Len(ids) ELSE size)
    IN
    /\ client.kind = "list" /\ client.pc = "request" /\ TokenValid(t)
    /\ client' = [client EXCEPT
         !.pc = "fetch", !.page = page,
         !.next = IF Len(ids) > size /\ page # <<>> THEN EncodePageToken(Last(page)) ELSE EmptyToken,
         !.stayed = IF t = EmptyToken THEN Resident ELSE @]
    /\ UNCHANGED <<kernel, issuer, left>>

\* The page's sessions are fetched one by one; one that is gone is skipped.
ListLookup ==
    /\ client.kind = "list" /\ client.pc = "fetch" /\ client.page # <<>>
    /\ LET i == Head(client.page) IN
       client' = [client EXCEPT !.page = Tail(@), !.handle = map[i],
                                !.pc = IF map[i] = None THEN "fetch" ELSE "lock"]
    /\ UNCHANGED <<kernel, issuer, left>>

ListEmit ==
    /\ client.kind = "list" /\ client.pc = "lock" /\ Free(client.handle)
    /\ client' = [client EXCEPT !.pc = "fetch", !.handle = None,
         !.out = Append(@, [id |-> IdOf(client.handle), of |-> client.handle,
                            state |-> sessions[client.handle].state])]
    /\ UNCHANGED <<kernel, issuer, left>>

\* Mutant: the continuation follows the sessions that survived.
ListRespondFromSurvivors ==
    /\ client.kind = "list" /\ client.pc = "fetch" /\ client.page = <<>>
    /\ client' = IF client.next = EmptyToken \/ client.out = <<>>
                 THEN [client EXCEPT !.pc = "done"]
                 ELSE [client EXCEPT !.pc = "request", !.token = EncodePageToken(Last(client.out).id)]
    /\ UNCHANGED <<kernel, issuer, left>>

\* The response: an empty next_page_token ends the traversal.
ListRespond ==
    /\ client.kind = "list" /\ client.pc = "fetch" /\ client.page = <<>>
    /\ client' = IF client.next = EmptyToken
                 THEN [client EXCEPT !.pc = "done"]
                 ELSE [client EXCEPT !.pc = "request", !.token = client.next]
    /\ UNCHANGED <<kernel, issuer, left>>

-----------------------------------------------------------------------------
(* WatchSessions.                                                          *)

\* The subscription precedes everything else.
WatchSubscribe ==
    /\ client.kind = "watch" /\ client.pc = "off"
    /\ client' = [client EXCEPT !.pc = "begin", !.from = Len(bus), !.pos = Len(bus)]
    /\ UNCHANGED <<kernel, issuer, left>>

\* InitialSync::begin snapshots the handles.
WatchBegin ==
    /\ client.kind = "watch" /\ client.pc = "begin"
    /\ client' = [client EXCEPT !.pc = "drain", !.handles = {map[i] : i \in Resident},
                                !.snapshot = Resident]
    /\ UNCHANGED <<kernel, issuer, left>>

Lagged == Len(bus) - client.pos > BusCapacity

\* drain_lifecycle_events before each session of the sync.
WatchDrain ==
    /\ client.kind = "watch" /\ client.pc = "drain"
    /\ client' =
        IF Lagged \/ Len(client.pending) + Len(bus) - client.pos > PendingLimit
        THEN [client EXCEPT !.pc = "ended"]
        ELSE [client EXCEPT !.pc = IF client.handles = {} THEN "live" ELSE "sync",
                            !.pending = @ \o SubSeq(bus, client.pos + 1, Len(bus)),
                            !.pos = Len(bus)]
    /\ UNCHANGED <<kernel, issuer, left>>

\* next_session: the handle is waited for, whatever became of its entry.
WatchSync(s) ==
    /\ client.kind = "watch" /\ client.pc = "sync" /\ s \in client.handles /\ Free(s)
    /\ client' = [client EXCEPT !.pc = "drain", !.handles = @ \ {s},
                                !.synced = @ \cup {IdOf(s)},
                                !.created = Append(@, IdOf(s))]
    /\ UNCHANGED <<kernel, issuer, left>>

\* Mutant: nothing is skipped.
SkipsNothing(e) == FALSE

\* A Created the sync has already reported is skipped.
Skips(e) == e.type = "Created" /\ e.id \in client.synced

\* The events buffered during the sync, then the live ones.
WatchLive ==
    /\ client.kind = "watch" /\ client.pc = "live"
    /\ LET buffered == client.pending # <<>>
           e == IF buffered THEN Head(client.pending) ELSE bus[client.pos + 1]
           read == IF buffered THEN [client EXCEPT !.pending = Tail(@)]
                   ELSE [client EXCEPT !.pos = @ + 1] IN
       /\ buffered \/ client.pos < Len(bus)
       /\ client' = IF ~buffered /\ Lagged THEN [client EXCEPT !.pc = "ended"]
                    ELSE IF e.type # "Created" \/ Skips(e) THEN read
                    ELSE [read EXCEPT !.created = Append(@, e.id)]
    /\ UNCHANGED <<kernel, issuer, left>>

-----------------------------------------------------------------------------
(* GetDecisionReceipt (decision_receipt).  A receipt is the number of its  *)
(* making: no two are alike, whatever they attest.                         *)

Cached(i) == IF issuer.unpersisted[i] # NoReceipt THEN issuer.unpersisted[i] ELSE issuer.cache[i]

\* The answer, and whose session it was asked of.
Serve(r, bytes) ==
    client' = [client EXCEPT !.reader[r] = [@ EXCEPT !.pc = "done"],
                             !.served = [s \in Starts |->
                                IF IdOf(s) = client.reader[r].id /\ client.reader[r].from = s
                                THEN client.served[s] \cup {bytes} ELSE client.served[s]]]

Refuse(r) == client' = [client EXCEPT !.reader[r].pc = "done"]

\* session_for_read: from memory, or the stored snapshot of an evicted one.
Readable(i) == IF map[i] # None THEN map[i] ELSE disk[i].snap

\* The read is authorised on the session; a cached receipt is then served.
ReceiptAsk(r, i) ==
    LET s == Readable(i) IN
    /\ client.kind = "receipt" /\ client.reader[r].pc = "idle"
    /\ s # None /\ Free(s)
    /\ client' = [client EXCEPT !.reader[r] = [@ EXCEPT !.pc = "cached", !.id = i, !.from = s]]
    /\ UNCHANGED <<kernel, issuer, left>>

ReceiptCached(r) ==
    LET i == client.reader[r].id IN
    /\ client.kind = "receipt" /\ client.reader[r].pc = "cached"
    /\ IF Cached(i) # NoReceipt THEN Serve(r, Cached(i))
       ELSE client' = [client EXCEPT !.reader[r].pc = "stripe"]
    /\ UNCHANGED <<kernel, issuer, left>>

\* Under the stripe: the second look, and the session read again.
ReceiptLock(r) ==
    LET i == client.reader[r].id
        s == Readable(i)
    IN
    /\ client.kind = "receipt" /\ client.reader[r].pc = "stripe" /\ issuer.stripe[i] = None
    /\ \/ /\ Cached(i) # NoReceipt
          /\ Serve(r, Cached(i))
          /\ UNCHANGED issuer
       \/ /\ Cached(i) = NoReceipt /\ s = None
          /\ Refuse(r)
          /\ UNCHANGED issuer
       \/ /\ Cached(i) = NoReceipt /\ s # None /\ Free(s)
          /\ issuer' = [issuer EXCEPT !.stripe[i] = r]
          /\ client' = [client EXCEPT !.reader[r] =
               [@ EXCEPT !.pc = "store", !.in_memory = map[i] # None, !.from = s,
                         !.state = IF map[i] # None THEN sessions[s].state ELSE disk[i].state]]
    /\ UNCHANGED <<kernel, left>>

\* receipt_source: only a resolved session has a receipt.
ReceiptSource(state) == state = "Resolved"

\* The stored receipt, or a new one stored first-writer-wins; storage may
\* fail, and a backend that keeps none leaves the only copy in memory.
ReceiptStore(r) ==
    LET q == client.reader[r]
        i == q.id
        n == issuer.built + 1
        unlocked == [issuer EXCEPT !.stripe[i] = None]
        kept(b) == [unlocked EXCEPT !.cache[i] = IF q.in_memory THEN b ELSE @]
    IN
    /\ client.kind = "receipt" /\ q.pc = "store"
    /\ \/ /\ Refuse(r)      \* load_receipt or store_receipt_if_absent fails
          /\ issuer' = unlocked
          /\ UNCHANGED disk
       \/ /\ disk[i].receipt # NoReceipt
          /\ Serve(r, disk[i].receipt)
          /\ issuer' = kept(disk[i].receipt)
          /\ UNCHANGED disk
       \/ /\ disk[i].receipt = NoReceipt /\ ~ReceiptSource(q.state)
          /\ Refuse(r)
          /\ issuer' = unlocked
          /\ UNCHANGED disk
       \/ /\ disk[i].receipt = NoReceipt /\ ReceiptSource(q.state)
          /\ Serve(r, n)
          /\ IF left.durable
             THEN /\ disk' = [disk EXCEPT ![i].receipt = n]
                  /\ issuer' = [kept(n) EXCEPT !.built = n]
             ELSE /\ issuer' = [unlocked EXCEPT !.unpersisted[i] = n, !.built = n]
                  /\ UNCHANGED disk
    /\ UNCHANGED <<map, sessions, starts, message, maint, bus, left>>

-----------------------------------------------------------------------------

StartNext ==
    \E s \in Starts :
        \/ StartCheck(s) \/ StartExisting(s) \/ StartReserve(s) \/ StartStore(s)
        \/ StartRollback(s) \/ StartAnnounce(s)
        \/ Lapse(s) \/ Age(s)

MessageNext ==
    \/ MessageApply
    \/ \E i \in Ids : MessageLookup(i) \/ Pause(i) \/ Resume(i)

MaintenanceNext ==
    \/ Tick \/ EvictBegin \/ EvictRemove \/ GcBegin \/ GcLock \/ GcEnd
    \/ \E s \in Starts : Cleanup(s) \/ EvictScan(s)
    \/ \E i \in Ids : EvictReceipt(i) \/ GcLook(i) \/ GcDelete(i) \/ GcForget(i)

ClientNext ==
    \/ \E n \in PageSizes : ListScan(n)
    \/ ListLookup \/ ListEmit \/ ListRespond
    \/ WatchSubscribe \/ WatchBegin \/ WatchDrain \/ WatchLive
    \/ \E s \in Starts : WatchSync(s)
    \/ \E r \in Readers : ReceiptCached(r) \/ ReceiptLock(r) \/ ReceiptStore(r)
    \/ \E r \in Readers, i \in Ids : ReceiptAsk(r, i)

Next == StartNext \/ MessageNext \/ MaintenanceNext \/ ClientNext

Spec == Init /\ [][Next]_vars

-----------------------------------------------------------------------------
(* Properties.                                                             *)

Count(seq, x) == Cardinality({k \in DOMAIN seq : seq[k] = x})

\* A handler that waited for a reservation's mutex while its start was rolled
\* back writes no entry ahead of a SessionStart, and a snapshot is of a session
\* the log holds and no client was told had failed.
NothingBeforeStart ==
    \A i \in Ids :
        /\ disk[i].log # <<>> => disk[i].log[1] \in Starts
        /\ disk[i].snap # None =>
             /\ \E k \in DOMAIN disk[i].log : disk[i].log[k] = disk[i].snap
             /\ starts[disk[i].snap].reply # "storage_failed"

\* Concurrent starts never leave a sender with more open sessions than
\* max_open_sessions: the reservation and the count are one step.  A session
\* that was suspended is left out: it does not count while it is, and resumes
\* without a check.
OpenBounded ==
    \A s \in Starts :
        Cardinality({i \in Resident :
            /\ StartOf[map[i]].sender = StartOf[s].sender
            /\ sessions[map[i]].state = "Open"
            /\ ~sessions[map[i]].lapsed /\ ~sessions[map[i]].paused}) <= MaxOpen

\* Eviction and disk GC check a session and remove its id in two steps, and
\* starts of the same id interleave with both.  They drop a session that has
\* not ended only behind one interleaving: the collector judged an evicted
\* session by its snapshot, and a start took the id before the delete.
OnlyTerminalDropped ==
    [][\A i \in Ids :
         map[i] # None /\ map'[i] # map[i] =>
             sessions'[map[i]].state \in Terminal \/ maint.raced]_vars

\* docs/deployment.md: disk retention is the age "at which terminal sessions'
\* durable data is deleted".  In that one interleaving gc_disk_sessions
\* deletes the data of a session that is open.
DeletesTerminalOnly ==
    [][\A i \in Ids :
         disk[i].dir /\ ~disk'[i].dir =>
             \A s \in Starts : Contains(disk[i].log, s) => sessions[s].state \in Terminal]_vars

\* A ListSessions traversal returns every session that stays registered
\* throughout it exactly once, in id order, whatever starts, is evicted or is
\* rolled back between its pages, and never shows an open session whose start
\* did not commit.
TraversalComplete ==
    client.kind = "list" =>
        LET ids == [k \in DOMAIN client.out |-> client.out[k].id] IN
        /\ \A j, k \in DOMAIN ids : j < k => ids[j] < ids[k]
        /\ client.pc = "done" => \A i \in client.stayed : Count(ids, i) = 1
        /\ \A k \in DOMAIN client.out :
             client.out[k].state = "Open" => starts[client.out[k].of].pc \in {"announce", "done"}

\* The start was accepted: its SessionStart is in the log.
Accepted(s) == starts[s].pc = "announce" \/ starts[s].reply = "accepted"

\* No second session of the id was accepted.
StartedOnce(i) ==
    \A s, t \in Starts : Accepted(s) /\ Accepted(t) /\ IdOf(s) = i /\ IdOf(t) = i => s = t

\* A watcher that has caught up has been told once of every session its sync
\* found or that was announced after it subscribed, and of no other.  The sync
\* skips by id, so an id that was accepted again is left out.
CreatedOnce ==
    client.kind = "watch" /\ client.pc = "live" /\ client.pending = <<>> /\ client.pos = Len(bus) =>
        \A i \in Ids : StartedOnce(i) =>
            Count(client.created, i) =
                IF \/ i \in client.snapshot
                   \/ \E k \in client.from + 1 .. Len(bus) : bus[k] = Event("Created", i)
                THEN 1 ELSE 0

\* Every reader of a session is served the same receipt, across concurrent
\* first requests, eviction, disk GC and a backend that keeps none, and a
\* cached copy never differs from the stored one.  A receipt is kept by id, so
\* this is said while no id was accepted again or taken under the collector.
OneReceipt ==
    client.kind = "receipt" /\ ~maint.raced /\ (\A i \in Ids : StartedOnce(i)) =>
        /\ \A s \in Starts : Cardinality(client.served[s]) <= 1
        /\ \A i \in Ids : issuer.cache[i] # NoReceipt /\ disk[i].receipt # NoReceipt
                            => issuer.cache[i] = disk[i].receipt

\* Concurrent starts are safe (process_session_start): a rolled-back one leaves
\* nothing behind it and together they stay within the limit, as long as no
\* start took an id between the collector's look at it and its delete.
StartsSound == maint.raced \/ (NothingBeforeStart /\ OpenBounded)

\* Both views of the registry are complete beside starts, rollbacks and
\* evictions: the pages of ListSessions and the sync of WatchSessions.
ViewsComplete == TraversalComplete /\ CreatedOnce
=============================================================================
