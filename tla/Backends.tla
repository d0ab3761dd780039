------------------------------ MODULE Backends ------------------------------
(***************************************************************************)
(* The storage backends as the kernel drives them for one session id       *)
(* (crates/macp-storage/src/storage/file.rs, rocksdb.rs, redis_backend.rs, *)
(* memory.rs): what create_session_storage, append_log_entry,              *)
(* save_session, replace_log, delete_session and store_receipt_if_absent   *)
(* do to each store, which of it list_session_ids finds again, and what a  *)
(* crash of the process, a loss of power or of the Redis server leaves.    *)
(*                                                                         *)
(* The bytes of the file backend's log, and what a loss of power leaves of *)
(* them, are the module FileLog's; power is not lost here with that        *)
(* backend.  RocksDB has one write-ahead log for everything: what an       *)
(* append syncs includes every earlier write.  A Redis server persists     *)
(* when it likes.                                                          *)
(***************************************************************************)
EXTENDS Naturals, Sequences, FiniteSets, SequencesExt

CONSTANTS
    Kinds,           \* the backends to check
    Writers,         \* the concurrent writers of the receipt
    MaxStarts,       \* bound: how often a client sends the SessionStart
    MaxRevisions,    \* bound: the entries of the log
    MaxFailures,     \* bound: crashes and losses
    SnapshotFails,   \* whether a snapshot may fail to be saved
    StoreLosses      \* whether power or the Redis server may be lost

ASSUME BackendsConstants ==
    /\ Kinds \subseteq {"file", "rocksdb", "redis", "memory"}
    /\ "none" \notin Writers
    /\ MaxStarts \in Nat /\ MaxRevisions \in Nat /\ MaxFailures \in Nat
    /\ SnapshotFails \in BOOLEAN /\ StoreLosses \in BOOLEAN

VARIABLES
    kind,       \* the backend
    store,      \* the session's storage, as a reader sees it
    stable,     \* what of it survives the loss of the store's memory
    known,      \* whether the session is in the registry
    handler,    \* where the handler of the session is
    answered,   \* the last revision of the session a sender was told of
    starts,     \* how many SessionStarts were sent
    failures,   \* how many failures there were
    exposed,    \* history: a failure met a log whose session is not listed,
                \* or took a receipt or what a Redis server had not persisted,
                \* or a Redis pipeline was cut
    writer,     \* where each writer of the receipt is
    lock,       \* receipt_lock of the RocksDB backend
    first       \* history: the receipt that was stored first

backendVars ==
    <<kind, store, stable, known, handler, answered, starts, failures, exposed, writer, lock, first>>

\* index: the session's directory, or its place in the Redis set.
Empty == [index |-> FALSE, log |-> <<>>, snapshot |-> 0, receipt |-> "none"]

Resting == [pc |-> "rest"]

BackendInit ==
    /\ kind \in Kinds
    /\ store = Empty /\ stable = Empty
    /\ known = FALSE /\ handler = "idle" /\ answered = 0
    /\ starts = 0 /\ failures = 0 /\ exposed = FALSE
    /\ writer = [w \in Writers |-> Resting] /\ lock = "none" /\ first = "none"

-----------------------------------------------------------------------------
(* The operations of the stores.                                           *)

\* list_session_ids of each backend: the directories that hold a session,
\* the keys of RocksDB's sessions column family, the members of the Redis set.
ListDirectories(s) == s.index
ListSnapshots(s) == s.snapshot # 0
ListMembers(s) == s.index

ListSessionIds(s) ==
    CASE kind = "file" -> ListDirectories(s)
      [] kind = "rocksdb" -> ListSnapshots(s)
      [] kind = "redis" -> ListMembers(s)
      [] OTHER -> FALSE

\* load_log reads the entries in the order of their keys or lines: the
\* revision of the session that they replay to.
Revision(log) == IF log = <<>> THEN 0 ELSE Last(log).revision

\* The place of the next entry: RocksDB scans for the last key of the
\* session, the others append.
NextSeq(log) == Revision(log) + 1

\* A write: the storage it leaves, and whether it is on stable storage once
\* it returned.  The file backend syncs what it appends, its snapshots and its
\* receipts, RocksDB its write-ahead log when told to, Redis nothing.
Write(s, durable) == [s |-> s, durable |-> durable]

Perform(w) == store' = w.s /\ stable' = IF w.durable THEN w.s ELSE stable

\* The memory backend keeps nothing.
Unstored(s) == Write(s, FALSE)

CreateSessionStorage(s) ==
    IF kind \in {"file", "redis"} THEN Write([s EXCEPT !.index = TRUE], FALSE)
    ELSE Unstored(s)

WithEntry(s, type) == [s EXCEPT !.log = Append(@, [type |-> type, revision |-> NextSeq(@)])]

\* append_log_entry: a line, synced; a key in a synced write; RPUSH.
AppendLine(s, type) == Write(WithEntry(s, type), TRUE)
PutNextKey(s, type) == Write(WithEntry(s, type), TRUE)
PushEntry(s, type) == Write(WithEntry(s, type), FALSE)

AppendLogEntry(s, type) ==
    CASE kind = "file" -> AppendLine(s, type)
      [] kind = "rocksdb" -> PutNextKey(s, type)
      [] kind = "redis" -> PushEntry(s, type)
      [] OTHER -> Unstored(s)

\* save_session: a file written, synced and renamed; a key, not synced; SET.
WriteSnapshot(s, revision) == Write([s EXCEPT !.snapshot = revision], TRUE)
PutSnapshot(s, revision) == Write([s EXCEPT !.snapshot = revision], FALSE)
SetSnapshot(s, revision) == Write([s EXCEPT !.snapshot = revision], FALSE)

SaveSession(s, revision) ==
    CASE kind = "file" -> WriteSnapshot(s, revision)
      [] kind = "rocksdb" -> PutSnapshot(s, revision)
      [] kind = "redis" -> SetSnapshot(s, revision)
      [] OTHER -> Unstored(s)

\* Mutant: a replacement whose deletion and insertion are two writes.
ReplaceLogInTwo(s, entries) == Write([s EXCEPT !.log = <<>>], FALSE)

\* replace_log: a rename, a write batch, a MULTI transaction, each one step
\* to every reader and none of them synced.
RenameOver(s, entries) == Write([s EXCEPT !.log = entries], FALSE)
WriteBatch(s, entries) == Write([s EXCEPT !.log = entries], FALSE)
Transaction(s, entries) == Write([s EXCEPT !.log = entries], FALSE)

ReplaceLog(s, entries) ==
    CASE kind = "file" -> RenameOver(s, entries)
      [] kind = "rocksdb" -> WriteBatch(s, entries)
      [] kind = "redis" -> Transaction(s, entries)

\* load_log, as replay takes it: one SessionStart or checkpoint, at the head.
Replays(log) ==
    /\ log # <<>>
    /\ log[1].type \in {"SessionStart", "Checkpoint"}
    /\ \A i \in 2 .. Len(log) : log[i].type = "Message"

-----------------------------------------------------------------------------
(* The handlers, under the session's mutex.                                *)

\* process_session_start finds no session in the registry and reserves it.
StartCreates(fails) ==
    /\ handler = "idle" /\ ~known /\ starts < MaxStarts
    /\ starts' = starts + 1
    /\ IF fails
       THEN UNCHANGED <<store, stable, handler>>
       ELSE /\ Perform(CreateSessionStorage(store))
            /\ handler' = "created"
    /\ UNCHANGED <<kind, known, answered, failures, exposed, writer, lock, first>>

\* The commit point; a failed append rolls the reservation back.
StartAppends(fails) ==
    /\ handler = "created"
    /\ IF fails
       THEN handler' = "idle" /\ UNCHANGED <<store, stable>>
       ELSE /\ Perform(AppendLogEntry(store, "SessionStart"))
            /\ handler' = "appended"
    /\ UNCHANGED <<kind, known, answered, starts, failures, exposed, writer, lock, first>>

\* process_message's commit point.
MessageAppends ==
    /\ handler = "idle" /\ known /\ Revision(store.log) < MaxRevisions
    /\ Perform(AppendLogEntry(store, "Message"))
    /\ handler' = "appended"
    /\ UNCHANGED <<kind, known, answered, starts, failures, exposed, writer, lock, first>>

\* The snapshot, best effort, and the answer.
Saves(fails) ==
    /\ handler = "appended"
    /\ fails => SnapshotFails
    /\ IF fails THEN UNCHANGED <<store, stable>> ELSE Perform(SaveSession(store, Revision(store.log)))
    /\ known' = TRUE /\ handler' = "idle"
    /\ answered' = Revision(store.log)
    /\ UNCHANGED <<kind, starts, failures, exposed, writer, lock, first>>

\* compact_session_log of a session that ended.
CompactsLog ==
    /\ handler = "idle" /\ known /\ kind # "memory"
    /\ Len(store.log) > 1
    /\ Perform(ReplaceLog(store, <<[type |-> "Checkpoint", revision |-> Revision(store.log)]>>))
    /\ UNCHANGED <<kind, known, handler, answered, starts, failures, exposed, writer, lock, first>>

\* delete_session of the file backend, which removes the directory, and of
\* RocksDB, which batches the session, its log and its receipt.
DeleteDirectory(s) == Empty
DeleteBatch(s) == Empty

\* That of Redis is a pipeline and no transaction: a connection that breaks
\* leaves its tail undone.
DeletePipeline(s, cut) == IF cut THEN [s EXCEPT !.snapshot = 0, !.log = <<>>] ELSE Empty

\* Eviction, and disk GC: delete_session.  No backend syncs it: power that is
\* lost before RocksDB's next append brings the session back.
Deletes(cut) ==
    /\ handler = "idle" /\ known /\ kind # "memory"
    /\ cut => kind = "redis"
    /\ store' = CASE kind = "file" -> DeleteDirectory(store)
                  [] kind = "rocksdb" -> DeleteBatch(store)
                  [] kind = "redis" -> DeletePipeline(store, cut)
    /\ known' = FALSE /\ answered' = 0 /\ first' = "none"
    /\ writer' = [w \in Writers |-> Resting] /\ lock' = "none"
    /\ exposed' = (exposed \/ cut)
    /\ UNCHANGED <<kind, stable, handler, starts, failures>>

-----------------------------------------------------------------------------
(* Receipts.                                                               *)

Told(w, receipt) == writer' = [writer EXCEPT ![w] = [pc |-> "told", got |-> receipt]]

\* RocksDB's lookup without the lock.
LookUpUnlocked(w) ==
    /\ known /\ kind = "rocksdb" /\ writer[w].pc = "rest"
    /\ IF store.receipt # "none"
       THEN Told(w, store.receipt)
       ELSE writer' = [writer EXCEPT ![w] = [pc |-> "absent"]]
    /\ UNCHANGED <<kind, store, stable, known, handler, answered, starts, failures, exposed, lock, first>>

\* store_receipt_if_absent of RocksDB: lock, and look.
LookUp(w) ==
    /\ known /\ kind = "rocksdb" /\ writer[w].pc = "rest" /\ lock = "none"
    /\ IF store.receipt # "none"
       THEN Told(w, store.receipt) /\ UNCHANGED lock
       ELSE writer' = [writer EXCEPT ![w] = [pc |-> "absent"]] /\ lock' = w
    /\ UNCHANGED <<kind, store, stable, known, handler, answered, starts, failures, exposed, first>>

\* Then put, and unlock.
Put(w) ==
    /\ writer[w].pc = "absent"
    /\ Perform(Write([store EXCEPT !.receipt = w], FALSE))
    /\ Told(w, w)
    /\ first' = IF first = "none" THEN w ELSE first
    /\ lock' = "none"
    /\ UNCHANGED <<kind, known, handler, answered, starts, failures, exposed>>

\* One step decides, and a loser reads what is stored.
StoreOrLose(w) ==
    /\ IF store.receipt = "none"
       THEN /\ Perform(Write([store EXCEPT !.receipt = w], kind = "file"))
            /\ Told(w, w)
            /\ first' = IF first = "none" THEN w ELSE first
       ELSE /\ writer' = [writer EXCEPT ![w] = [pc |-> "lost"]]
            /\ UNCHANGED <<store, stable, first>>
    /\ UNCHANGED <<kind, known, handler, answered, starts, failures, exposed, lock>>

\* The file backend writes a temporary file and links it to its name.
HardLink(w) == kind = "file" /\ known /\ writer[w].pc = "rest" /\ StoreOrLose(w)

\* Redis: SET NX.
SetNx(w) == kind = "redis" /\ known /\ writer[w].pc = "rest" /\ StoreOrLose(w)

ReadWinner(w) ==
    /\ writer[w].pc = "lost" /\ store.receipt # "none"
    /\ Told(w, store.receipt)
    /\ UNCHANGED <<kind, store, stable, known, handler, answered, starts, failures, exposed, lock, first>>

-----------------------------------------------------------------------------
(* Failures.                                                               *)

Unlisted(s) == kind = "rocksdb" /\ s.log # <<>> /\ ~ListSessionIds(s)

\* recover_sessions: the listed sessions whose log replays.
Recovered(s) == ListSessionIds(s) /\ Replays(s.log)

\* The process ends with the store as left, and starts again.  RocksDB, when
\* it is opened, flushes what its write-ahead log holds; the snapshot saved
\* then is not synced.
Restart(left) ==
    /\ failures < MaxFailures
    /\ failures' = failures + 1
    /\ exposed' = (exposed \/ Unlisted(left) \/ left.receipt # store.receipt
                            \/ (kind = "redis" /\ left # store))
    /\ store' = IF Recovered(left) THEN SaveSession(left, Revision(left.log)).s ELSE left
    /\ stable' = IF kind = "rocksdb" THEN left ELSE stable
    /\ known' = Recovered(left)
    /\ handler' = "idle" /\ lock' = "none"
    /\ writer' = [w \in Writers |-> IF writer[w].pc = "told" THEN writer[w] ELSE Resting]
    /\ UNCHANGED <<kind, answered, starts, first>>

Crashes == Restart(store)

\* Power is lost, or the Redis server: what was not settled is gone.
StoreLost == StoreLosses /\ kind \in {"rocksdb", "redis"} /\ Restart(stable)

\* The Redis server writes its memory to disk.
Persists ==
    /\ kind = "redis" /\ stable # store
    /\ stable' = store
    /\ UNCHANGED <<kind, store, known, handler, answered, starts, failures, exposed, writer, lock, first>>

BackendNext ==
    \/ \E fails \in BOOLEAN : StartCreates(fails) \/ StartAppends(fails) \/ Saves(fails)
    \/ MessageAppends \/ CompactsLog \/ \E cut \in BOOLEAN : Deletes(cut)
    \/ \E w \in Writers : LookUp(w) \/ Put(w) \/ HardLink(w) \/ SetNx(w) \/ ReadWinner(w)
    \/ Crashes \/ StoreLost \/ Persists

BackendSpec == BackendInit /\ [][BackendNext]_backendVars

-----------------------------------------------------------------------------

\* The log is a session's history (the commit point of
\* process_session_start): through failed snapshots, compaction, deletion
\* and restarts, a session that was acknowledged is in the registry, and its
\* log replays to no less than was acknowledged.  Exposed are the cases the
\* backends do not cover: a RocksDB log without a snapshot, and what a lost
\* Redis server had not persisted.
HistoryKept ==
    kind # "memory" /\ ~exposed /\ handler = "idle" /\ answered > 0 =>
        known /\ Replays(store.log) /\ Revision(store.log) >= answered

\* One receipt per session (store_receipt_if_absent): whoever is answered
\* gets the receipt that was stored first, whatever the races, unless a loss
\* of power took it (RocksDB does not sync the receipt) or a cut deletion
\* left another session's behind.
FirstReceiptWins ==
    ~exposed => \A w \in Writers : writer[w].pc = "told" => writer[w].got = first

\* Each backend keeps what it acknowledged, a history and one receipt, in its
\* own way of writing (rocksdb.rs, redis_backend.rs, file.rs, memory.rs),
\* outside the cases in which it may lose, which `exposed` records.
BackendKeeps == HistoryKept /\ FirstReceiptWins

\* The comment behind the commit point of process_session_start: once the
\* entry is durable the session exists and replay reconstructs it.
DurableStartKnown ==
    kind \in {"file", "rocksdb"} /\ handler = "idle" /\ answered > 0 => known
=============================================================================
