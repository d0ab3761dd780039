------------------------------- MODULE Kernel -------------------------------
(***************************************************************************)
(* The coordination kernel (src/runtime.rs) serving one session id: what   *)
(* each handler does while it holds the session's mutex, against durable   *)
(* storage that can fail and a process that can crash between any two of   *)
(* its steps, and the recovery that follows (src/recovery.rs).             *)
(*                                                                         *)
(* A handler that changes the session goes through these steps:            *)
(*   append  validate, then write the log entry: the COMMIT POINT;         *)
(*   commit  the in-memory log, the session, the best-effort snapshot;     *)
(*   finish  compaction or a checkpoint, then publish and answer.          *)
(* The mutex serialises handlers, so one variable, op, says where the      *)
(* handler in flight is.  The clock is read by each handler when the code  *)
(* reads it, and may move between two reads.                               *)
(***************************************************************************)
EXTENDS Replay

CONSTANTS
    StartEnvelopes,       \* the SessionStart envelopes clients may send
    ClientEnvelopes,      \* the other envelopes clients may send
    InitialClock,         \* the first reading of the wall clock
    MaxClock,             \* bound: the last reading of the wall clock
    ClockMonotonic,       \* FALSE when the wall clock may be stepped back
    MaxLog,               \* bound: no operation starts on a longer log
    MaxCrashes,           \* bound: the number of crashes and shutdowns
    AppendFaults,         \* how a log append may fail (see TryAppend)
    SnapshotFaults,       \* whether saving the snapshot may fail
    RequestTimeouts,      \* whether a request may be dropped at an await
    CompactTerminalLogs,  \* MACP_COMPACT_TERMINAL_LOGS
    CheckpointInterval,   \* MACP_CHECKPOINT_INTERVAL, 0 for none
    RetentionMs,          \* MACP_SESSION_RETENTION_SECS
    ReuseIds              \* whether a start may name an id with stored history

ASSUME KernelConstants ==
    /\ InitialClock \in Nat \ {0} /\ MaxClock \in Nat /\ InitialClock <= MaxClock
    /\ ClockMonotonic \in BOOLEAN
    /\ MaxLog \in Nat /\ MaxCrashes \in Nat
    /\ AppendFaults \subseteq {"refused", "written"}
    /\ SnapshotFaults \in BOOLEAN /\ RequestTimeouts \in BOOLEAN
    /\ CompactTerminalLogs \in BOOLEAN /\ CheckpointInterval \in Nat
    /\ RetentionMs \in Nat /\ ReuseIds \in BOOLEAN
    /\ \A env \in StartEnvelopes :
          env.type = "SessionStart" /\ env.ttl_ms \in Int /\ env.timestamp \in Int
    /\ \A env \in ClientEnvelopes : env.type # "SessionStart"

VARIABLES
    now,      \* the wall clock
    alive,    \* whether the process is up
    sess,     \* the registry's session, or NoSession
    memlog,   \* the in-memory log cache
    log,      \* the durable log
    snap,     \* the durable snapshot, or NoSession
    op,       \* the handler holding the session's mutex
    maint,    \* the maintenance task: its next pass and the clock it runs at
    replayed, \* history: what each prefix of the durable log replays to
    hist,     \* history: the ids of the durably accepted envelopes, in order
    acked,    \* history: the ids a client was told are accepted
    crashes   \* how often the process has stopped

memory == <<alive, sess, memlog>>
durable == <<log, replayed, hist>>
vars == <<now, memory, durable, snap, op, maint, acked, crashes>>

\* What the durable log replays to.
dur == IF replayed = <<>> THEN NoSession ELSE replayed[Len(replayed)]

NoEnvelope == [id |-> <<"none">>]

\* what  the operation;            pc     its next step;
\* env   the client's envelope;    at     the acceptance clock it was read at;
\* entry the log entry written;    resp   the mode's response to be applied.
Idle == [pc |-> "idle", what |-> "none"]

Committing(what, env, at, entry, resp) ==
    [pc |-> "commit", what |-> what, env |-> env, at |-> at, entry |-> entry, resp |-> resp]

Finishing(o) == [pc |-> "finish", what |-> o.what, env |-> o.env, at |-> o.at]

\* A message behind the synthetic accept it triggered.
Dispatching(o) == [pc |-> "dispatch", what |-> "message", env |-> o.env, at |-> o.at]

NoOp == [kind |-> "NoOp"]

\* A maintenance pass that has not read the clock yet.
Pass(name) == [pass |-> name, at |-> NoTime]

Init ==
    /\ now = InitialClock /\ alive = TRUE
    /\ sess = NoSession /\ memlog = <<>>
    /\ log = <<>> /\ snap = NoSession /\ op = Idle /\ maint = Pass("cleanup")
    /\ replayed = <<>> /\ hist = <<>> /\ acked = {} /\ crashes = 0

-----------------------------------------------------------------------------
(* Durable writes.                                                         *)

AppendDurable(e) ==
    /\ log' = Append(log, e)
    /\ replayed' = Append(replayed, ReplayAppend(dur, e))
    /\ hist' = IF IsIncoming(e) THEN Append(hist, e.env.id) ELSE hist

\* Mutant: a failed append is ignored.
TryAppendUnchecked(e, next) ==
    \E outcome \in {"ok"} \cup AppendFaults :
        /\ IF outcome = "refused" THEN UNCHANGED durable ELSE AppendDurable(e)
        /\ op' = next

\* StorageBackend::append_log_entry.  It may fail with nothing written
\* ("refused"), or fail although the entry reached the disk ("written": the
\* write succeeded and the sync reported an error).
TryAppend(e, next) ==
    \E outcome \in {"ok"} \cup AppendFaults :
        /\ IF outcome = "refused" THEN UNCHANGED durable ELSE AppendDurable(e)
        /\ op' = IF outcome = "ok" THEN next ELSE Idle

\* save_session_to_storage: best effort.
SaveSnapshot(s) == snap' = s \/ (SnapshotFaults /\ snap' = snap)

\* Mutant: a checkpoint that discards nothing accounts for what it covers.
ForceCheckpointCounting ==
    LET checkpoint == CheckpointEntry(sess, HighWater(memlog))
    IN  AppendDurable(checkpoint) /\ memlog' = Append(memlog, checkpoint)

\* force_insert_checkpoint: a failed append is only logged.
ForceCheckpoint ==
    LET checkpoint == CheckpointEntry(sess, 0)
    IN  \E outcome \in {"ok"} \cup AppendFaults :
            /\ IF outcome = "refused" THEN UNCHANGED durable ELSE AppendDurable(checkpoint)
            /\ memlog' = IF outcome = "ok" THEN Append(memlog, checkpoint) ELSE memlog

\* Mutant: compaction forgets the ordinals it discards.
CompactUncounted ==
    LET checkpoint == CheckpointEntry(sess, 0)
    IN  /\ CompactTerminalLogs
        /\ log' = <<checkpoint>> /\ memlog' = <<checkpoint>>
        /\ replayed' = <<sess>>
        /\ UNCHANGED hist

\* maybe_compact_log: the checkpoint accounts for every ordinal it discards.
Compact ==
    LET checkpoint == CheckpointEntry(sess, HighWater(memlog))
    IN  /\ CompactTerminalLogs
        /\ log' = <<checkpoint>> /\ memlog' = <<checkpoint>>
        /\ replayed' = <<sess>>
        /\ UNCHANGED hist

\* What a terminal transition ends with: a forced checkpoint when
\* compaction is off or fails.
CompactOrCheckpoint ==
    \/ Compact
    \/ (CompactTerminalLogs => AppendFaults # {}) /\ ForceCheckpoint

\* maybe_insert_checkpoint: only where the log crosses an interval.
CheckpointDue ==
    /\ CheckpointInterval # 0
    /\ Len(memlog) >= CheckpointInterval
    /\ Len(memlog) % CheckpointInterval = 0

MaybeInsertCheckpoint ==
    IF CheckpointDue THEN ForceCheckpoint ELSE UNCHANGED <<durable, memlog>>

-----------------------------------------------------------------------------
(* The handlers, up to their commit point.                                 *)

\* A task has taken the session's mutex.
Locked == alive /\ op = Idle /\ sess # NoSession

\* Bound: clients and timers start nothing on a log of MaxLog entries.
Room == Len(log) < MaxLog

\* process_session_start for an id the registry does not hold, up to the
\* reservation of the id.
StartReserved(env) ==
    /\ alive /\ op = Idle /\ sess = NoSession /\ Room
    /\ ReuseIds \/ log = <<>>
    /\ StartAccepted(env, now)

\* A failed append rolls the reservation back, so nothing remains in memory.
StartSession(env) ==
    /\ StartReserved(env)
    /\ TryAppend(IncomingEntry(env, now),
                 Committing("start", env, now, IncomingEntry(env, now), NoOp))
    /\ UNCHANGED <<now, memory, snap, maint, acked, crashes>>

\* A duplicate of an accepted envelope (any state, a SessionStart included)
\* is answered Ok and changes nothing.
Duplicate(env) ==
    /\ Locked
    /\ env.id \in sess.seen_message_ids
    /\ acked' = acked \cup {env.id}
    /\ UNCHANGED <<now, memory, durable, snap, op, maint, crashes>>

\* check_preconditions reported Expired; maybe_expire_session reads the
\* clock again.
MessageExpired(env) ==
    /\ Locked /\ Room
    /\ env.id \notin sess.seen_message_ids
    /\ DeadlinePassed(sess, now)
    /\ op' = [pc |-> "expire", what |-> "message"]
    /\ UNCHANGED <<now, memory, durable, snap, maint, acked, crashes>>

\* synthesize_due_accept's append, for the message `trigger` waiting behind
\* it (or none, for the sweep).  Its entry is stamped with its own deadline.
AppendSynthetic(env, trigger, at) ==
    LET entry == IncomingEntry(env, env.timestamp)
    IN  /\ SyntheticAccepted(sess, env)
        /\ TryAppend(entry, [Committing("synthetic", env, at, entry, SyntheticResponse(sess, env))
                               EXCEPT !.env = trigger])

\* Mutant: the append does not wait for the mode's answer.
AppendMessageUndispatched(env, at) ==
    TryAppend(IncomingEntry(env, at),
              Committing("message", env, at, IncomingEntry(env, at), OnMessageAt(sess, env, at)))

\* dispatch, then the message's own append.
AppendMessage(env, at) ==
    LET resp == OnMessageAt(sess, env, at)
    IN  /\ resp.kind # "Rejected"
        /\ TryAppend(IncomingEntry(env, at),
                     Committing("message", env, at, IncomingEntry(env, at), resp))

\* Mutant: the deadline is not checked.
MessageLate(env) ==
    /\ Locked /\ Room
    /\ env.id \notin sess.seen_message_ids
    /\ sess.state = "Open"
    /\ AuthorizeSender(sess, env)
    /\ ValidateClientEnvelope(sess, env)
    /\ IF Synthetics(sess, now) = {}
       THEN AppendMessage(env, now)
       ELSE \E syn \in Synthetics(sess, now) : AppendSynthetic(syn, env, now)
    /\ UNCHANGED <<now, memory, snap, maint, acked, crashes>>

\* Mutant: what is due is left to the sweep.
MessageFirst(env) ==
    /\ Locked /\ Room
    /\ env.id \notin sess.seen_message_ids
    /\ ~DeadlinePassed(sess, now)
    /\ sess.state = "Open"
    /\ AuthorizeSender(sess, env)
    /\ ValidateClientEnvelope(sess, env)
    /\ AppendMessage(env, now)
    /\ UNCHANGED <<now, memory, snap, maint, acked, crashes>>

\* process_message past its prechecks: admit, then whatever is due, then
\* the message itself.  A rejection changes nothing.
Message(env) ==
    /\ Locked /\ Room
    /\ env.id \notin sess.seen_message_ids
    /\ ~DeadlinePassed(sess, now)
    /\ sess.state = "Open"
    /\ AuthorizeSender(sess, env)
    /\ ValidateClientEnvelope(sess, env)
    /\ IF Synthetics(sess, now) = {}
       THEN AppendMessage(env, now)
       ELSE \E syn \in Synthetics(sess, now) : AppendSynthetic(syn, env, now)
    /\ UNCHANGED <<now, memory, snap, maint, acked, crashes>>

\* The trigger of a synthetic accept, dispatched behind it with the clock
\* it was admitted at.  A rejection leaves the accept in history.
DispatchTrigger ==
    /\ op.pc = "dispatch"
    /\ IF OnMessageAt(sess, op.env, op.at).kind = "Rejected"
       THEN op' = Idle /\ UNCHANGED durable
       ELSE AppendMessage(op.env, op.at)
    /\ UNCHANGED <<now, memory, snap, maint, acked, crashes>>

\* The control operations and reads begin with maybe_expire_session.  The
\* two that go on to write their own entry read the clock a second time.
Control(what) ==
    /\ Locked /\ Room
    /\ LET entry == InternalEntry("TtlExpired", now)
       IN  IF DeadlinePassed(sess, now)
           THEN TryAppend(entry, Committing(IF what = "suspend" THEN "expire-unsaved" ELSE "expire",
                                            NoEnvelope, now, entry, NoOp))
           ELSE /\ op' = IF what = "get" THEN Idle ELSE [pc |-> "control", what |-> what]
                /\ UNCHANGED durable
    /\ UNCHANGED <<now, memory, snap, maint, acked, crashes>>

\* maybe_expire_session for a message whose prechecks reported Expired.
ExpireAppend ==
    /\ op.pc = "expire"
    /\ IF DeadlinePassed(sess, now)
       THEN LET entry == InternalEntry("TtlExpired", now)
            IN  TryAppend(entry, Committing("expire", NoEnvelope, now, entry, NoOp)) /\ UNCHANGED snap
       ELSE op' = Idle /\ SaveSnapshot(sess) /\ UNCHANGED durable
    /\ UNCHANGED <<now, memory, maint, acked, crashes>>

\* cancel_session: a terminal session is only saved; an Open or Suspended
\* one is cancelled.
CancelAppend ==
    /\ op = [pc |-> "control", what |-> "cancel"]
    /\ IF IsTerminal(sess)
       THEN op' = Idle /\ SaveSnapshot(sess) /\ UNCHANGED durable
       ELSE LET entry == InternalEntry("SessionCancel", now)
            IN  TryAppend(entry, Committing("cancel", NoEnvelope, now, entry, NoOp)) /\ UNCHANGED snap
    /\ UNCHANGED <<now, memory, maint, acked, crashes>>

\* suspend_session.
SuspendAppend ==
    /\ op = [pc |-> "control", what |-> "suspend"]
    /\ IF sess.state # "Open"
       THEN op' = Idle /\ UNCHANGED durable
       ELSE LET entry == InternalEntry("SessionSuspend", now)
            IN  TryAppend(entry, Committing("suspend", NoEnvelope, now, entry, NoOp))
    /\ UNCHANGED <<now, memory, snap, maint, acked, crashes>>

\* resume_session: no expiry check; the caps are consulted after the append.
ResumeAppend ==
    /\ Locked /\ Room
    /\ sess.state = "Suspended"
    /\ LET entry == InternalEntry("SessionResume", now)
       IN  TryAppend(entry, Committing("resume", NoEnvelope, now, entry, NoOp))
    /\ UNCHANGED <<now, memory, snap, maint, acked, crashes>>

-----------------------------------------------------------------------------
(* The maintenance task (src/main.rs): on every tick of its interval the   *)
(* cleanup pass, then the sweep, then the eviction.  A pass reads the      *)
(* clock once, takes the sessions then registered, and waits for each      *)
(* one's mutex: by then the clock may have moved on.                       *)

\* Mutant: the cleanup runs only once after the start.
NextPassCleansOnce(name) == Pass(IF name = "sweep" THEN "evict" ELSE "sweep")

\* Mutant: no pass sweeps.
NextPassNoSweep(name) == Pass(IF name = "cleanup" THEN "evict" ELSE "cleanup")

NextPass(name) ==
    Pass(CASE name = "cleanup" -> "sweep" [] name = "sweep" -> "evict" [] name = "evict" -> "cleanup")

\* The task is inside this session's own handler.
MaintenanceBusy ==
    op.what = "cleanup" \/ (op.what = "synthetic" /\ op.env = NoEnvelope)

\* The registry holds the id from a start's reservation on.
Registered == sess # NoSession \/ op.what = "start"

BeginPass ==
    /\ alive /\ maint.at = NoTime /\ ~MaintenanceBusy
    /\ maint' = IF Registered THEN [maint EXCEPT !.at = now] ELSE NextPass(maint.pass)
    /\ UNCHANGED <<now, memory, durable, snap, op, acked, crashes>>

\* The pass has the session's mutex.  A start that was rolled back leaves
\* nothing for it to do.
Visit(name) ==
    /\ alive /\ op = Idle
    /\ maint.pass = name /\ maint.at # NoTime
    /\ maint' = NextPass(name)

\* Mutant: the pass goes by the deadline alone.
CleanupAnyState ==
    /\ Visit("cleanup")
    /\ IF sess # NoSession /\ maint.at > sess.ttl_expiry
       THEN LET entry == InternalEntry("TtlExpired", maint.at)
            IN  TryAppend(entry, Committing("cleanup", NoEnvelope, maint.at, entry, NoOp))
       ELSE UNCHANGED <<durable, op>>
    /\ UNCHANGED <<now, memory, snap, acked, crashes>>

\* cleanup_expired_sessions, for this session: Open sessions only.
Cleanup ==
    /\ Visit("cleanup")
    /\ IF sess.state = "Open" /\ maint.at > sess.ttl_expiry
       THEN LET entry == InternalEntry("TtlExpired", maint.at)
            IN  TryAppend(entry, Committing("cleanup", NoEnvelope, maint.at, entry, NoOp))
       ELSE UNCHANGED <<durable, op>>
    /\ UNCHANGED <<now, memory, snap, acked, crashes>>

\* sweep_due_synthetic_accepts, for this session.  An envelope its own mode
\* refuses is only logged.
Sweep ==
    /\ Visit("sweep")
    /\ IF \E syn \in Synthetics(sess, maint.at) : SyntheticAccepted(sess, syn)
       THEN \E syn \in Synthetics(sess, maint.at) : AppendSynthetic(syn, NoEnvelope, maint.at)
       ELSE UNCHANGED <<durable, op>>
    /\ UNCHANGED <<now, memory, snap, acked, crashes>>

\* evict_stale_sessions: memory only; the log and the snapshot stay.
Evict ==
    /\ Visit("evict")
    /\ IF IsTerminal(sess) /\ sess.started_at_unix_ms < maint.at - RetentionMs
       THEN sess' = NoSession /\ memlog' = <<>>
       ELSE UNCHANGED <<sess, memlog>>
    /\ UNCHANGED <<now, alive, durable, snap, op, acked, crashes>>

-----------------------------------------------------------------------------
(* After the commit point.                                                 *)

\* Mutant: a commit takes no dedup slot.
CommittedNoSlot(s, o) ==
    CASE o.what = "start" -> AcceptStart(o.env, o.at)
      [] o.what \in {"message", "synthetic"} -> ApplyModeResponse(s, o.resp)
      [] o.what = "cancel"  -> Cancel(s).s
      [] o.what = "suspend" -> Suspend(s, o.at).s
      [] o.what = "resume"  -> Resume(s, o.at).s
      [] OTHER              -> Expire(s).s

\* The session as the handler leaves it in memory.
Committed(s, o) ==
    CASE o.what = "start"     -> AcceptStart(o.env, o.at)
      [] o.what = "message"   -> ApplyModeResponse(TakeDedupSlot(s, o.env.id), o.resp)
      [] o.what = "synthetic" -> ApplyModeResponse(TakeDedupSlot(s, o.entry.env.id), o.resp)
      [] o.what = "cancel"    -> Cancel(s).s
      [] o.what = "suspend"   -> Suspend(s, o.at).s
      [] o.what = "resume"    -> Resume(s, o.at).s
      [] o.what = "cleanup"   -> [s EXCEPT !.state = "Expired"]
      [] OTHER                -> Expire(s).s

\* The in-memory log, the session and the snapshot.  A suspend that found
\* the session expired is the one handler that does not save.
Commit ==
    /\ op.pc = "commit"
    /\ sess' = Committed(sess, op)
    /\ memlog' = Append(memlog, op.entry)
    /\ IF op.what = "expire-unsaved" THEN UNCHANGED snap ELSE SaveSnapshot(sess')
    /\ op' = Finishing(op)
    /\ UNCHANGED <<now, alive, durable, maint, acked, crashes>>

\* What the client is told once the handler is done: Ok for an envelope.
Answered(o) == IF o.what \in {"start", "message"} THEN {o.env.id} ELSE {}

\* Terminal transitions by a message, a cancel or the cleanup compact; lazy
\* expiry and a resume that force-expires do not.
Compacts(what, s) ==
    \/ what \in {"cancel", "cleanup"}
    \/ what = "message" /\ s.state = "Resolved"

\* Compaction or checkpoint, then the answer.
Finish ==
    /\ op.pc = "finish"
    /\ IF Compacts(op.what, sess) THEN CompactOrCheckpoint
       ELSE IF op.what \in {"message", "synthetic"} THEN MaybeInsertCheckpoint
       ELSE UNCHANGED <<durable, memlog>>
    /\ acked' = acked \cup Answered(op)
    /\ op' = IF op.what = "synthetic" /\ op.env # NoEnvelope
             THEN Dispatching(op)
             ELSE Idle
    /\ UNCHANGED <<now, alive, sess, snap, maint, crashes>>

-----------------------------------------------------------------------------
(* A request dropped at one of its awaits: MACP_REQUEST_TIMEOUT_SECS ran   *)
(* out (src/main.rs, src/http/server.rs) or the client disconnected.  The  *)
(* locks are released and nothing is undone.                               *)

\* What the append had written stays.  The registry holds a start's session
\* since its reservation.
Abandon ==
    /\ RequestTimeouts
    /\ op.pc \in {"expire", "control", "dispatch", "commit", "finish"}
    /\ ~MaintenanceBusy
    /\ sess' = IF op.pc = "commit" /\ op.what = "start" THEN Committed(sess, op) ELSE sess
    /\ op' = Idle
    /\ UNCHANGED <<now, alive, memlog, durable, snap, maint, acked, crashes>>

\* A start dropped before its append: the reservation is not rolled back.
AbandonStart(env) ==
    /\ RequestTimeouts
    /\ StartReserved(env)
    /\ sess' = AcceptStart(env, now)
    /\ UNCHANGED <<now, alive, memlog, durable, snap, op, maint, acked, crashes>>

-----------------------------------------------------------------------------
(* Crash, recovery and time.                                               *)

\* The process is gone and its memory with it.
Stop ==
    /\ crashes < MaxCrashes
    /\ alive' = FALSE /\ sess' = NoSession /\ memlog' = <<>> /\ op' = Idle
    /\ maint' = Pass("cleanup")
    /\ crashes' = crashes + 1
    /\ UNCHANGED <<now, durable, acked>>

Crash ==
    /\ alive \/ op.pc = "replay"
    /\ Stop
    /\ UNCHANGED snap

\* SIGTERM: the requests are drained, the maintenance task is aborted at
\* whatever await it is, and every session in memory is saved.
Shutdown ==
    /\ alive /\ (op = Idle \/ MaintenanceBusy)
    /\ Stop
    /\ IF sess = NoSession THEN UNCHANGED snap ELSE SaveSnapshot(sess)

\* recover_sessions, before the process serves anyone.  replay_session goes
\* through the stored log: `n` counts the entries taken care of and `s` is
\* the session so far.
Replaying(n, s) == [pc |-> "replay", what |-> "recover", n |-> n, s |-> s]

\* try_replay_from_checkpoint.
ReplayFromCheckpoint ==
    /\ ~alive /\ op = Idle
    /\ \E n \in DOMAIN log : IsLastCheckpoint(log, n) /\ op' = Replaying(n, log[n].session)
    /\ UNCHANGED <<now, memory, durable, snap, maint, acked, crashes>>

\* Mutant: the process serves before its recovery is done.
ReplayFromStartServing ==
    /\ ~alive /\ op = Idle
    /\ ~HasCheckpoint(log)
    /\ \E n \in DOMAIN log : IsFirstStart(log, n) /\ op' = Replaying(1, ReplayStart(log[n]))
    /\ alive' = TRUE
    /\ UNCHANGED <<now, sess, memlog, durable, snap, maint, acked, crashes>>

\* replay_from_start: the first SessionStart, then every entry but the first.
ReplayFromStart ==
    /\ ~alive /\ op = Idle
    /\ ~HasCheckpoint(log)
    /\ \E n \in DOMAIN log : IsFirstStart(log, n) /\ op' = Replaying(1, ReplayStart(log[n]))
    /\ UNCHANGED <<now, memory, durable, snap, maint, acked, crashes>>

\* There is no log, or nothing in it that replay could begin with.
RecoverNothing ==
    /\ ~alive /\ op = Idle
    /\ ~HasCheckpoint(log) /\ \A n \in DOMAIN log : ~IsStart(log[n])
    /\ alive' = TRUE
    /\ UNCHANGED <<now, sess, memlog, durable, snap, op, maint, acked, crashes>>

ReplayStep ==
    /\ op.pc = "replay" /\ op.n < Len(log)
    /\ op' = Replaying(op.n + 1, ReplayEntry(op.s, log[op.n + 1]))
    /\ UNCHANGED <<now, memory, durable, snap, maint, acked, crashes>>

\* The replayed session and the whole stored log.  A session whose log does
\* not replay is skipped.
RecoverDone ==
    /\ op.pc = "replay" /\ op.n = Len(log)
    /\ alive' = TRUE /\ op' = Idle
    /\ IF op.s = Unreplayable
       THEN UNCHANGED <<sess, memlog, snap>>
       ELSE sess' = op.s /\ memlog' = log /\ SaveSnapshot(op.s)
    /\ UNCHANGED <<now, durable, maint, acked, crashes>>

Tick ==
    /\ now' \in InitialClock .. MaxClock
    /\ ClockMonotonic => now' > now
    /\ UNCHANGED <<memory, durable, snap, op, maint, acked, crashes>>

Next ==
    \/ \E env \in StartEnvelopes : StartSession(env) \/ AbandonStart(env)
    \/ \E env \in StartEnvelopes \cup ClientEnvelopes : Duplicate(env)
    \/ \E env \in ClientEnvelopes : MessageExpired(env) \/ Message(env)
    \/ DispatchTrigger
    \/ \E what \in {"get", "cancel", "suspend"} : Control(what)
    \/ ExpireAppend \/ CancelAppend \/ SuspendAppend \/ ResumeAppend
    \/ BeginPass \/ Cleanup \/ Sweep \/ Evict
    \/ Commit \/ Finish \/ Abandon \/ Crash \/ Shutdown
    \/ ReplayFromCheckpoint \/ ReplayFromStart \/ RecoverNothing \/ ReplayStep \/ RecoverDone
    \/ Tick

Spec == Init /\ [][Next]_vars
=============================================================================
