---------------------------- MODULE KernelProps ----------------------------
(***************************************************************************)
(* What the kernel promises of one session across failures, crashes and    *)
(* restarts.                                                               *)
(***************************************************************************)
EXTENDS Kernel

IsSession(s) ==
    /\ s.state \in SessionStates
    /\ s = [state |-> s.state, ttl_expiry |-> s.ttl_expiry,
            started_at_unix_ms |-> s.started_at_unix_ms,
            seen_message_ids |-> s.seen_message_ids, mode_state |-> s.mode_state,
            suspended_at_ms |-> s.suspended_at_ms,
            accumulated_suspended_ms |-> s.accumulated_suspended_ms,
            suspension_intervals |-> s.suspension_intervals,
            max_suspend_ms |-> s.max_suspend_ms]

\* Type correctness: every variable holds what the program keeps there; a
\* session is a whole session record in one of the five states.
TypeOK ==
    /\ now \in Int /\ alive \in BOOLEAN /\ crashes \in Nat
    /\ \A s \in {sess, snap} : s = NoSession \/ IsSession(s)
    /\ op.pc \in {"idle", "expire", "control", "dispatch", "commit", "finish", "replay"}
    /\ op.pc = "replay" => ~alive
    /\ op.pc \notin {"idle", "replay"} => alive
    /\ ~alive => sess = NoSession /\ memlog = <<>>
    /\ maint \in [pass : {"cleanup", "sweep", "evict"}, at : Int]

\* Two sessions agree in every field of the model, but for the time of a
\* suspension that is over.  The per-participant activity that GetSession
\* shows is not among them: it starts anew with a recovery (docs/modes.md).
Agree(r, l) ==
    /\ [r EXCEPT !.suspended_at_ms = NoTime] = [l EXCEPT !.suspended_at_ms = NoTime]
    /\ l.state = "Suspended" => r.suspended_at_ms = l.suspended_at_ms

\* The commit point works: whenever no handler is between its append and its
\* commit, a crash would bring back the very session being served.
RecoveryAgrees ==
    op.pc # "commit" /\ sess # NoSession => IsSession(dur) /\ Agree(dur, sess)

\* The log never becomes unreplayable, so recovery never drops a session.
AlwaysReplayable == dur # Unreplayable

\* What a client was told is accepted is in the durable history, whatever
\* fails later: its dedup slot survives every crash and compaction.
AckedSurvive == \A id \in acked : IsSession(dur) /\ id \in dur.seen_message_ids

\* No message enters accepted history twice, retries and restarts included.
AcceptedOnce == \A i, j \in DOMAIN hist : hist[i] = hist[j] => i = j

\* An accepted envelope keeps its ordinal for good: both logs number their
\* envelopes by their place in accepted history, across compaction,
\* checkpoints and recovery.
OrdinalsStable ==
    \A entries \in {log, memlog} :
        \A i \in IncomingIn(entries) :
            LET n == OrdinalOf(entries, i)
            IN  n \in DOMAIN hist /\ hist[n] = entries[i].env.id

\* Nothing accepted is missing from the ordinals a subscriber may resume at.
HighWaterComplete ==
    /\ HighWater(log) = Len(hist)
    /\ sess # NoSession /\ op.pc # "commit" => HighWater(memlog) = Len(hist)

\* The deadline is the start's own plus exactly the suspended time that the
\* session has banked, in memory, in the log and in the snapshot, through any
\* alternation of suspensions, expiries and replays (Session::resume in
\* session.rs).
DeadlineBanked ==
    \A s \in {sess, dur, snap} : s.state \in {"Open", "Suspended"} =>
        \E env \in StartEnvelopes :
            s.ttl_expiry = TtlBase(env, s.started_at_unix_ms) + env.ttl_ms + s.accumulated_suspended_ms

\* Accepted history is in order of its recorded clocks, although a synthetic
\* accept is stamped with a deadline that lies in the past when it is
\* written: nothing accepted before it carries a later time
\* (synthesize_due_accept in runtime.rs).
HistoryInOrder ==
    \A i, j \in IncomingIn(log) : i < j => log[i].at <= log[j].at

\* The recorded times of a session can be relied on: its deadline, and the
\* order of its history.
ClocksSound == DeadlineBanked /\ HistoryInOrder

\* The snapshot never runs ahead of the log: it shows no message and no
\* terminal state the log does not have.
SnapshotNotAhead ==
    IsSession(snap) =>
        /\ IsSession(dur)
        /\ snap.seen_message_ids \subseteq dur.seen_message_ids
        /\ IsTerminal(snap) => dur.state = snap.state

\* Accepted history is one numbered record: nothing enters it twice, both logs
\* count it alike and the snapshot is never ahead of it, across retries,
\* failed writes, compaction, checkpoints, crashes and recovery (runtime.rs
\* process_message, maybe_insert_checkpoint, maybe_compact_log; replay.rs).
HistoryStable == AcceptedOnce /\ OrdinalsStable /\ HighWaterComplete /\ SnapshotNotAhead

\* What a subscriber is served, the in-memory log, holds no envelope twice
\* and none that the disk does not have, although requests are dropped at
\* any await and retried.
ServedOnce ==
    /\ \A i, j \in IncomingIn(memlog) : memlog[i].env.id = memlog[j].env.id => i = j
    /\ \A i \in IncomingIn(memlog) : memlog[i].env.id \in ToSet(hist)

\* What is served stays consistent although requests are dropped at any
\* await: every step leaves a log with nothing twice in it, and the session
\* being served never leaves a terminal state, even where the log recorded
\* more than a dropped request installed (process_message in runtime.rs).
ServedConsistent ==
    [][/\ ServedOnce'
       /\ (IsSession(sess) /\ IsTerminal(sess) /\ sess' # NoSession) => sess'.state = sess.state]_vars

\* A terminal state is final: no message, control operation, timer, crash
\* or recovery moves a session out of it, or into another one.
TerminalFinal ==
    [][(IsSession(dur) /\ IsTerminal(dur)) => dur'.state = dur.state]_vars

\* A step that adds an envelope to the history of a running session, and
\* that envelope's entry.
Accepts == hist' # hist /\ dur # NoSession

Accepted == log'[Len(log')]

IsSynthetic(e) == e.env.id[1] = "implicit-accept"

\* Every envelope enters accepted history while the session is Open, and a
\* client's at a recorded time within the deadline: no path from a clock
\* reading to the append lets a late message in.
InTime ==
    /\ dur.state = "Open"
    /\ IsSynthetic(Accepted) \/ ~(Accepted.at > dur.ttl_expiry)

\* No message is evaluated against a stale offer: whatever the mode says is
\* due at a message's acceptance clock is in history before it.
NothingDueBefore == ~IsSynthetic(Accepted) => Synthetics(dur, Accepted.at) = {}

\* An envelope is accepted in its time and its turn (process_message and
\* synthesize_due_accept in runtime.rs).
AcceptedInTime == [][Accepts => InTime /\ NothingDueBefore]_vars

-----------------------------------------------------------------------------
(* What the kernel must eventually do, and the scheduling it relies on.    *)

\* The handler that holds the mutex runs on: tokio polls a ready task.
HandlerStep ==
    DispatchTrigger \/ ExpireAppend \/ CancelAppend \/ SuspendAppend \/ Commit \/ Finish

\* A visit of the maintenance task whose append succeeds.
Succeeds(visit) == visit /\ op'.pc = "commit"

\* Strong fairness of a visit: tokio's mutex is granted in arrival order, so
\* other handlers cannot keep the maintenance task out for ever; and storage
\* does not refuse every attempt of a task that keeps retrying.  A crashed
\* process is restarted.
Fairness ==
    /\ WF_vars(HandlerStep)
    /\ WF_vars(ReplayFromCheckpoint \/ ReplayFromStart \/ RecoverNothing)
    /\ WF_vars(ReplayStep \/ RecoverDone)
    /\ WF_vars(BeginPass)
    /\ SF_vars(Cleanup) /\ SF_vars(Succeeds(Cleanup))
    /\ SF_vars(Sweep) /\ SF_vars(Succeeds(Sweep))
    /\ SF_vars(Evict)

FairSpec == Spec /\ Fairness

\* A session left Open past its deadline does not stay Open: the cleanup
\* pass expires it durably although nobody addresses it again, through
\* failed appends, a crash and the recovery.
ExpiredEventually ==
    (dur.state = "Open" /\ now > dur.ttl_expiry) ~> (dur.state # "Open")

\* An implicit accept that is due enters history although nobody speaks
\* again, unless the session stops being Open or the offer is answered.
DueIsSettled ==
    (dur.state = "Open" /\ Synthetics(dur, now) # {})
        ~> (dur.state # "Open" \/ Synthetics(dur, now) = {})

\* Timers fire (cleanup_expired_sessions, sweep_due_synthetic_accepts): a
\* deadline and a due envelope each take effect although nobody addresses
\* the session again.
TimersFire == ExpiredEventually /\ DueIsSettled
=============================================================================
