------------------------------ MODULE Session ------------------------------
(***************************************************************************)
(* The pure session core: crates/macp-core/src/session.rs, the lifecycle   *)
(* operations of one coordination session.  Nothing here reads a clock or  *)
(* does I/O; every operator takes the instant the caller observed.         *)
(*                                                                         *)
(* Time is an integer number of milliseconds.  The code's i64 arithmetic   *)
(* saturates and every bound duration is at most days, so it is modelled   *)
(* by the unbounded integers.                                              *)
(***************************************************************************)
EXTENDS Integers, Sequences, FiniteSets, SequencesExt, ModeCommon

CONSTANTS
    MaxSuspendMs,         \* MAX_SUSPEND_MS, the default cap on suspended time
    MaxSuspensionCycles,  \* MAX_SUSPENSION_CYCLES
    SemanticsRev          \* the revision the session was accepted under

ASSUME SessionConstants ==
    /\ MaxSuspendMs \in Nat \ {0}
    /\ MaxSuspensionCycles \in Nat
    /\ SemanticsRev \in Nat

\* Option<i64>: the absent suspension time.
NoTime == -1

SessionStates == {"Open", "Resolved", "Expired", "Suspended", "Cancelled"}

TerminalStates == {"Resolved", "Expired", "Cancelled"}

IsTerminal(s) == s.state \in TerminalStates

\* Result<(), MacpError> of an operation on &mut session: whether it
\* returned Ok, and the session as it left it (resume mutates, then errs).
Ok(s)  == [ok |-> TRUE,  s |-> s]
Err(s) == [ok |-> FALSE, s |-> s]

-----------------------------------------------------------------------------
(* Suspension and the deadline.                                            *)

Suspend(s, now) ==
    IF s.state # "Open" THEN Err(s)
    ELSE Ok([s EXCEPT !.state = "Suspended", !.suspended_at_ms = now])

EffectiveMaxSuspendMs(s) ==
    IF s.max_suspend_ms > 0 THEN s.max_suspend_ms ELSE MaxSuspendMs

\* (now - at).max(0)
Elapsed(at, now) == IF now > at THEN now - at ELSE 0

\* Mutant: the pause is recorded and the deadline not extended.
ResumeUnbanked(s, now) ==
    IF s.state # "Suspended" THEN Err(s)
    ELSE LET banked == Elapsed(s.suspended_at_ms, now)
         IN  Ok([s EXCEPT !.state = "Open", !.suspended_at_ms = NoTime,
                          !.accumulated_suspended_ms = @ + banked,
                          !.suspension_intervals = Append(@, <<s.suspended_at_ms, now>>)])

\* The completed pause is recorded before either cap is consulted; over a
\* cap the session is force-expired and its deadline is left alone.
Resume(s, now) ==
    LET at       == IF s.suspended_at_ms = NoTime THEN now ELSE s.suspended_at_ms
        banked   == Elapsed(at, now)
        records  == SemanticsRev >= 2 \/ Len(s.suspension_intervals) < MaxSuspensionCycles
        paused   == [s EXCEPT
                       !.accumulated_suspended_ms = @ + banked,
                       !.suspended_at_ms = NoTime,
                       !.suspension_intervals = IF records THEN Append(@, <<at, now>>) ELSE @]
        overCycles == SemanticsRev >= 2 /\ Len(paused.suspension_intervals) > MaxSuspensionCycles
        overTime   == paused.accumulated_suspended_ms > EffectiveMaxSuspendMs(s)
    IN  IF s.state # "Suspended" THEN Err(s)
        ELSE IF overCycles \/ overTime THEN Err([paused EXCEPT !.state = "Expired"])
        ELSE Ok([paused EXCEPT !.ttl_expiry = @ + banked, !.state = "Open"])

Cancel(s) ==
    IF IsTerminal(s) THEN Err(s)
    ELSE Ok([s EXCEPT !.state = "Cancelled", !.suspended_at_ms = NoTime])

Expire(s) ==
    IF IsTerminal(s) THEN Err(s)
    ELSE Ok([s EXCEPT !.state = "Expired", !.suspended_at_ms = NoTime])

SuspendCapExceeded(s, now) ==
    s.accumulated_suspended_ms
      + (IF s.suspended_at_ms = NoTime THEN 0 ELSE Elapsed(s.suspended_at_ms, now))
      > EffectiveMaxSuspendMs(s)

\* An Open session is in time up to and including its deadline.
DeadlinePassed(s, now) ==
    \/ s.state = "Open" /\ now > s.ttl_expiry
    \/ s.state = "Suspended" /\ SuspendCapExceeded(s, now)

\* The walk over the completed pauses starting at or after from: `left` is
\* the unsuspended time still to elapse, `cur` the instant reached so far.
\* Once a run covers what is left the answer no longer moves.
UnsuspendedDeadline(s, from, duration) ==
    LET pauses == SelectSeq(s.suspension_intervals, LAMBDA p : p[1] >= from)
        Walk(w, p) ==
            LET run == Elapsed(w.cur, p[1])
            IN  IF w.done \/ run >= w.left THEN [w EXCEPT !.done = TRUE]
                ELSE [w EXCEPT !.left = @ - run,
                               !.cur  = Max({p[1], p[2], w.cur})]
        end == FoldLeft(Walk, [cur |-> from, left |-> duration, done |-> FALSE], pauses)
    IN  end.cur + end.left

=============================================================================
