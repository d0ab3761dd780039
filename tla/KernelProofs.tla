---------------------------- MODULE KernelProofs ----------------------------
(***************************************************************************)
(* Proofs about the kernel for every mode, every set of envelopes and      *)
(* every value of the bounds.  The inductive invariant says that `replayed`*)
(* is what replaying the log prefix by prefix gives (LogInv), that its     *)
(* last element is the session in memory, or the one the handler past its  *)
(* commit point is about to install (ServedInv), that the trigger of a     *)
(* synthetic accept is still acceptable behind it (TriggerInv), and that a *)
(* recovery in progress holds the session of the prefix it has read        *)
(* (ReplayInv).                                                            *)
(*                                                                         *)
(* That accepted history is one numbered record (HistoryStable) needs to   *)
(* know, beside that, what the in-memory log is against the durable one,   *)
(* and that the message that waits behind a synthetic accept is still a    *)
(* new one.  What a client is served while the process runs on, dropped    *)
(* requests included (ServedConsistent), has an invariant of its own, and  *)
(* so has the account of the deadline (DeadlineBanked).                    *)
(***************************************************************************)
EXTENDS KernelProps, TLAPS, SequenceTheorems, FiniteSetTheorems

CONSTANT Kept(_)   \* what the mode keeps true of its own state (see OneAtATime)

\* A sequence of anything: the elements are not typed.
IsSeq(s) == s \in Seq(Range(s))

\* What the log replays to, d, against the session in memory, s.  They are
\* equal but for the suspension time an expiry clears in memory only.
Same(d, s) ==
    /\ IsSession(d) /\ IsSession(s)
    /\ [d EXCEPT !.suspended_at_ms = NoTime] = [s EXCEPT !.suspended_at_ms = NoTime]
    /\ s.state # "Expired" => d = s

\* Which variables hold a session at which step of a handler.
Shape ==
    /\ alive \in BOOLEAN
    /\ op.pc \in {"idle", "expire", "control", "dispatch", "commit", "finish", "replay"}
    /\ op.pc = "replay" => ~alive
    /\ op.pc \notin {"idle", "replay"} => alive
    /\ ~alive => sess = NoSession
    /\ sess = NoSession \/ IsSession(sess)
    /\ op.pc \in {"expire", "control", "dispatch", "finish"} => sess # NoSession
    /\ op.pc = "commit" /\ op.what # "start" => sess # NoSession

\* replayed is the chain of replayed prefixes, and every one is a session.
LogInv ==
    /\ IsSeq(log) /\ IsSeq(replayed) /\ Len(replayed) = Len(log)
    /\ \A i \in DOMAIN log :
          /\ replayed[i] = ReplayAppend(IF i = 1 THEN NoSession ELSE replayed[i - 1], log[i])
          /\ IsSession(replayed[i])
    /\ log # <<>> => IsStart(log[1]) \/ log[1].kind = "Checkpoint"

\* The durable session against the session in memory, on both sides of the
\* commit point.
ServedInv ==
    /\ sess # NoSession /\ op.pc # "commit" => Same(dur, sess)
    /\ op.pc = "commit" => Same(dur, Committed(sess, op))

\* Replay would dispatch env to s.
Dispatchable(s, env) == s.state = "Open" /\ AuthorizeSender(s, env)

\* A message waits behind the synthetic accept being written.
Waiting(o) == o.what = "synthetic" /\ o.env # NoEnvelope

\* The message waiting behind a synthetic accept stays acceptable, so that
\* replay takes the same branch as the handler.
TriggerInv ==
    /\ op.pc = "commit" /\ Waiting(op) => Dispatchable(Committed(sess, op), op.env)
    /\ op.pc = "finish" /\ Waiting(op) => Dispatchable(sess, op.env)
    /\ op.pc = "dispatch" => Dispatchable(sess, op.env)

\* A recovery in progress has replayed a prefix of the log, and no
\* checkpoint lies ahead of it.
ReplayInv ==
    op.pc = "replay" =>
        /\ op.n \in 1 .. Len(log)
        /\ op.s = replayed[op.n]
        /\ \A m \in DOMAIN log : m > op.n => log[m].kind # "Checkpoint"

\* What the kernel relies on.  Storage that reports an error wrote nothing,
\* no request is dropped between its append and its commit, an id with
\* stored history is not started again, and the mode keeps its contract
\* (handoff does: ModesProofs).
Reliance ==
    /\ "written" \notin AppendFaults
    /\ RequestTimeouts = FALSE
    /\ ReuseIds = FALSE
    /\ ModeContract

\* The inductive invariant.
IInv == Shape /\ LogInv /\ ServedInv /\ TriggerInv /\ ReplayInv

\* No request is dropped.
LEMMA NoneDropped == ASSUME Reliance PROVE ~Abandon /\ \A env : ~AbandonStart(env)
  BY DEF Reliance, Abandon, AbandonStart

-----------------------------------------------------------------------------
(* The operations on a session.                                            *)

\* A mode response leaves a session a session.
LEMMA ApplyIsSession ==
    ASSUME NEW s, IsSession(s), NEW resp
    PROVE  IsSession(ApplyModeResponse(s, resp))
  BY DEF IsSession, ApplyModeResponse, SessionStates

\* So does taking a dedup slot, which leaves the state alone.
LEMMA TakeIsSession ==
    ASSUME NEW s, IsSession(s), NEW id
    PROVE  /\ IsSession(TakeDedupSlot(s, id))
           /\ TakeDedupSlot(s, id).state = s.state
  BY DEF IsSession, TakeDedupSlot, SessionStates

\* The handler takes the slot and then applies the response, replay the
\* other way round: the result is the same.
LEMMA TakeThenApply ==
    ASSUME NEW s, IsSession(s), NEW id, NEW resp
    PROVE  TakeDedupSlot(ApplyModeResponse(s, resp), id)
             = ApplyModeResponse(TakeDedupSlot(s, id), resp)
  BY DEF IsSession, TakeDedupSlot, ApplyModeResponse

\* The control operations leave a session a session.
LEMMA ControlIsSession ==
    ASSUME NEW s, IsSession(s), NEW at
    PROVE  /\ IsSession(Suspend(s, at).s)
           /\ IsSession(Resume(s, at).s)
           /\ IsSession(Cancel(s).s)
           /\ IsSession(Expire(s).s)
  <1>1. IsSession(Suspend(s, at).s)
    BY DEF IsSession, Suspend, Ok, Err, SessionStates
  <1>2. IsSession(Resume(s, at).s)
    BY DEF IsSession, Resume, Ok, Err, SessionStates
  <1>3. IsSession(Cancel(s).s)
    BY DEF IsSession, Cancel, Ok, Err, SessionStates
  <1>4. IsSession(Expire(s).s)
    BY DEF IsSession, Expire, Ok, Err, SessionStates
  <1> QED BY <1>1, <1>2, <1>3, <1>4

\* A SessionStart begins a session.
LEMMA StartIsSession ==
    ASSUME NEW env, NEW at
    PROVE  IsSession(AcceptStart(env, at))
  <1>1. IsSession(BuildSession(env, at))
    BY DEF BuildSession, IsSession, SessionStates
  <1> QED BY <1>1, TakeIsSession, ApplyIsSession DEF AcceptStart

\* Replay's expiry against the live one: only suspended_at_ms differs.
LEMMA ExpiredSame ==
    ASSUME NEW s, IsSession(s), ~IsTerminal(s)
    PROVE  Same([s EXCEPT !.state = "Expired"], Expire(s).s)
  <1> DEFINE d == [s EXCEPT !.state = "Expired"]
             l == [s EXCEPT !.state = "Expired", !.suspended_at_ms = NoTime]
  <1>1. Expire(s).s = l
    BY DEF Expire, Ok
  <1>2. IsSession(d)
    BY DEF IsSession, SessionStates
  <1>4. IsSession(l)
    BY <1>1, ControlIsSession
  <1>5. l.state = "Expired"
    BY DEF IsSession
  <1>3. [d EXCEPT !.suspended_at_ms = NoTime] = [l EXCEPT !.suspended_at_ms = NoTime]
    BY DEF IsSession
  <1> QED BY <1>1, <1>2, <1>3, <1>4, <1>5 DEF Same

\* Equal sessions are the same.
LEMMA SameSelf == ASSUME NEW s, IsSession(s) PROVE Same(s, s)
  BY DEF Same

-----------------------------------------------------------------------------
(* Durable writes.                                                         *)

\* Append on sequences whose elements are not typed.
LEMMA AppendIsSeq ==
    ASSUME NEW s, IsSeq(s), NEW e
    PROVE  /\ IsSeq(Append(s, e))
           /\ Len(s) \in Nat /\ DOMAIN s = 1 .. Len(s)
           /\ Len(Append(s, e)) = Len(s) + 1
           /\ DOMAIN Append(s, e) = 1 .. Len(s) + 1
           /\ \A i \in 1 .. Len(s) : Append(s, e)[i] = s[i]
           /\ Append(s, e)[Len(s) + 1] = e
           /\ s = <<>> <=> Len(s) = 0
  <1> DEFINE S == Range(s) \cup {e}
  <1>1. s \in Seq(Range(s)) BY DEF IsSeq
  <1>2. s \in Seq(S) BY <1>1, SeqMonotonic
  <1>3. Append(s, e) \in Seq(S) BY <1>2, AppendProperties
  <1>4. IsSeq(Append(s, e)) BY <1>3, SeqOfRange DEF IsSeq
  <1>5. Len(s) \in Nat /\ DOMAIN s = 1 .. Len(s) BY <1>2, LenProperties
  <1>6. s = <<>> <=> Len(s) = 0 BY <1>2, EmptySeq
  <1> HIDE DEF S
  <1>7. e \in S BY DEF S
  <1> QED BY <1>2, <1>4, <1>5, <1>6, <1>7, AppendProperties

\* The sequence of one element, a compacted log.
LEMMA OneIsSeq ==
    ASSUME NEW e
    PROVE  IsSeq(<<e>>) /\ Len(<<e>>) = 1 /\ <<e>>[1] = e /\ DOMAIN <<e>> = {1} /\ <<e>> # <<>>
  <1>1. <<e>> \in Seq({e}) OBVIOUS
  <1>2. IsSeq(<<e>>) BY <1>1, SeqOfRange DEF IsSeq
  <1> QED BY <1>2

\* An append extends the chain of replayed prefixes.
LEMMA AppendLog ==
    ASSUME LogInv, NEW e, AppendDurable(e),
           IsSession(ReplayAppend(dur, e)),
           log = <<>> => IsStart(e) \/ e.kind = "Checkpoint"
    PROVE  LogInv' /\ dur' = ReplayAppend(dur, e)
  <1> DEFINE n == Len(log)
             r == ReplayAppend(dur, e)
  <1>1. /\ log' = Append(log, e) /\ replayed' = Append(replayed, r)
        /\ IsSeq(log) /\ IsSeq(replayed) /\ Len(replayed) = n
    BY DEF AppendDurable, LogInv
  <1>2. /\ IsSeq(log') /\ n \in Nat /\ Len(log') = n + 1 /\ DOMAIN log = 1 .. n
        /\ DOMAIN log' = 1 .. n + 1
        /\ \A i \in 1 .. n : log'[i] = log[i]
        /\ log'[n + 1] = e
        /\ log = <<>> <=> n = 0
    BY <1>1, AppendIsSeq
  <1>3. /\ IsSeq(replayed') /\ Len(replayed') = n + 1
        /\ DOMAIN replayed' = 1 .. n + 1
        /\ \A i \in 1 .. n : replayed'[i] = replayed[i]
        /\ replayed'[n + 1] = r
        /\ replayed = <<>> <=> n = 0
    <2> HIDE DEF r
    <2> QED BY <1>1, AppendIsSeq
  <1>4. replayed' # <<>>
    BY <1>2, <1>3
  <1>5. dur' = r
    BY <1>2, <1>3, <1>4 DEF dur
  <1>6. dur = IF n + 1 = 1 THEN NoSession ELSE replayed'[n + 1 - 1]
    BY <1>1, <1>2, <1>3 DEF dur
  <1>7. ASSUME NEW i \in DOMAIN log'
        PROVE  /\ replayed'[i] = ReplayAppend(IF i = 1 THEN NoSession ELSE replayed'[i - 1], log'[i])
               /\ IsSession(replayed'[i])
    <2>1. CASE i = n + 1
      BY <1>2, <1>3, <1>6, <2>1
    <2>2. CASE i \in 1 .. n
      <3>1. /\ replayed[i] = ReplayAppend(IF i = 1 THEN NoSession ELSE replayed[i - 1], log[i])
            /\ IsSession(replayed[i])
        BY <1>2, <2>2 DEF LogInv
      <3>2. i # 1 => i - 1 \in 1 .. n
        BY <1>2, <2>2
      <3> QED BY <1>2, <1>3, <2>2, <3>1, <3>2
    <2> QED BY <1>2, <2>1, <2>2
  <1>8. IsStart(log'[1]) \/ log'[1].kind = "Checkpoint"
    <2>1. CASE n = 0 BY <1>2, <2>1
    <2>2. CASE n # 0
      <3>1. 1 \in 1 .. n BY <1>2, <2>2
      <3> QED BY <1>2, <2>2, <3>1 DEF LogInv
    <2> QED BY <2>1, <2>2
  <1> QED BY <1>2, <1>3, <1>5, <1>7, <1>8 DEF LogInv

\* Under the assumptions an append writes the entry and goes on, or writes
\* nothing and the handler gives up.
LEMMA TryAppendOutcome ==
    ASSUME Reliance, NEW e, NEW next, TryAppend(e, next)
    PROVE  \/ AppendDurable(e) /\ op' = next
           \/ UNCHANGED durable /\ op' = Idle
  BY KernelConstants DEF Reliance, TryAppend

\* A handler that is not past its commit point appends an entry: the log
\* then replays to the session the handler is about to commit.
LEMMA AppendStep ==
    ASSUME IInv, Reliance, NEW e, NEW next, TryAppend(e, next),
           op.pc \notin {"commit", "replay"}, alive, UNCHANGED <<alive, sess>>,
           next.pc = "commit",
           next.what # "start" => sess # NoSession,
           Same(ReplayAppend(dur, e), Committed(sess, next)),
           log = <<>> => IsStart(e),
           Waiting(next) => Dispatchable(Committed(sess, next), next.env)
    PROVE  IInv'
  <1>1. CASE AppendDurable(e) /\ op' = next
    <2>1. LogInv' /\ dur' = ReplayAppend(dur, e)
      BY <1>1, AppendLog DEF IInv, Same
    <2>2. Committed(sess, op)' = Committed(sess, next)
      BY <1>1
    <2>3. Shape'
      BY <1>1 DEF IInv, Shape
    <2>4. ServedInv'
      BY <1>1, <2>1, <2>2 DEF ServedInv
    <2>5. TriggerInv'
      BY <1>1, <2>2 DEF TriggerInv
    <2>6. ReplayInv'
      BY <1>1 DEF ReplayInv
    <2> QED BY <2>1, <2>3, <2>4, <2>5, <2>6 DEF IInv
  <1>2. CASE UNCHANGED durable /\ op' = Idle
    <2>1. dur' = dur /\ LogInv'
      BY <1>2 DEF durable, dur, IInv, LogInv
    <2>2. Shape' /\ ServedInv' /\ TriggerInv' /\ ReplayInv'
      BY <1>2, <2>1 DEF IInv, Idle, Shape, ServedInv, TriggerInv, ReplayInv
    <2> QED BY <2>1, <2>2 DEF IInv
  <1> QED BY <1>1, <1>2, TryAppendOutcome

\* A handler step that touches neither the session nor the log.
LEMMA QuietStep ==
    ASSUME IInv, UNCHANGED <<alive, sess, durable>>,
           op.pc \notin {"commit", "replay"},
           op'.pc \in {"idle", "expire", "control"},
           op'.pc # "idle" => alive /\ sess # NoSession
    PROVE  IInv'
  <1>1. dur' = dur /\ LogInv'
    BY DEF durable, dur, IInv, LogInv
  <1>2. Shape' /\ ServedInv' /\ TriggerInv' /\ ReplayInv'
    BY <1>1 DEF IInv, Shape, ServedInv, TriggerInv, ReplayInv
  <1> QED BY <1>1, <1>2 DEF IInv

\* While a session is served and not between append and commit, the log
\* replays to it; unless it expired, exactly.
LEMMA ServedExactly ==
    ASSUME IInv, sess # NoSession, op.pc # "commit"
    PROVE  /\ IsSession(sess) /\ IsSession(dur) /\ Same(dur, sess)
           /\ sess.state # "Expired" => dur = sess
           /\ dur # NoSession /\ dur # Unreplayable
           /\ log # <<>>
  <1>1. Same(dur, sess)
    BY DEF IInv, ServedInv
  <1>2. IsSession(sess) /\ IsSession(dur) /\ (sess.state # "Expired" => dur = sess)
    BY <1>1 DEF Same
  <1>3. dur # NoSession /\ dur # Unreplayable
    BY <1>2 DEF IsSession, NoSession, Unreplayable, SessionStates
  <1>4. log # <<>>
    <2> SUFFICES ASSUME log = <<>> PROVE FALSE
      OBVIOUS
    <2>1. IsSeq(replayed) /\ Len(replayed) = 0
      BY DEF IInv, LogInv
    <2>2. replayed = <<>>
      BY <2>1, AppendIsSeq
    <2> QED BY <2>2, <1>3 DEF dur
  <1> QED BY <1>1, <1>2, <1>3, <1>4

\* A log that is not empty replays to a session.
LEMMA DurIsSession == ASSUME IInv, replayed # <<>> PROVE IsSession(dur)
  <1>1. /\ Len(replayed) = Len(log) /\ Len(replayed) # 0 /\ Len(replayed) \in Nat
        /\ DOMAIN log = 1 .. Len(log)
    BY AppendIsSeq DEF IInv, LogInv
  <1>2. Len(replayed) \in DOMAIN log
    BY <1>1
  <1> QED BY <1>2 DEF IInv, LogInv, dur

-----------------------------------------------------------------------------
(* What each kind of entry replays to.                                     *)

\* A start replays to the session the handler builds from it.
LEMMA ReplayedStart ==
    ASSUME NEW env \in StartEnvelopes, NEW at, StartAccepted(env, at)
    PROVE  ReplayAppend(NoSession, IncomingEntry(env, at)) = AcceptStart(env, at)
  <1> DEFINE e == IncomingEntry(env, at)
  <1>1. e.kind = "Incoming" /\ e.env = env /\ e.at = at /\ IsStart(e)
    BY KernelConstants DEF IncomingEntry, IsStart, IsIncoming
  <1>2. env.ttl_ms >= 1 /\ OnSessionStart.kind # "Rejected"
    BY DEF StartAccepted
  <1> HIDE DEF e
  <1>3. ReplayAppend(NoSession, e) = ReplayStart(e)
    BY <1>1 DEF ReplayAppend
  <1>4. ~(env.ttl_ms < 1)
    BY <1>2, KernelConstants
  <1>5. ReplayStart(e) = AcceptStart(env, at)
    BY <1>1, <1>2, <1>4 DEF ReplayStart, AcceptStart
  <1> QED BY <1>3, <1>5 DEF e

\* An accepted envelope replays to the response the handler applies.
LEMMA ReplayedEnvelope ==
    ASSUME NEW s, IsSession(s), s.state = "Open", NEW env, NEW at,
           AuthorizeSender(s, env), OnMessageAt(s, env, at).kind # "Rejected"
    PROVE  ReplayAppend(s, IncomingEntry(env, at))
             = ApplyModeResponse(TakeDedupSlot(s, env.id), OnMessageAt(s, env, at))
  <1>1. s # NoSession /\ s # Unreplayable
    BY DEF NoSession, Unreplayable
  <1>2. ReplayAppend(s, IncomingEntry(env, at)) = ReplayIncoming(s, IncomingEntry(env, at))
    BY <1>1 DEF ReplayAppend, ReplayEntry, IncomingEntry
  <1>3. ReplayIncoming(s, IncomingEntry(env, at))
          = TakeDedupSlot(ApplyModeResponse(s, OnMessageAt(s, env, at)), env.id)
    BY DEF ReplayIncoming, IncomingEntry
  <1> QED BY <1>2, <1>3, TakeThenApply

\* A runtime entry is re-applied to the session before it.
LEMMA ReplayedInternal ==
    ASSUME NEW s, IsSession(s), NEW type, NEW at
    PROVE  ReplayAppend(s, InternalEntry(type, at)) = ReplayInternal(s, InternalEntry(type, at))
  <1>1. s # NoSession /\ s # Unreplayable
    BY DEF NoSession, Unreplayable, IsSession, SessionStates
  <1> QED BY <1>1 DEF ReplayAppend, ReplayEntry, InternalEntry

\* A lazily expired session: replay leaves suspended_at_ms behind.
LEMMA ExpireStep ==
    ASSUME IInv, Reliance, NEW at, NEW what \in {"expire", "expire-unsaved"},
           TryAppend(InternalEntry("TtlExpired", at),
                     Committing(what, NoEnvelope, at, InternalEntry("TtlExpired", at), NoOp)),
           op.pc \notin {"commit", "replay"}, alive, sess # NoSession,
           DeadlinePassed(sess, at), UNCHANGED <<alive, sess>>
    PROVE  IInv'
  <1> DEFINE e == InternalEntry("TtlExpired", at)
             next == Committing(what, NoEnvelope, at, e, NoOp)
  <1>1. IsSession(sess) /\ ~IsTerminal(sess) /\ dur = sess /\ log # <<>>
    BY ServedExactly DEF DeadlinePassed, IsTerminal, TerminalStates
  <1>2. ReplayAppend(dur, e) = [sess EXCEPT !.state = "Expired"]
    BY <1>1, ReplayedInternal DEF ReplayInternal, InternalEntry
  <1>3. Committed(sess, next) = Expire(sess).s
    BY DEF Committed, Committing
  <1>4. next.pc = "commit" /\ next.what # "start" /\ ~Waiting(next)
    BY DEF Committing, Waiting
  <1> HIDE DEF e, next
  <1>5. Same(ReplayAppend(dur, e), Committed(sess, next))
    BY <1>1, <1>2, <1>3, ExpiredSame
  <1>6. TryAppend(e, next) BY DEF e, next
  <1> QED BY <1>1, <1>4, <1>5, <1>6, AppendStep

\* The entries that replay re-applies exactly as the handler does.
LEMMA InternalStep ==
    ASSUME IInv, Reliance, NEW at, NEW type, NEW what,
           \/ what = "cancel"  /\ type = "SessionCancel"  /\ ~IsTerminal(sess)
           \/ what = "suspend" /\ type = "SessionSuspend" /\ sess.state = "Open"
           \/ what = "resume"  /\ type = "SessionResume"  /\ sess.state = "Suspended"
           \/ what = "cleanup" /\ type = "TtlExpired"     /\ sess.state = "Open",
           TryAppend(InternalEntry(type, at),
                     Committing(what, NoEnvelope, at, InternalEntry(type, at), NoOp)),
           op.pc \notin {"commit", "replay"}, alive, sess # NoSession,
           UNCHANGED <<alive, sess>>
    PROVE  IInv'
  <1> DEFINE e == InternalEntry(type, at)
             next == Committing(what, NoEnvelope, at, e, NoOp)
  <1>1. IsSession(sess) /\ dur = sess /\ log # <<>>
    BY ServedExactly DEF IsTerminal, TerminalStates
  <1>2. ReplayAppend(dur, e) = Committed(sess, next)
    BY <1>1, ReplayedInternal DEF ReplayInternal, InternalEntry, Committed, Committing
  <1>3. IsSession(Committed(sess, next))
    <2>1. IsSession([sess EXCEPT !.state = "Expired"])
      BY <1>1 DEF IsSession, SessionStates
    <2> QED BY <1>1, <2>1, ControlIsSession DEF Committed, Committing
  <1>4. next.pc = "commit" /\ next.what # "start" /\ ~Waiting(next)
    BY DEF Committing, Waiting
  <1> HIDE DEF e, next
  <1>5. Same(ReplayAppend(dur, e), Committed(sess, next))
    BY <1>2, <1>3, SameSelf
  <1>6. TryAppend(e, next) BY DEF e, next
  <1> QED BY <1>1, <1>4, <1>5, <1>6, AppendStep

\* A client's envelope, on its way from the mode's answer to its commit.
LEMMA MessageStep ==
    ASSUME IInv, Reliance, NEW env, NEW at, AppendMessage(env, at),
           op.pc \notin {"commit", "replay"}, alive, sess # NoSession,
           sess.state = "Open", AuthorizeSender(sess, env), UNCHANGED <<alive, sess>>
    PROVE  IInv'
  <1> DEFINE e == IncomingEntry(env, at)
             resp == OnMessageAt(sess, env, at)
             next == Committing("message", env, at, e, resp)
  <1>1. IsSession(sess) /\ dur = sess /\ log # <<>>
    BY ServedExactly
  <1>2. resp.kind # "Rejected" /\ TryAppend(e, next)
    BY DEF AppendMessage
  <1>3. ReplayAppend(dur, e) = ApplyModeResponse(TakeDedupSlot(sess, env.id), resp)
    BY <1>1, <1>2, ReplayedEnvelope
  <1>4. Committed(sess, next) = ApplyModeResponse(TakeDedupSlot(sess, env.id), resp)
    BY DEF Committed, Committing
  <1>5. next.pc = "commit" /\ next.what # "start" /\ ~Waiting(next)
    BY DEF Committing, Waiting
  <1> HIDE DEF e, next, resp
  <1>6. Same(ReplayAppend(dur, e), Committed(sess, next))
    BY <1>1, <1>3, <1>4, TakeIsSession, ApplyIsSession, SameSelf
  <1> QED BY <1>1, <1>2, <1>5, <1>6, AppendStep

\* The runtime's own envelope, with the message waiting behind it.
LEMMA SyntheticStep ==
    ASSUME IInv, Reliance, NEW at, NEW syn \in Synthetics(sess, at), NEW trigger,
           AppendSynthetic(syn, trigger, at),
           op.pc \notin {"commit", "replay"}, alive, sess # NoSession,
           trigger # NoEnvelope => AuthorizeSender(sess, trigger), UNCHANGED <<alive, sess>>
    PROVE  IInv'
  <1> DEFINE e == IncomingEntry(syn, syn.timestamp)
             resp == SyntheticResponse(sess, syn)
             next == [Committing("synthetic", syn, at, e, resp) EXCEPT !.env = trigger]
             t == ApplyModeResponse(TakeDedupSlot(sess, syn.id), resp)
  <1>1. IsSession(sess) /\ sess.state = "Open" /\ dur = sess /\ log # <<>>
    BY ServedExactly DEF Synthetics
  <1>2. AuthorizeSender(sess, syn) /\ resp.kind # "Rejected" /\ TryAppend(e, next)
    BY DEF AppendSynthetic, SyntheticAccepted
  <1>3. ReplayAppend(dur, e) = t
    BY <1>1, <1>2, ReplayedEnvelope DEF SyntheticResponse
  <1>4. next.pc = "commit" /\ next.what = "synthetic" /\ next.env = trigger
        /\ next.entry = e /\ next.resp = resp
    BY DEF Committing
  <1>5. Committed(sess, next) = t
    BY <1>4 DEF Committed, IncomingEntry
  <1>6. IsSession(t) /\ t.state = "Open"
    <2>1. IsSession(TakeDedupSlot(sess, syn.id)) /\ TakeDedupSlot(sess, syn.id).state = "Open"
      BY <1>1, TakeIsSession
    <2>2. resp.kind # "PersistAndResolve"
      BY DEF Reliance, ModeContract
    <2> QED BY <2>1, <2>2, ApplyIsSession DEF ApplyModeResponse, IsSession
  <1>7. trigger # NoEnvelope => AuthorizeSender(t, trigger)
    BY DEF Reliance, ModeContract
  <1> HIDE DEF e, next, resp, t
  <1>8. Waiting(next) => Dispatchable(Committed(sess, next), next.env)
    BY <1>4, <1>5, <1>6, <1>7 DEF Waiting, Dispatchable
  <1>9. Same(ReplayAppend(dur, e), Committed(sess, next))
    BY <1>3, <1>5, <1>6, SameSelf
  <1> QED BY <1>1, <1>2, <1>4, <1>8, <1>9, AppendStep

\* A checkpoint or a compaction at the end of a handler leaves the log
\* replaying to the session in memory, or leaves the log alone.
LEMMA CheckpointWrite ==
    ASSUME IInv, Reliance, IsSession(sess),
           ForceCheckpoint \/ Compact \/ UNCHANGED durable
    PROVE  LogInv' /\ (dur' = sess \/ dur' = dur)
  <1>1. CASE UNCHANGED durable
    BY <1>1 DEF durable, dur, IInv, LogInv
  <1>2. CASE ForceCheckpoint
    <2> DEFINE e == CheckpointEntry(sess, 0)
    <2>1. e.kind = "Checkpoint" /\ e.session = sess
      BY DEF CheckpointEntry
    <2>2. AppendDurable(e) \/ UNCHANGED durable
      BY <1>2 DEF ForceCheckpoint
    <2> HIDE DEF e
    <2>3. ReplayAppend(dur, e) = sess
      BY <2>1 DEF ReplayAppend
    <2>4. CASE AppendDurable(e)
      BY <2>1, <2>3, <2>4, AppendLog DEF IInv
    <2> QED BY <1>1, <2>2, <2>4
  <1>3. CASE Compact
    <2> DEFINE e == CheckpointEntry(sess, HighWater(memlog))
    <2>1. e.kind = "Checkpoint" /\ e.session = sess
      BY DEF CheckpointEntry
    <2>2. log' = <<e>> /\ replayed' = <<sess>>
      BY <1>3 DEF Compact
    <2> HIDE DEF e
    <2>3. /\ IsSeq(log') /\ IsSeq(replayed') /\ Len(replayed') = Len(log')
          /\ DOMAIN log' = {1} /\ log'[1] = e /\ replayed'[1] = sess
      BY <2>2, OneIsSeq
    <2>4. dur' = sess
      BY <2>2, OneIsSeq DEF dur
    <2>5. ReplayAppend(NoSession, e) = sess
      BY <2>1 DEF ReplayAppend
    <2>6. LogInv'
      BY <2>1, <2>3, <2>5 DEF LogInv
    <2> QED BY <2>4, <2>6
  <1> QED BY <1>1, <1>2, <1>3

-----------------------------------------------------------------------------
(* The invariant is inductive: one step per action.                        *)

\* process_session_start preserves the invariant.
LEMMA StartPreserves ==
    ASSUME IInv, Reliance, NEW env \in StartEnvelopes, StartSession(env)
    PROVE  IInv'
  <1> DEFINE e == IncomingEntry(env, now)
             next == Committing("start", env, now, e, NoOp)
  <1>1. /\ alive /\ op = Idle /\ sess = NoSession /\ log = <<>>
        /\ StartAccepted(env, now) /\ TryAppend(e, next) /\ UNCHANGED <<alive, sess>>
    BY DEF StartSession, StartReserved, Reliance, memory
  <1>2. dur = NoSession
    <2>1. IsSeq(replayed) /\ Len(replayed) = 0
      BY <1>1 DEF IInv, LogInv
    <2> QED BY <2>1, AppendIsSeq DEF dur
  <1>3. ReplayAppend(dur, e) = AcceptStart(env, now)
    BY <1>1, <1>2, ReplayedStart
  <1>4. Committed(sess, next) = AcceptStart(env, now)
    BY DEF Committed, Committing
  <1>5. next.pc = "commit" /\ next.what = "start" /\ ~Waiting(next) /\ op.pc = "idle"
    BY <1>1 DEF Committing, Waiting, Idle
  <1>6. IsStart(e)
    BY KernelConstants DEF IncomingEntry, IsStart, IsIncoming
  <1> HIDE DEF e, next
  <1>7. Same(ReplayAppend(dur, e), Committed(sess, next))
    BY <1>3, <1>4, StartIsSession, SameSelf
  <1> QED BY <1>1, <1>5, <1>6, <1>7, AppendStep

\* process_message preserves the invariant, with or without an accept due.
LEMMA MessagePreserves ==
    ASSUME IInv, Reliance, NEW env \in ClientEnvelopes, Message(env)
    PROVE  IInv'
  <1>1. /\ alive /\ op.pc = "idle" /\ sess # NoSession /\ sess.state = "Open"
        /\ AuthorizeSender(sess, env) /\ UNCHANGED <<alive, sess>>
    BY DEF Message, Locked, Idle, memory
  <1>2. CASE Synthetics(sess, now) = {}
    BY <1>1, <1>2, MessageStep DEF Message
  <1>3. CASE Synthetics(sess, now) # {}
    <2>1. PICK syn \in Synthetics(sess, now) : AppendSynthetic(syn, env, now)
      BY <1>3 DEF Message
    <2> QED BY <1>1, <2>1, SyntheticStep
  <1> QED BY <1>2, <1>3

\* So does the dispatch of the message behind a synthetic accept.
LEMMA DispatchPreserves ==
    ASSUME IInv, Reliance, DispatchTrigger
    PROVE  IInv'
  <1>1. /\ op.pc = "dispatch" /\ alive /\ sess # NoSession /\ sess.state = "Open"
        /\ AuthorizeSender(sess, op.env) /\ UNCHANGED <<alive, sess>>
    BY DEF DispatchTrigger, memory, IInv, Shape, TriggerInv, Dispatchable
  <1>2. CASE OnMessageAt(sess, op.env, op.at).kind = "Rejected"
    BY <1>1, <1>2, QuietStep DEF DispatchTrigger, Idle
  <1>3. CASE OnMessageAt(sess, op.env, op.at).kind # "Rejected"
    BY <1>1, <1>3, MessageStep DEF DispatchTrigger
  <1> QED BY <1>2, <1>3

\* So does the expiry check that begins every control operation.
LEMMA ControlPreserves ==
    ASSUME IInv, Reliance, NEW what \in {"get", "cancel", "suspend"}, Control(what)
    PROVE  IInv'
  <1>1. alive /\ op.pc = "idle" /\ sess # NoSession /\ UNCHANGED <<alive, sess>>
    BY DEF Control, Locked, Idle, memory
  <1>2. CASE DeadlinePassed(sess, now)
    <2>1. CASE what = "suspend"
      BY <1>1, <1>2, <2>1, ExpireStep DEF Control
    <2>2. CASE what # "suspend"
      BY <1>1, <1>2, <2>2, ExpireStep DEF Control
    <2> QED BY <2>1, <2>2
  <1>3. CASE ~DeadlinePassed(sess, now)
    BY <1>1, <1>3, QuietStep DEF Control, Idle
  <1> QED BY <1>2, <1>3

\* So do the appends of expiry, cancel, suspend and resume.
LEMMA AppendsPreserve ==
    ASSUME IInv, Reliance,
           ExpireAppend \/ CancelAppend \/ SuspendAppend \/ ResumeAppend
    PROVE  IInv'
  <1>1. /\ op.pc \notin {"commit", "replay"} /\ alive /\ sess # NoSession
        /\ UNCHANGED <<alive, sess>>
    BY DEF ExpireAppend, CancelAppend, SuspendAppend, ResumeAppend, Locked, Idle, memory, IInv, Shape
  <1>2. CASE ExpireAppend
    <2>1. CASE DeadlinePassed(sess, now)
      BY <1>1, <1>2, <2>1, ExpireStep DEF ExpireAppend
    <2>2. CASE ~DeadlinePassed(sess, now)
      BY <1>1, <1>2, <2>2, QuietStep DEF ExpireAppend, Idle
    <2> QED BY <2>1, <2>2
  <1>3. CASE CancelAppend
    <2>1. CASE IsTerminal(sess)
      BY <1>1, <1>3, <2>1, QuietStep DEF CancelAppend, Idle
    <2>2. CASE ~IsTerminal(sess)
      BY <1>1, <1>3, <2>2, InternalStep DEF CancelAppend
    <2> QED BY <2>1, <2>2
  <1>4. CASE SuspendAppend
    <2>1. CASE sess.state # "Open"
      BY <1>1, <1>4, <2>1, QuietStep DEF SuspendAppend, Idle
    <2>2. CASE sess.state = "Open"
      BY <1>1, <1>4, <2>2, InternalStep DEF SuspendAppend
    <2> QED BY <2>1, <2>2
  <1>5. CASE ResumeAppend
    BY <1>1, <1>5, InternalStep DEF ResumeAppend
  <1> QED BY <1>2, <1>3, <1>4, <1>5

\* So does the maintenance task.
LEMMA MaintenancePreserves ==
    ASSUME IInv, Reliance, BeginPass \/ Cleanup \/ Sweep \/ Evict
    PROVE  IInv'
  <1>1. CASE BeginPass
    <2>1. UNCHANGED <<alive, sess, log, replayed, op>>
      BY <1>1 DEF BeginPass, memory, durable
    <2>2. UNCHANGED <<dur, Committed(sess, op)>>
      BY <2>1 DEF dur
    <2> QED BY <2>1, <2>2 DEF IInv, Shape, LogInv, ServedInv, TriggerInv, ReplayInv
  <1>2. CASE Cleanup
    <2>1. alive /\ op.pc = "idle" /\ UNCHANGED <<alive, sess>>
      BY <1>2 DEF Cleanup, Visit, Idle, memory
    <2>2. CASE sess.state = "Open" /\ maint.at > sess.ttl_expiry
      <3>1. sess # NoSession
        BY <2>2 DEF NoSession
      <3> QED BY <1>2, <2>1, <2>2, <3>1, InternalStep DEF Cleanup
    <2>3. CASE ~(sess.state = "Open" /\ maint.at > sess.ttl_expiry)
      BY <1>2, <2>1, <2>3, QuietStep DEF Cleanup
    <2> QED BY <2>2, <2>3
  <1>3. CASE Sweep
    <2>1. alive /\ op.pc = "idle" /\ UNCHANGED <<alive, sess>>
      BY <1>3 DEF Sweep, Visit, Idle, memory
    <2> DEFINE due == \E syn \in Synthetics(sess, maint.at) : SyntheticAccepted(sess, syn)
    <2>2. CASE ~due
      BY <1>3, <2>1, <2>2, QuietStep DEF Sweep
    <2>3. CASE due
      <3>1. PICK syn \in Synthetics(sess, maint.at) : AppendSynthetic(syn, NoEnvelope, maint.at)
        BY <1>3, <2>3 DEF Sweep
      <3>2. sess # NoSession
        BY <3>1 DEF Synthetics, NoSession
      <3> QED BY <2>1, <3>1, <3>2, SyntheticStep
    <2> QED BY <2>2, <2>3
  <1>4. CASE Evict
    <2>1. alive /\ op.pc = "idle" /\ UNCHANGED <<alive, log, replayed, op>>
      BY <1>4 DEF Evict, Visit, Idle, durable
    <2>2. sess' = NoSession \/ sess' = sess
      BY <1>4 DEF Evict
    <2>3. dur' = dur
      BY <2>1 DEF dur
    <2> QED BY <2>1, <2>2, <2>3 DEF IInv, Shape, LogInv, ServedInv, TriggerInv, ReplayInv
  <1> QED BY <1>1, <1>2, <1>3, <1>4

\* So does the commit, which installs the session the log already has.
LEMMA CommitPreserves ==
    ASSUME IInv, Reliance, Commit
    PROVE  IInv'
  <1>1. /\ op.pc = "commit" /\ sess' = Committed(sess, op) /\ UNCHANGED <<alive, log, replayed>>
        /\ op'.pc = "finish" /\ op'.what = op.what /\ op'.env = op.env
    BY DEF Commit, durable, Finishing
  <1>2. dur' = dur /\ LogInv'
    BY <1>1 DEF dur, IInv, LogInv
  <1>3. Same(dur, Committed(sess, op))
    BY <1>1 DEF IInv, ServedInv
  <1>4. IsSession(sess') /\ sess' # NoSession
    BY <1>1, <1>3 DEF Same, IsSession, NoSession, SessionStates
  <1>5. Shape'
    BY <1>1, <1>4 DEF IInv, Shape
  <1>6. ServedInv'
    BY <1>1, <1>2, <1>3 DEF ServedInv
  <1>7. TriggerInv'
    BY <1>1 DEF IInv, TriggerInv, Waiting
  <1>8. ReplayInv'
    BY <1>1 DEF ReplayInv
  <1> QED BY <1>2, <1>5, <1>6, <1>7, <1>8 DEF IInv

\* So do the checkpoint and the compaction at the end of a handler.
LEMMA FinishPreserves ==
    ASSUME IInv, Reliance, Finish
    PROVE  IInv'
  <1>1. /\ op.pc = "finish" /\ UNCHANGED <<alive, sess>> /\ sess # NoSession /\ alive
        /\ op' = IF Waiting(op) THEN Dispatching(op) ELSE Idle
    BY DEF Finish, Waiting, IInv, Shape
  <1>2. ForceCheckpoint \/ Compact \/ UNCHANGED durable
    BY DEF Finish, CompactOrCheckpoint, MaybeInsertCheckpoint
  <1>3. IsSession(sess) /\ Same(dur, sess)
    BY <1>1, ServedExactly
  <1>4. LogInv' /\ (dur' = sess \/ dur' = dur)
    BY <1>2, <1>3, CheckpointWrite
  <1>5. Same(dur', sess)
    BY <1>3, <1>4, SameSelf
  <1>6. Shape' /\ ServedInv' /\ ReplayInv'
    BY <1>1, <1>3, <1>5 DEF Shape, ServedInv, ReplayInv, Idle, Dispatching
  <1>7. TriggerInv'
    BY <1>1 DEF IInv, TriggerInv, Idle, Dispatching
  <1> QED BY <1>4, <1>6, <1>7 DEF IInv

\* So does a crash, at any step, or a shutdown.
LEMMA CrashPreserves ==
    ASSUME IInv, Crash \/ Shutdown
    PROVE  IInv'
  <1>1. UNCHANGED <<log, replayed>> /\ alive' = FALSE /\ sess' = NoSession /\ op' = Idle
    BY DEF Crash, Shutdown, Stop, durable
  <1>2. LogInv'
    BY <1>1 DEF IInv, LogInv
  <1> QED BY <1>1, <1>2 DEF IInv, Shape, ServedInv, TriggerInv, ReplayInv, Idle

\* Recovery walks the chain of replayed prefixes and ends at the whole log.
LEMMA RecoveryPreserves ==
    ASSUME IInv,
           \/ ReplayFromCheckpoint \/ ReplayFromStart \/ RecoverNothing
           \/ ReplayStep \/ RecoverDone
    PROVE  IInv'
  <1>1. /\ UNCHANGED <<log, replayed>> /\ dur' = dur /\ LogInv' /\ ~alive /\ sess = NoSession
        /\ DOMAIN log = 1 .. Len(log) /\ Len(log) \in Nat
    <2>1. UNCHANGED <<log, replayed>>
      BY DEF ReplayFromCheckpoint, ReplayFromStart, RecoverNothing, ReplayStep, RecoverDone, durable
    <2>2. ~alive /\ sess = NoSession
      BY DEF ReplayFromCheckpoint, ReplayFromStart, RecoverNothing, ReplayStep, RecoverDone, IInv, Shape
    <2>3. DOMAIN log = 1 .. Len(log) /\ Len(log) \in Nat
      BY AppendIsSeq DEF IInv, LogInv
    <2> QED BY <2>1, <2>2, <2>3 DEF dur, IInv, LogInv
  <1>2. ASSUME NEW n, NEW s, op' = Replaying(n, s), UNCHANGED <<alive, sess>>,
               n \in 1 .. Len(log), s = replayed[n],
               \A m \in DOMAIN log : m > n => log[m].kind # "Checkpoint"
        PROVE  IInv'
    <2>1. op'.pc = "replay" /\ op'.n = n /\ op'.s = s
      BY <1>2 DEF Replaying
    <2> QED BY <1>1, <1>2, <2>1 DEF IInv, Shape, ServedInv, TriggerInv, ReplayInv
  <1>3. CASE ReplayFromCheckpoint
    <2>1. PICK n \in DOMAIN log : IsLastCheckpoint(log, n) /\ op' = Replaying(n, log[n].session)
      BY <1>3 DEF ReplayFromCheckpoint
    <2>2. replayed[n] = log[n].session
      BY <2>1 DEF IInv, LogInv, IsLastCheckpoint, ReplayAppend
    <2> QED BY <1>1, <1>2, <1>3, <2>1, <2>2 DEF IsLastCheckpoint, ReplayFromCheckpoint, memory
  <1>4. CASE ReplayFromStart
    <2>1. PICK n \in DOMAIN log : IsFirstStart(log, n) /\ op' = Replaying(1, ReplayStart(log[n]))
      BY <1>4 DEF ReplayFromStart
    <2>2. 1 \in DOMAIN log /\ log # <<>> /\ 1 \in 1 .. Len(log)
      BY <1>1, <2>1
    <2>3. IsStart(log[1]) /\ log[1].kind # "Checkpoint"
      BY <1>4, <2>2 DEF ReplayFromStart, HasCheckpoint, IInv, LogInv
    <2>4. n = 1
      BY <1>1, <2>1, <2>2, <2>3 DEF IsFirstStart
    <2>5. replayed[1] = ReplayStart(log[1])
      BY <2>2, <2>3 DEF IInv, LogInv, ReplayAppend
    <2> QED BY <1>1, <1>2, <1>4, <2>1, <2>2, <2>4, <2>5
          DEF ReplayFromStart, HasCheckpoint, memory
  <1>5. CASE RecoverNothing
    <2>1. alive' = TRUE /\ sess' = NoSession /\ op' = op /\ op.pc = "idle"
      BY <1>1, <1>5 DEF RecoverNothing, Idle
    <2> QED BY <1>1, <2>1 DEF IInv, Shape, ServedInv, TriggerInv, ReplayInv
  <1>6. CASE ReplayStep
    <2> DEFINE n == op.n + 1
               s == ReplayEntry(op.s, log[n])
    <2>1. /\ op.n \in 1 .. Len(log) /\ op.n < Len(log) /\ op.s = replayed[op.n]
          /\ \A m \in DOMAIN log : m > op.n => log[m].kind # "Checkpoint"
      BY <1>6 DEF ReplayStep, IInv, ReplayInv
    <2>2. n \in 1 .. Len(log) /\ n > op.n /\ n - 1 = op.n /\ n # 1
      BY <1>1, <2>1
    <2>3. IsSession(op.s) /\ op.s # NoSession
      BY <1>1, <2>1 DEF IInv, LogInv, IsSession, NoSession, SessionStates
    <2>4. replayed[n] = ReplayAppend(op.s, log[n]) /\ log[n].kind # "Checkpoint"
      BY <1>1, <2>1, <2>2 DEF IInv, LogInv
    <2>5. s = replayed[n]
      BY <2>3, <2>4 DEF ReplayAppend
    <2>6. op' = Replaying(n, s) /\ UNCHANGED <<alive, sess>>
      BY <1>6 DEF ReplayStep, memory
    <2>7. \A m \in DOMAIN log : m > n => log[m].kind # "Checkpoint"
      BY <1>1, <2>1
    <2> HIDE DEF n, s
    <2> QED BY <1>2, <2>2, <2>5, <2>6, <2>7
  <1>7. CASE RecoverDone
    <2>1. op.pc = "replay" /\ op.n = Len(log) /\ op.n \in 1 .. Len(log) /\ op.s = replayed[Len(log)]
      BY <1>7 DEF RecoverDone, IInv, ReplayInv
    <2>2. dur = op.s
      <3>1. Len(replayed) = Len(log) /\ IsSeq(replayed)
        BY DEF IInv, LogInv
      <3>2. replayed # <<>>
        BY <1>1, <2>1, <3>1, AppendIsSeq
      <3> QED BY <2>1, <3>1, <3>2 DEF dur
    <2>3. IsSession(op.s)
      BY <1>1, <2>1 DEF IInv, LogInv
    <2>4. op.s # Unreplayable
      BY <2>3 DEF IsSession, Unreplayable, SessionStates
    <2>5. alive' = TRUE /\ op' = Idle /\ sess' = op.s
      BY <1>7, <2>4 DEF RecoverDone
    <2>6. Same(dur', sess')
      BY <1>1, <2>2, <2>3, <2>5, SameSelf
    <2> QED BY <1>1, <2>3, <2>5, <2>6 DEF IInv, Shape, ServedInv, TriggerInv, ReplayInv, Idle
  <1> QED BY <1>3, <1>4, <1>5, <1>6, <1>7

\* The invariant holds initially.
LEMMA InitEstablishes == Init => IInv
  <1> SUFFICES ASSUME Init PROVE IInv
    OBVIOUS
  <1>1. log = <<>> /\ replayed = <<>> /\ op.pc = "idle" /\ sess = NoSession /\ alive
    BY DEF Init, Idle
  <1>2. IsSeq(<<>>) /\ Len(<<>>) = 0 /\ DOMAIN <<>> = {}
    BY EmptySeq, SeqOfRange DEF IsSeq
  <1>3. LogInv
    BY <1>1, <1>2 DEF LogInv
  <1> QED BY <1>1, <1>3 DEF IInv, Shape, ServedInv, TriggerInv, ReplayInv

\* A step that changes neither the session, nor the log, nor the handler.
LEMMA QuietPreserves ==
    ASSUME IInv, UNCHANGED <<alive, sess, log, replayed, op>>
    PROVE  IInv'
  <1>1. UNCHANGED <<dur, Committed(sess, op)>>
    BY DEF dur
  <1> QED BY <1>1 DEF IInv, Shape, LogInv, ServedInv, TriggerInv, ReplayInv

\* Every step preserves the invariant.
LEMMA NextPreserves == ASSUME IInv, Reliance, [Next]_vars PROVE IInv'
  <1>1. ASSUME NEW env \in StartEnvelopes, StartSession(env) PROVE IInv'
    BY <1>1, StartPreserves
  <1>2. ASSUME NEW env, Duplicate(env) PROVE IInv'
    BY <1>2, QuietPreserves DEF Duplicate, memory, durable
  <1>3. ASSUME NEW env, MessageExpired(env) PROVE IInv'
    <2>1. /\ alive /\ op.pc = "idle" /\ sess # NoSession /\ op'.pc = "expire"
          /\ UNCHANGED <<alive, sess, durable>>
      BY <1>3 DEF MessageExpired, Locked, Idle, memory
    <2> QED BY <2>1, QuietStep
  <1>4. ASSUME NEW env \in ClientEnvelopes, Message(env) PROVE IInv'
    BY <1>4, MessagePreserves
  <1>5. ASSUME NEW what \in {"get", "cancel", "suspend"}, Control(what) PROVE IInv'
    BY <1>5, ControlPreserves
  <1>6. CASE Tick \/ UNCHANGED vars
    BY <1>6, QuietPreserves DEF Tick, vars, memory, durable
  <1> QED BY <1>1, <1>2, <1>3, <1>4, <1>5, <1>6, DispatchPreserves, AppendsPreserve,
             MaintenancePreserves, CommitPreserves, FinishPreserves, CrashPreserves,
             RecoveryPreserves, NoneDropped
      DEF Next

\* The invariant holds of the kernel, with any mode that meets ModeContract,
\* on storage that writes nothing when it reports an error.
THEOREM InductiveInvariant == ASSUME Reliance PROVE Spec => []IInv
  <1>1. Init => IInv
    BY InitEstablishes
  <1>2. IInv /\ [Next]_vars => IInv'
    BY NextPreserves
  <1> QED BY <1>1, <1>2, PTL DEF Spec

\* The commit point works: outside the window between append and commit, a
\* crash at any moment brings back the session the kernel was serving.
THEOREM RecoveryTheorem == ASSUME Reliance PROVE Spec => []RecoveryAgrees
  <1>1. IInv => RecoveryAgrees
    <2> SUFFICES ASSUME IInv, op.pc # "commit", sess # NoSession
                 PROVE  IsSession(dur) /\ Agree(dur, sess)
      BY DEF RecoveryAgrees
    <2> QED BY ServedExactly DEF Same, Agree
  <1> QED BY <1>1, InductiveInvariant, PTL

\* The log never becomes one that recovery would skip.
THEOREM ReplayableTheorem == ASSUME Reliance PROVE Spec => []AlwaysReplayable
  <1>1. IInv => AlwaysReplayable
    <2> SUFFICES ASSUME IInv PROVE dur # Unreplayable
      BY DEF AlwaysReplayable
    <2>1. CASE replayed = <<>>
      BY <2>1 DEF dur, NoSession, Unreplayable
    <2>2. CASE replayed # <<>>
      <3>1. IsSession(dur)
        BY <2>2, DurIsSession
      <3> QED BY <3>1 DEF IsSession, Unreplayable, SessionStates
    <2> QED BY <2>1, <2>2
  <1> QED BY <1>1, InductiveInvariant, PTL

-----------------------------------------------------------------------------
(* What a step may do to the durable session.                              *)

\* A start writes the first entry of a log.
Starting == log = <<>> /\ \E env \in StartEnvelopes : AppendDurable(IncomingEntry(env, now))

\* The entry of a handler: an envelope, or an operation at a clock that was
\* read.
Handled(e) == e.kind = "Incoming" \/ (e.kind = "Internal" /\ e.at \in {now, maint.at})

\* A handler writes the entry of an operation on a live session.
Appending ==
    /\ sess # NoSession /\ op.pc # "commit" /\ ~IsTerminal(sess)
    /\ \E e : Handled(e) /\ AppendDurable(e)

\* A handler that ends compacts the log or writes a checkpoint.
Checkpointing == op.pc = "finish" /\ (ForceCheckpoint \/ Compact)

\* An append by a handler of a live session either happens or does not.
LEMMA AppendingStep ==
    ASSUME Reliance, sess # NoSession, op.pc # "commit", ~IsTerminal(sess),
           NEW e, Handled(e), NEW next, TryAppend(e, next)
    PROVE  UNCHANGED durable \/ Appending
  BY TryAppendOutcome DEF Appending

\* These are the only ways the log changes.
LEMMA DurableStep ==
    ASSUME IInv, Reliance, [Next]_vars
    PROVE  UNCHANGED durable \/ Starting \/ Appending \/ Checkpointing
  <1> USE DEF IncomingEntry, InternalEntry, Handled
  <1> DEFINE Goal == UNCHANGED durable \/ Starting \/ Appending \/ Checkpointing
  <1>1. ASSUME NEW env \in StartEnvelopes, StartSession(env) PROVE Goal
    BY <1>1, TryAppendOutcome DEF StartSession, StartReserved, Reliance, Starting
  <1>2. ASSUME NEW env \in ClientEnvelopes, Message(env) PROVE Goal
    <2>1. sess # NoSession /\ op.pc # "commit" /\ ~IsTerminal(sess)
      BY <1>2 DEF Message, Locked, Idle, IsTerminal, TerminalStates
    <2>2. CASE AppendMessage(env, now)
      BY <2>1, <2>2, AppendingStep DEF AppendMessage
    <2>3. CASE \E syn \in Synthetics(sess, now) : AppendSynthetic(syn, env, now)
      BY <2>1, <2>3, AppendingStep DEF AppendSynthetic
    <2> QED BY <1>2, <2>2, <2>3 DEF Message
  <1>3. CASE DispatchTrigger
    <2>1. sess # NoSession /\ op.pc # "commit" /\ ~IsTerminal(sess)
      BY <1>3 DEF DispatchTrigger, IInv, Shape, TriggerInv, Dispatchable, IsTerminal, TerminalStates
    <2> QED BY <1>3, <2>1, AppendingStep DEF DispatchTrigger, AppendMessage
  <1>4. ASSUME NEW what \in {"get", "cancel", "suspend"}, Control(what) PROVE Goal
    <2>1. sess # NoSession /\ op.pc # "commit"
      BY <1>4 DEF Control, Locked, Idle
    <2>2. CASE DeadlinePassed(sess, now)
      BY <1>4, <2>1, <2>2, AppendingStep DEF Control, DeadlinePassed, IsTerminal, TerminalStates
    <2>3. CASE ~DeadlinePassed(sess, now)
      BY <1>4, <2>3 DEF Control
    <2> QED BY <2>2, <2>3
  <1>5. CASE ExpireAppend
    <2>1. sess # NoSession /\ op.pc # "commit"
      BY <1>5 DEF ExpireAppend, IInv, Shape
    <2>2. CASE DeadlinePassed(sess, now)
      BY <1>5, <2>1, <2>2, AppendingStep DEF ExpireAppend, DeadlinePassed, IsTerminal, TerminalStates
    <2>3. CASE ~DeadlinePassed(sess, now)
      BY <1>5, <2>3 DEF ExpireAppend
    <2> QED BY <2>2, <2>3
  <1>6. CASE CancelAppend
    <2>1. sess # NoSession /\ op.pc # "commit"
      BY <1>6 DEF CancelAppend, IInv, Shape
    <2> QED BY <1>6, <2>1, AppendingStep DEF CancelAppend
  <1>7. CASE SuspendAppend
    <2>1. sess # NoSession /\ op.pc # "commit"
      BY <1>7 DEF SuspendAppend, IInv, Shape
    <2> QED BY <1>7, <2>1, AppendingStep DEF SuspendAppend, IsTerminal, TerminalStates
  <1>8. CASE ResumeAppend
    BY <1>8, AppendingStep DEF ResumeAppend, Locked, Idle, IsTerminal, TerminalStates
  <1>9. CASE Cleanup
    BY <1>9, AppendingStep DEF Cleanup, Visit, Idle, IsTerminal, TerminalStates, NoSession
  <1>10. CASE Sweep
    <2>1. op.pc # "commit"
      BY <1>10 DEF Sweep, Visit, Idle
    <2>2. ASSUME NEW syn \in Synthetics(sess, maint.at), AppendSynthetic(syn, NoEnvelope, maint.at)
          PROVE  Goal
      <3>1. sess # NoSession /\ ~IsTerminal(sess)
        BY <2>2 DEF Synthetics, IsTerminal, TerminalStates, NoSession
      <3> QED BY <2>1, <2>2, <3>1, AppendingStep DEF AppendSynthetic
    <2> QED BY <1>10, <2>2 DEF Sweep
  <1>11. CASE Finish
    BY <1>11 DEF Finish, CompactOrCheckpoint, MaybeInsertCheckpoint, Checkpointing
  <1>12. ASSUME NEW env, Duplicate(env) \/ MessageExpired(env) PROVE Goal
    BY <1>12 DEF Duplicate, MessageExpired
  <1>13. CASE BeginPass \/ Evict \/ Commit \/ Crash \/ Shutdown \/ Tick \/ UNCHANGED vars
    BY <1>13 DEF BeginPass, Evict, Commit, Crash, Shutdown, Stop, Tick, vars
  <1>14. CASE \/ ReplayFromCheckpoint \/ ReplayFromStart \/ RecoverNothing
              \/ ReplayStep \/ RecoverDone
    BY <1>14 DEF ReplayFromCheckpoint, ReplayFromStart, RecoverNothing, ReplayStep, RecoverDone
  <1> QED BY <1>1, <1>2, <1>3, <1>4, <1>5, <1>6, <1>7, <1>8, <1>9, <1>10, <1>11, <1>12,
             <1>13, <1>14, NoneDropped DEF Next

\* So the session the log replays to is unchanged, or did not exist, or is
\* the one in memory, or went on from a state that is not terminal.
LEMMA DurStep ==
    ASSUME IInv, Reliance, [Next]_vars
    PROVE  \/ dur' = dur
           \/ dur = NoSession
           \/ Same(dur, sess) /\ dur' = sess
           \/ /\ ~IsTerminal(dur) /\ IsSession(dur')
              /\ \E e : Handled(e) /\ dur' = ReplayAppend(dur, e)
  <1>1. CASE UNCHANGED durable
    BY <1>1 DEF durable, dur
  <1>2. CASE Starting
    <2>1. IsSeq(replayed) /\ Len(replayed) = 0
      BY <1>2 DEF IInv, LogInv, Starting
    <2> QED BY <2>1, AppendIsSeq DEF dur
  <1>3. CASE Appending
    <2>1. PICK e : Handled(e) /\ AppendDurable(e)
      BY <1>3 DEF Appending
    <2>2. IsSession(sess) /\ Same(dur, sess)
      BY <1>3, ServedExactly DEF Appending
    <2>3. ~IsTerminal(dur)
      BY <1>3, ServedExactly DEF Appending, IsTerminal, TerminalStates
    <2>4. replayed' = Append(replayed, ReplayAppend(dur, e)) /\ IsSeq(replayed)
      BY <2>1 DEF AppendDurable, IInv, LogInv
    <2> DEFINE r == ReplayAppend(dur, e)
    <2> HIDE DEF r
    <2>5. /\ Len(replayed') = Len(replayed) + 1 /\ Len(replayed) \in Nat
          /\ replayed'[Len(replayed) + 1] = r /\ IsSeq(replayed')
      BY <2>4, AppendIsSeq DEF r
    <2>6. replayed' # <<>>
      BY <2>5, AppendIsSeq
    <2>7. dur' = r
      BY <2>5, <2>6 DEF dur
    <2>8. IsSession(dur')
      <3>1. /\ Len(replayed') = Len(log') /\ IsSeq(log')
            /\ \A i \in DOMAIN log' : IsSession(replayed'[i])
        BY NextPreserves DEF IInv, LogInv
      <3>2. Len(replayed') \in DOMAIN log'
        BY <2>5, <3>1, AppendIsSeq
      <3> QED BY <2>6, <3>1, <3>2 DEF dur
    <2> QED BY <2>1, <2>3, <2>7, <2>8 DEF r
  <1>4. CASE Checkpointing
    <2>1. sess # NoSession /\ op.pc # "commit"
      BY <1>4 DEF Checkpointing, IInv, Shape
    <2> QED BY <1>4, <2>1, ServedExactly, CheckpointWrite DEF Checkpointing
  <1> QED BY <1>1, <1>2, <1>3, <1>4, DurableStep

\* A terminal state is final, in memory and on disk, across every handler,
\* timer, crash and recovery.
THEOREM TerminalTheorem == ASSUME Reliance PROVE Spec => TerminalFinal
  <1>1. IInv /\ [Next]_vars => [(IsSession(dur) /\ IsTerminal(dur)) => dur'.state = dur.state]_vars
    <2> SUFFICES ASSUME IInv, [Next]_vars, IsSession(dur), IsTerminal(dur)
                 PROVE  dur'.state = dur.state
      OBVIOUS
    <2>1. dur # NoSession
      BY DEF IsSession, NoSession, SessionStates
    <2>2. Same(dur, sess) => sess.state = dur.state
      BY DEF Same, IsSession
    <2> QED BY <2>1, <2>2, DurStep
  <1> QED BY <1>1, InductiveInvariant, PTL DEF Spec, TerminalFinal

-----------------------------------------------------------------------------
(* Acknowledged envelopes and types.                                       *)

\* Replay never gives a dedup slot back.
LEMMA SlotsKept ==
    ASSUME NEW s, IsSession(s), NEW e, e.kind \in {"Incoming", "Internal"},
           IsSession(ReplayAppend(s, e))
    PROVE  s.seen_message_ids \subseteq ReplayAppend(s, e).seen_message_ids
  <1>1. s # NoSession /\ s # Unreplayable /\ ReplayAppend(s, e) # Unreplayable
    BY DEF IsSession, NoSession, Unreplayable, SessionStates
  <1>2. CASE e.kind = "Incoming"
    <2>1. ReplayAppend(s, e) = ReplayIncoming(s, e)
      BY <1>1, <1>2 DEF ReplayAppend, ReplayEntry
    <2>2. ASSUME NEW t, IsSession(t), NEW id
          PROVE  t.seen_message_ids \subseteq TakeDedupSlot(t, id).seen_message_ids
      BY <2>2 DEF TakeDedupSlot, IsSession
    <2>3. ASSUME NEW resp
          PROVE  /\ IsSession(ApplyModeResponse(s, resp))
                 /\ ApplyModeResponse(s, resp).seen_message_ids = s.seen_message_ids
      BY ApplyIsSession DEF ApplyModeResponse, IsSession
    <2> QED BY <1>1, <2>1, <2>2, <2>3 DEF ReplayIncoming
  <1>3. CASE e.kind = "Internal"
    <2>1. ReplayAppend(s, e) = ReplayInternal(s, e)
      BY <1>1, <1>3 DEF ReplayAppend, ReplayEntry
    <2>2. /\ Suspend(s, e.at).s.seen_message_ids = s.seen_message_ids
          /\ Cancel(s).s.seen_message_ids = s.seen_message_ids
      BY DEF IsSession, Suspend, Cancel, Ok, Err
    <2>3. Resume(s, e.at).s.seen_message_ids = s.seen_message_ids
      BY DEF IsSession, Resume, Ok, Err
    <2>4. [s EXCEPT !.state = "Expired"].seen_message_ids = s.seen_message_ids
      BY DEF IsSession
    <2> QED BY <2>1, <2>2, <2>3, <2>4 DEF ReplayInternal
  <1> QED BY <1>2, <1>3

\* The durable session keeps every slot it has given.
LEMMA DurKeepsSlots ==
    ASSUME IInv, Reliance, [Next]_vars, IsSession(dur)
    PROVE  IsSession(dur') /\ dur.seen_message_ids \subseteq dur'.seen_message_ids
  <1>1. dur # NoSession
    BY DEF IsSession, NoSession, SessionStates
  <1>2. Same(dur, sess) => IsSession(sess) /\ sess.seen_message_ids = dur.seen_message_ids
    BY DEF Same, IsSession
  <1> QED BY <1>1, <1>2, DurStep, SlotsKept DEF Handled

\* The envelope a handler is about to answer Ok for has its slot.
AnswerInv == op.pc = "finish" => Answered(op) \subseteq sess.seen_message_ids

\* The strengthening that makes AckedSurvive inductive beside IInv.
AckInv == AckedSurvive /\ AnswerInv

\* No append leads straight to the finish of a handler.
LEMMA TryAppendNext ==
    ASSUME NEW e, NEW next, TryAppend(e, next), next.pc = "commit"
    PROVE  op'.pc # "finish"
  BY DEF TryAppend, Idle

\* A handler finishes only after its commit.
LEMMA FinishAfterCommit ==
    ASSUME IInv, Reliance, [Next]_vars, op'.pc = "finish"
    PROVE  Commit \/ UNCHANGED <<op, sess>>
  <1> DEFINE Goal == Commit \/ UNCHANGED <<op, sess>>
  <1>1. ASSUME NEW env, StartSession(env) PROVE Goal
    BY <1>1, TryAppendNext DEF StartSession, Committing
  <1>2. ASSUME NEW env, NEW at, AppendMessage(env, at) PROVE FALSE
    BY <1>2, TryAppendNext DEF AppendMessage, Committing
  <1>3. ASSUME NEW env, NEW trigger, NEW at, AppendSynthetic(env, trigger, at) PROVE FALSE
    <2> DEFINE next == [Committing("synthetic", env, at, IncomingEntry(env, env.timestamp),
                                   SyntheticResponse(sess, env)) EXCEPT !.env = trigger]
    <2>1. next.pc = "commit"
      BY DEF Committing
    <2>2. TryAppend(IncomingEntry(env, env.timestamp), next)
      BY <1>3 DEF AppendSynthetic
    <2> HIDE DEF next
    <2> QED BY <2>1, <2>2, TryAppendNext
  <1>4. ASSUME NEW env, Duplicate(env) \/ MessageExpired(env) \/ Message(env) PROVE Goal
    BY <1>2, <1>3, <1>4 DEF Duplicate, MessageExpired, Message, memory
  <1>5. ASSUME NEW type, NEW what, NEW at,
               TryAppend(InternalEntry(type, at),
                         Committing(what, NoEnvelope, at, InternalEntry(type, at), NoOp))
        PROVE  FALSE
    BY <1>5, TryAppendNext DEF Committing
  <1>6. ASSUME NEW what, Control(what) PROVE Goal
    BY <1>5, <1>6 DEF Control, Idle
  <1>7. CASE DispatchTrigger \/ ExpireAppend \/ CancelAppend \/ SuspendAppend \/ ResumeAppend
    BY <1>2, <1>5, <1>7
       DEF DispatchTrigger, ExpireAppend, CancelAppend, SuspendAppend, ResumeAppend, Idle
  <1>8. CASE Cleanup \/ Sweep
    BY <1>3, <1>5, <1>8 DEF Cleanup, Sweep, memory
  <1>9. CASE Evict
    BY <1>9 DEF Evict, Visit, Idle
  <1>10. CASE Finish \/ Crash \/ Shutdown
    BY <1>10 DEF Finish, Crash, Shutdown, Stop, Idle, Dispatching
  <1>11. CASE BeginPass \/ Tick \/ UNCHANGED vars
    BY <1>11 DEF BeginPass, Tick, vars, memory
  <1>12. CASE \/ ReplayFromCheckpoint \/ ReplayFromStart \/ RecoverNothing
              \/ ReplayStep \/ RecoverDone
    BY <1>12
       DEF ReplayFromCheckpoint, ReplayFromStart, RecoverNothing, ReplayStep, RecoverDone,
           Replaying, Idle
  <1> QED BY <1>1, <1>4, <1>6, <1>7, <1>8, <1>9, <1>10, <1>11, <1>12, NoneDropped DEF Next

\* A commit gives the envelope it will be answered for its dedup slot.
LEMMA CommitTakesSlot ==
    ASSUME NEW s, NEW o, IsSession(s) \/ o.what = "start"
    PROVE  Answered(o) \subseteq Committed(s, o).seen_message_ids
  <1>1. ASSUME NEW t, IsSession(t), NEW id, NEW resp
        PROVE  id \in ApplyModeResponse(TakeDedupSlot(t, id), resp).seen_message_ids
    BY <1>1 DEF ApplyModeResponse, TakeDedupSlot, IsSession
  <1>2. CASE o.what = "start"
    <2>1. IsSession(BuildSession(o.env, o.at))
      BY DEF BuildSession, IsSession, SessionStates
    <2> QED BY <1>1, <1>2, <2>1 DEF Answered, Committed, AcceptStart
  <1>3. CASE o.what = "message"
    BY <1>1, <1>3 DEF Answered, Committed
  <1> QED BY <1>2, <1>3 DEF Answered

\* So the slot is there until the answer is given.
LEMMA AnswerStep == ASSUME IInv, AnswerInv, Reliance, [Next]_vars PROVE AnswerInv'
  <1> SUFFICES ASSUME op'.pc = "finish" PROVE Answered(op') \subseteq sess'.seen_message_ids
    BY DEF AnswerInv, Answered
  <1>1. CASE Commit
    <2>1. /\ op.pc = "commit" /\ sess' = Committed(sess, op)
          /\ op'.what = op.what /\ op'.env = op.env
      BY <1>1 DEF Commit, Finishing
    <2>2. IsSession(sess) \/ op.what = "start"
      BY <2>1 DEF IInv, Shape
    <2>3. Answered(op') = Answered(op)
      BY <2>1 DEF Answered
    <2> QED BY <2>1, <2>2, <2>3, CommitTakesSlot
  <1>2. CASE UNCHANGED <<op, sess>>
    BY <1>2 DEF AnswerInv, Answered
  <1> QED BY <1>1, <1>2, FinishAfterCommit

\* A client is told of acceptance by the Finish of its handler or as the
\* answer to a duplicate.
LEMMA AckedStep ==
    ASSUME IInv, AnswerInv, Reliance, [Next]_vars, acked' # acked
    PROVE  /\ Same(dur, sess)
           /\ \A id \in acked' : id \in acked \/ id \in sess.seen_message_ids
  <1>1. \/ Finish \/ \E env : Duplicate(env)
    BY NoneDropped DEF Next, vars, StartSession, MessageExpired, Message, DispatchTrigger, Control,
           ExpireAppend, CancelAppend, SuspendAppend, ResumeAppend, BeginPass, Cleanup, Sweep,
           Evict, Commit, Crash, Shutdown, Stop, ReplayFromCheckpoint, ReplayFromStart,
           RecoverNothing, ReplayStep, RecoverDone, Tick
  <1>2. CASE Finish
    <2>1. op.pc = "finish" /\ acked' = acked \cup Answered(op)
      BY <1>2 DEF Finish
    <2>2. sess # NoSession /\ Answered(op) \subseteq sess.seen_message_ids
      BY <2>1 DEF IInv, Shape, AnswerInv
    <2> QED BY <2>1, <2>2, ServedExactly
  <1>3. ASSUME NEW env, Duplicate(env)
        PROVE  /\ Same(dur, sess)
               /\ \A id \in acked' : id \in acked \/ id \in sess.seen_message_ids
    <2>1. op.pc = "idle" /\ sess # NoSession
      BY <1>3 DEF Duplicate, Locked, Idle
    <2>2. acked' = acked \cup {env.id} /\ env.id \in sess.seen_message_ids
      BY <1>3 DEF Duplicate
    <2> QED BY <2>1, <2>2, ServedExactly
  <1> QED BY <1>1, <1>2, <1>3

\* What a client was told is accepted keeps its place in durable history
\* through every failure, crash, checkpoint and compaction.
THEOREM AckedTheorem == ASSUME Reliance PROVE Spec => []AckedSurvive
  <1>1. Init => AckInv
    BY DEF Init, Idle, AckInv, AckedSurvive, AnswerInv
  <1>2. IInv /\ AckInv /\ [Next]_vars => AckInv'
    <2> SUFFICES ASSUME IInv, AckInv, [Next]_vars PROVE AckInv'
      OBVIOUS
    <2>1. AnswerInv'
      BY AnswerStep DEF AckInv
    <2>2. ASSUME NEW id \in acked'
          PROVE  IsSession(dur') /\ id \in dur'.seen_message_ids
      <3>1. CASE id \in acked
        BY <3>1, DurKeepsSlots DEF AckInv, AckedSurvive
      <3>2. CASE id \notin acked
        <4>1. Same(dur, sess) /\ id \in sess.seen_message_ids
          BY <2>2, <3>2, AckedStep DEF AckInv
        <4>2. IsSession(dur) /\ id \in dur.seen_message_ids
          BY <4>1 DEF Same, IsSession
        <4> QED BY <4>2, DurKeepsSlots
      <3> QED BY <3>1, <3>2
    <2> QED BY <2>1, <2>2 DEF AckInv, AckedSurvive
  <1> QED BY <1>1, <1>2, InductiveInvariant, PTL DEF Spec, AckInv

\* The snapshot is always a whole session: what is saved is the session in
\* memory, or the one just recovered.
LEMMA SnapshotStep ==
    ASSUME IInv, TypeOK, Reliance, [Next]_vars
    PROVE  snap' = NoSession \/ IsSession(snap')
  <1>1. ASSUME NEW s, IsSession(s), SaveSnapshot(s) PROVE snap' = NoSession \/ IsSession(snap')
    BY <1>1 DEF SaveSnapshot, TypeOK
  <1>2. CASE UNCHANGED snap
    BY <1>2 DEF TypeOK
  <1>3. CASE ExpireAppend
    <2>1. IsSession(sess)
      BY <1>3 DEF ExpireAppend, IInv, Shape
    <2> QED BY <1>1, <1>2, <1>3, <2>1 DEF ExpireAppend
  <1>4. CASE CancelAppend
    <2>1. IsSession(sess)
      BY <1>4 DEF CancelAppend, IInv, Shape
    <2> QED BY <1>1, <1>2, <1>4, <2>1 DEF CancelAppend
  <1>5. CASE Commit
    <2>1. IsSession(sess')
      BY <1>5 DEF Commit, IInv, ServedInv, Same
    <2> QED BY <1>1, <1>2, <1>5, <2>1 DEF Commit
  <1>6. CASE RecoverDone
    <2>1. IsSession(op.s)
      <3>1. op.pc = "replay" /\ op.n \in DOMAIN log /\ op.s = replayed[op.n]
        BY <1>6, AppendIsSeq DEF RecoverDone, IInv, ReplayInv, LogInv
      <3> QED BY <3>1 DEF IInv, LogInv
    <2> QED BY <1>1, <1>2, <1>6, <2>1 DEF RecoverDone
  <1>7. CASE Shutdown
    BY <1>1, <1>2, <1>7 DEF Shutdown, TypeOK
  <1> QED BY <1>2, <1>3, <1>4, <1>5, <1>6, <1>7, NoneDropped
      DEF Next, vars, StartSession, Duplicate, MessageExpired, Message, DispatchTrigger, Control,
          SuspendAppend, ResumeAppend, BeginPass, Cleanup, Sweep, Evict, Finish, Crash,
          ReplayFromCheckpoint, ReplayFromStart, RecoverNothing, ReplayStep, Tick

\* Type correctness, for every mode and every value of the constants.
THEOREM TypeTheorem == ASSUME Reliance PROVE Spec => []TypeOK
  <1>1. Init => TypeOK
    BY KernelConstants DEF Init, TypeOK, Idle, Pass, NoTime, NoSession, IsSession
  <1>2. IInv /\ TypeOK /\ [Next]_vars => TypeOK'
    <2> SUFFICES ASSUME IInv, TypeOK, [Next]_vars PROVE TypeOK'
      OBVIOUS
    <2>1. Shape'
      BY NextPreserves DEF IInv
    <2>2. snap' = NoSession \/ IsSession(snap')
      BY SnapshotStep
    <2>3. now' \in Int
      BY KernelConstants, NoneDropped
      DEF TypeOK, Next, vars, StartSession, Duplicate, MessageExpired, Message, DispatchTrigger, Control,
          ExpireAppend, CancelAppend, SuspendAppend, ResumeAppend, BeginPass, Cleanup, Sweep, Evict,
          Commit, Finish, Crash, Shutdown, Stop, ReplayFromCheckpoint, ReplayFromStart, RecoverNothing,
          ReplayStep, RecoverDone, Tick
    <2>4. crashes' \in Nat
      BY NoneDropped DEF TypeOK, Next, vars, StartSession, Duplicate, MessageExpired, Message, DispatchTrigger, Control,
          ExpireAppend, CancelAppend, SuspendAppend, ResumeAppend, BeginPass, Cleanup, Sweep, Evict,
          Commit, Finish, Crash, Shutdown, Stop, ReplayFromCheckpoint, ReplayFromStart, RecoverNothing,
          ReplayStep, RecoverDone, Tick
    <2>5. ~alive' => memlog' = <<>>
      BY NoneDropped DEF TypeOK, IInv, Shape, Next, vars, memory, StartSession, Duplicate, MessageExpired, Message,
          DispatchTrigger, Control, ExpireAppend, CancelAppend, SuspendAppend, ResumeAppend, BeginPass,
          Cleanup, Sweep, Evict, Visit, Commit, Finish, Crash, Shutdown, Stop, ReplayFromCheckpoint, ReplayFromStart,
          RecoverNothing, ReplayStep, RecoverDone, Tick
    <2>6. maint' \in [pass : {"cleanup", "sweep", "evict"}, at : Int]
      <3>1. CASE BeginPass
        BY <3>1 DEF BeginPass, NextPass, Pass, NoTime, TypeOK
      <3>2. CASE Cleanup \/ Sweep \/ Evict
        BY <3>2 DEF Cleanup, Sweep, Evict, Visit, NextPass, Pass, NoTime
      <3>3. CASE Crash \/ Shutdown
        BY <3>3 DEF Crash, Shutdown, Stop, Pass, NoTime
      <3>4. CASE UNCHANGED maint
        BY <3>4 DEF TypeOK
      <3> QED BY <3>1, <3>2, <3>3, <3>4, NoneDropped
          DEF Next, vars, StartSession, Duplicate, MessageExpired, Message, DispatchTrigger, Control,
              ExpireAppend, CancelAppend, SuspendAppend, ResumeAppend, Commit, Finish,
              ReplayFromCheckpoint, ReplayFromStart, RecoverNothing, ReplayStep, RecoverDone, Tick
    <2> QED BY <2>1, <2>2, <2>3, <2>4, <2>5, <2>6 DEF TypeOK, Shape
  <1> QED BY <1>1, <1>2, InductiveInvariant, PTL DEF Spec

-----------------------------------------------------------------------------
(* History: numbers and ids.                                               *)

\* A log numbers the envelopes of h: each has its place as its ordinal.
Numbered(entries, h) ==
    /\ IsSeq(entries) /\ IsSeq(h)
    /\ OrdinalBase(entries) \in Nat
    /\ HighWater(entries) = Len(h)
    /\ \A i \in IncomingIn(entries) :
          OrdinalOf(entries, i) \in DOMAIN h /\ h[OrdinalOf(entries, i)] = entries[i].env.id

\* Nothing enters h twice.
Distinct(h) == \A i, j \in DOMAIN h : h[i] = h[j] => i = j

-----------------------------------------------------------------------------
(* Numbers.                                                                *)

\* The bases of the checkpoints in a log.
Bases(entries) ==
    {0} \cup {entries[i].base : i \in {i \in DOMAIN entries : entries[i].kind = "Checkpoint"}}

\* Two logs with the same bases number from the same base.
LEMMA SameBase ==
    ASSUME NEW a, NEW b, Bases(a) = Bases(b)
    PROVE  OrdinalBase(a) = OrdinalBase(b)
  BY DEF OrdinalBase, Bases

\* The places of the envelopes are finitely many.
LEMMA IncomingFinite ==
    ASSUME NEW entries, IsSeq(entries)
    PROVE  /\ IncomingIn(entries) \subseteq 1 .. Len(entries) /\ Len(entries) \in Nat
           /\ IsFiniteSet(IncomingIn(entries)) /\ Cardinality(IncomingIn(entries)) \in Nat
           /\ \A n : /\ IsFiniteSet({j \in IncomingIn(entries) : j <= n})
                     /\ Cardinality({j \in IncomingIn(entries) : j <= n}) \in Nat
  <1>1. DOMAIN entries = 1 .. Len(entries) /\ Len(entries) \in Nat
    BY AppendIsSeq
  <1>2. IncomingIn(entries) \subseteq 1 .. Len(entries)
    BY <1>1 DEF IncomingIn
  <1>3. IsFiniteSet(1 .. Len(entries))
    BY <1>1, FS_Interval
  <1>4. IsFiniteSet(IncomingIn(entries))
    BY <1>2, <1>3, FS_Subset
  <1>5. \A n : IsFiniteSet({j \in IncomingIn(entries) : j <= n})
    BY <1>4, FS_Subset
  <1> QED BY <1>1, <1>2, <1>4, <1>5, FS_CardinalityType

\* What an append does to the places, the bases and the ordinals before it.
LEMMA AppendPlaces ==
    ASSUME NEW m, IsSeq(m), NEW e
    PROVE  /\ IncomingIn(Append(m, e)) =
                 IF IsIncoming(e) THEN IncomingIn(m) \cup {Len(m) + 1} ELSE IncomingIn(m)
           /\ e.kind # "Checkpoint" \/ e.base = 0 => Bases(Append(m, e)) = Bases(m)
           /\ \A i \in IncomingIn(m) :
                 /\ Append(m, e)[i] = m[i]
                 /\ {j \in IncomingIn(Append(m, e)) : j <= i} = {j \in IncomingIn(m) : j <= i}
  <1> DEFINE a == Append(m, e)
             n == Len(m)
  <1>1. /\ n \in Nat /\ DOMAIN m = 1 .. n /\ DOMAIN a = 1 .. n + 1
        /\ \A i \in 1 .. n : a[i] = m[i]
        /\ a[n + 1] = e
    BY AppendIsSeq
  <1> HIDE DEF a, n
  <1>2. DOMAIN a = DOMAIN m \cup {n + 1} /\ n + 1 \notin DOMAIN m /\ \A i \in DOMAIN m : i < n + 1
    BY <1>1
  <1>3. IncomingIn(a) = IF IsIncoming(e) THEN IncomingIn(m) \cup {n + 1} ELSE IncomingIn(m)
    BY <1>1, <1>2 DEF IncomingIn
  <1>4. e.kind # "Checkpoint" \/ e.base = 0 => Bases(a) = Bases(m)
    BY <1>1, <1>2 DEF Bases
  <1>5. ASSUME NEW i \in IncomingIn(m)
        PROVE  a[i] = m[i] /\ {j \in IncomingIn(a) : j <= i} = {j \in IncomingIn(m) : j <= i}
    <2>1. i \in 1 .. n /\ \A j \in IncomingIn(m) : j \in 1 .. n
      BY <1>1 DEF IncomingIn
    <2>2. ~(n + 1 <= i)
      BY <1>1, <2>1
    <2> QED BY <1>1, <1>3, <2>1, <2>2
  <1> QED BY <1>3, <1>4, <1>5 DEF a, n

\* An entry that is not a checkpoint takes the next number, or none.
LEMMA NumberedAppend ==
    ASSUME NEW m, NEW h, Numbered(m, h), NEW e, e.kind # "Checkpoint"
    PROVE  Numbered(Append(m, e), IF IsIncoming(e) THEN Append(h, e.env.id) ELSE h)
  <1> DEFINE a == Append(m, e)
             g == IF IsIncoming(e) THEN Append(h, e.env.id) ELSE h
             B == OrdinalBase(m)
             C == Cardinality(IncomingIn(m))
  <1>1. IsSeq(m) /\ IsSeq(h) /\ B \in Nat /\ B + C = Len(h)
    BY DEF Numbered, HighWater
  <1>2. /\ IsSeq(a) /\ a[Len(m) + 1] = e /\ Len(m) \in Nat /\ DOMAIN m = 1 .. Len(m)
    BY <1>1, AppendIsSeq
  <1>3. OrdinalBase(a) = B
    BY <1>1, AppendPlaces, SameBase
  <1>4. /\ IncomingIn(a) = IF IsIncoming(e) THEN IncomingIn(m) \cup {Len(m) + 1} ELSE IncomingIn(m)
        /\ \A i \in IncomingIn(m) :
              a[i] = m[i] /\ {j \in IncomingIn(a) : j <= i} = {j \in IncomingIn(m) : j <= i}
    BY <1>1, AppendPlaces
  <1>5. C \in Nat /\ IsFiniteSet(IncomingIn(m)) /\ IncomingIn(m) \subseteq 1 .. Len(m)
    BY <1>1, IncomingFinite
  <1>6. /\ Len(h) \in Nat /\ DOMAIN h = 1 .. Len(h) /\ IsSeq(Append(h, e.env.id))
        /\ Len(Append(h, e.env.id)) = Len(h) + 1
        /\ DOMAIN Append(h, e.env.id) = 1 .. Len(h) + 1
        /\ \A i \in 1 .. Len(h) : Append(h, e.env.id)[i] = h[i]
        /\ Append(h, e.env.id)[Len(h) + 1] = e.env.id
    BY <1>1, AppendIsSeq
  <1> HIDE DEF a
  <1>7. \A i \in IncomingIn(m) : OrdinalOf(a, i) = OrdinalOf(m, i)
    BY <1>3, <1>4 DEF OrdinalOf
  <1>8. \A i \in IncomingIn(m) : OrdinalOf(m, i) \in 1 .. Len(h) /\ h[OrdinalOf(m, i)] = m[i].env.id
    BY <1>6 DEF Numbered
  <1>9. CASE ~IsIncoming(e)
    <2>1. g = h /\ IncomingIn(a) = IncomingIn(m)
      BY <1>4, <1>9
    <2>2. HighWater(a) = Len(h)
      BY <1>1, <1>3, <2>1 DEF HighWater
    <2> QED BY <1>1, <1>2, <1>3, <1>4, <1>6, <1>7, <1>8, <2>1, <2>2 DEF Numbered, a
  <1>10. CASE IsIncoming(e)
    <2>1. g = Append(h, e.env.id) /\ IncomingIn(a) = IncomingIn(m) \cup {Len(m) + 1}
      BY <1>4, <1>10
    <2>2. Len(m) + 1 \notin IncomingIn(m)
      BY <1>2, <1>5
    <2>3. Cardinality(IncomingIn(a)) = C + 1
      BY <1>5, <2>1, <2>2, FS_AddElement
    <2>4. HighWater(a) = Len(h) + 1
      BY <1>1, <1>3, <1>5, <2>3 DEF HighWater
    <2>5. {j \in IncomingIn(a) : j <= Len(m) + 1} = IncomingIn(a)
      BY <1>2, <1>5, <2>1
    <2>6. OrdinalOf(a, Len(m) + 1) = Len(h) + 1
      <3>1. OrdinalOf(a, Len(m) + 1) = OrdinalBase(a) + Cardinality(IncomingIn(a))
        BY <2>5 DEF OrdinalOf
      <3> QED BY <2>4, <3>1 DEF HighWater
    <2>7. ASSUME NEW i \in IncomingIn(a)
          PROVE  OrdinalOf(a, i) \in DOMAIN g /\ g[OrdinalOf(a, i)] = a[i].env.id
      <3>1. CASE i = Len(m) + 1
        BY <1>2, <1>6, <2>1, <2>6, <3>1 DEF a
      <3>2. CASE i \in IncomingIn(m)
        BY <1>4, <1>6, <1>7, <1>8, <2>1, <3>2
      <3> QED BY <2>1, <3>1, <3>2
    <2> QED BY <1>1, <1>2, <1>3, <1>6, <2>1, <2>4, <2>7 DEF Numbered, a
  <1> QED BY <1>9, <1>10 DEF a

\* A checkpoint that discards nothing numbers nothing.
LEMMA NumberedCheckpoint ==
    ASSUME NEW m, NEW h, Numbered(m, h), NEW s
    PROVE  Numbered(Append(m, CheckpointEntry(s, 0)), h)
  <1> DEFINE e == CheckpointEntry(s, 0)
             a == Append(m, e)
  <1>1. IsSeq(m) /\ IsSeq(a)
    BY AppendIsSeq DEF Numbered
  <1>2. e.kind = "Checkpoint" /\ e.base = 0 /\ ~IsIncoming(e)
    BY DEF CheckpointEntry, IsIncoming
  <1> HIDE DEF e
  <1>3. /\ OrdinalBase(a) = OrdinalBase(m) /\ IncomingIn(a) = IncomingIn(m)
        /\ \A i \in IncomingIn(m) :
              a[i] = m[i] /\ {j \in IncomingIn(a) : j <= i} = {j \in IncomingIn(m) : j <= i}
    BY <1>1, <1>2, AppendPlaces, SameBase
  <1> HIDE DEF a
  <1>4. \A i \in IncomingIn(m) : OrdinalOf(a, i) = OrdinalOf(m, i)
    BY <1>3 DEF OrdinalOf
  <1> QED BY <1>1, <1>3, <1>4 DEF Numbered, HighWater, a, e

\* The checkpoint of a compaction stands for every number it discards.
LEMMA NumberedCompact ==
    ASSUME NEW m, NEW h, Numbered(m, h), NEW s
    PROVE  Numbered(<<CheckpointEntry(s, HighWater(m))>>, h)
  <1> DEFINE e == CheckpointEntry(s, HighWater(m))
             a == <<e>>
             B == HighWater(m)
  <1>1. IsSeq(h) /\ B = Len(h) /\ Len(h) \in Nat
    BY AppendIsSeq DEF Numbered
  <1>2. e.kind = "Checkpoint" /\ e.base = B /\ ~IsIncoming(e)
    BY DEF CheckpointEntry, IsIncoming
  <1> HIDE DEF e, B
  <1>3. IsSeq(a) /\ DOMAIN a = {1} /\ a[1] = e
    BY OneIsSeq
  <1> HIDE DEF a
  <1>4. IncomingIn(a) = {} /\ Bases(a) = {0, B}
    BY <1>2, <1>3 DEF IncomingIn, Bases
  <1>5. OrdinalBase(a) = B
    <2>1. OrdinalBase(a) = CHOOSE x \in {0, B} : \A y \in {0, B} : x >= y
      BY <1>4 DEF OrdinalBase, Bases, Max
    <2>2. \A x \in {0, B} : (\A y \in {0, B} : x >= y) <=> x = B
      BY <1>1
    <2> QED BY <2>1, <2>2
  <1>6. HighWater(a) = Len(h)
    BY <1>1, <1>4, <1>5, FS_EmptySet DEF HighWater
  <1> QED BY <1>1, <1>3, <1>4, <1>5, <1>6 DEF Numbered, a, e, B

\* An empty log numbers an empty history, and no other.
LEMMA NumberedEmpty ==
    /\ Numbered(<<>>, <<>>)
    /\ \A h : Numbered(<<>>, h) => h = <<>>
  <1>1. IsSeq(<<>>) /\ Len(<<>>) = 0 /\ DOMAIN <<>> = {}
    BY EmptySeq, SeqOfRange DEF IsSeq
  <1>2. IncomingIn(<<>>) = {} /\ Bases(<<>>) = {0}
    BY <1>1 DEF IncomingIn, Bases
  <1>3. OrdinalBase(<<>>) = 0
    <2>1. OrdinalBase(<<>>) = CHOOSE x \in {0} : \A y \in {0} : x >= y
      BY <1>2 DEF OrdinalBase, Bases, Max
    <2> QED BY <2>1
  <1>4. HighWater(<<>>) = 0
    BY <1>2, <1>3, FS_EmptySet DEF HighWater
  <1>5. \A h : IsSeq(h) /\ Len(h) = 0 => h = <<>>
    BY AppendIsSeq
  <1> QED BY <1>1, <1>2, <1>3, <1>4, <1>5 DEF Numbered

-----------------------------------------------------------------------------
(* The invariant, beside IInv.                                             *)

\* Every accepted envelope holds its dedup slot in the durable session.
SlotsInv == \A i \in DOMAIN hist : IsSession(dur) /\ hist[i] \in dur.seen_message_ids

\* The in-memory log is the durable one but for the entry, of either kind,
\* of a handler past its commit point.
Behind(h) ==
    /\ Numbered(memlog, h)
    /\ op.entry.kind # "Checkpoint" /\ log = Append(memlog, op.entry)
    /\ hist = IF IsIncoming(op.entry) THEN Append(h, op.entry.env.id) ELSE h

MemoryInv ==
    /\ op.pc # "commit" => memlog = IF sess = NoSession THEN <<>> ELSE log
    /\ op.pc = "commit" => \E h : Behind(h)

\* The message waiting behind a synthetic accept is still a new one: it is
\* not looked up again when its turn comes.
FreshInv ==
    /\ op.pc = "commit" /\ Waiting(op) => op.env.id \notin sess.seen_message_ids \cup {op.entry.env.id}
    /\ op.pc = "finish" /\ Waiting(op) => op.env.id \notin sess.seen_message_ids
    /\ op.pc = "dispatch" => op.env.id \notin sess.seen_message_ids

\* No handler writes for a terminal session.
LiveInv == op.pc = "commit" => ~IsTerminal(sess)

HistoryInv ==
    Numbered(log, hist) /\ Distinct(hist) /\ SlotsInv /\ MemoryInv /\ FreshInv /\ LiveInv

-----------------------------------------------------------------------------
(* What a step may do to the two logs.                                     *)

\* A handler reaches its commit point with a new entry.
Writes(e) ==
    /\ op.pc # "commit" /\ UNCHANGED <<sess, memlog>>
    /\ e.kind \in {"Incoming", "Internal"} /\ AppendDurable(e)
    /\ op'.pc = "commit" /\ op'.entry = e
    /\ sess = NoSession => log = <<>>
    /\ ~IsTerminal(sess)
    /\ sess # NoSession /\ IsIncoming(e) => e.env.id \notin sess.seen_message_ids
    /\ Waiting(op') => op'.env.id \notin sess.seen_message_ids \cup {e.env.id}

\* Nothing happens to either log.
Rests ==
    /\ UNCHANGED <<durable, sess, memlog>>
    /\ op' = op \/ (op.pc # "commit" /\ op'.pc \in {"idle", "expire", "control", "replay"})

\* The memory is lost or freed.
Clears == UNCHANGED durable /\ sess' = NoSession /\ memlog' = <<>> /\ op'.pc = "idle"

\* An append of a handler is a write, or it failed.
LEMMA WriteOrRest ==
    ASSUME Reliance, op.pc # "commit", UNCHANGED <<sess, memlog>>,
           NEW e, e.kind \in {"Incoming", "Internal"},
           NEW next, TryAppend(e, next), next.pc = "commit", next.entry = e,
           sess = NoSession => log = <<>>, ~IsTerminal(sess),
           sess # NoSession /\ IsIncoming(e) => e.env.id \notin sess.seen_message_ids,
           Waiting(next) => next.env.id \notin sess.seen_message_ids \cup {e.env.id}
    PROVE  (\E x : Writes(x)) \/ Rests
  <1>1. CASE AppendDurable(e) /\ op' = next
    <2>1. Writes(e)
      BY <1>1 DEF Writes, Waiting
    <2> QED BY <2>1
  <1>2. CASE UNCHANGED durable /\ op' = Idle
    BY <1>2 DEF Rests, Idle
  <1> QED BY <1>1, <1>2, TryAppendOutcome

\* The entry of an operation that carries no envelope.
LEMMA InternalWrite ==
    ASSUME Reliance, op.pc # "commit", UNCHANGED memory, sess # NoSession, ~IsTerminal(sess),
           NEW type, NEW what, NEW at, what # "synthetic",
           TryAppend(InternalEntry(type, at),
                     Committing(what, NoEnvelope, at, InternalEntry(type, at), NoOp))
    PROVE  (\E x : Writes(x)) \/ Rests
  <1> DEFINE e == InternalEntry(type, at)
             next == Committing(what, NoEnvelope, at, e, NoOp)
  <1>1. e.kind = "Internal" /\ ~IsIncoming(e)
    BY DEF InternalEntry, IsIncoming
  <1>2. next.pc = "commit" /\ next.entry = e /\ ~Waiting(next)
    BY DEF Committing, Waiting
  <1>3. TryAppend(e, next)
    OBVIOUS
  <1> HIDE DEF e, next
  <1> QED BY <1>1, <1>2, <1>3, WriteOrRest DEF memory

\* A client's message that is new.
LEMMA MessageWrite ==
    ASSUME Reliance, op.pc # "commit", UNCHANGED memory, sess # NoSession, ~IsTerminal(sess),
           NEW env, NEW at, AppendMessage(env, at), env.id \notin sess.seen_message_ids
    PROVE  (\E x : Writes(x)) \/ Rests
  <1> DEFINE e == IncomingEntry(env, at)
             next == Committing("message", env, at, e, OnMessageAt(sess, env, at))
  <1>1. e.kind = "Incoming" /\ e.env = env
    BY DEF IncomingEntry
  <1>2. next.pc = "commit" /\ next.entry = e /\ ~Waiting(next)
    BY DEF Committing, Waiting
  <1>3. TryAppend(e, next)
    BY DEF AppendMessage
  <1> HIDE DEF e, next
  <1> QED BY <1>1, <1>2, <1>3, WriteOrRest DEF memory

\* An envelope that is due, which is new because Synthetics looks it up, and
\* differs from the message behind it.
LEMMA SyntheticWrite ==
    ASSUME Reliance, op.pc # "commit", UNCHANGED memory, sess # NoSession, ~IsTerminal(sess),
           NEW at, NEW syn \in Synthetics(sess, at), NEW trigger, AppendSynthetic(syn, trigger, at),
           trigger # NoEnvelope =>
               trigger.id \notin sess.seen_message_ids /\ trigger.id # syn.id
    PROVE  (\E x : Writes(x)) \/ Rests
  <1> DEFINE e == IncomingEntry(syn, syn.timestamp)
             next == [Committing("synthetic", syn, at, e, SyntheticResponse(sess, syn))
                        EXCEPT !.env = trigger]
  <1>1. e.kind = "Incoming" /\ e.env = syn /\ syn.id \notin sess.seen_message_ids
    BY DEF IncomingEntry, Synthetics
  <1>2. next.pc = "commit" /\ next.entry = e /\ next.env = trigger
    BY DEF Committing
  <1>3. TryAppend(e, next)
    BY DEF AppendSynthetic
  <1> HIDE DEF e, next
  <1> QED BY <1>1, <1>2, <1>3, WriteOrRest DEF memory, Waiting

\* Every step is one of these, or a commit, a finish or the end of a recovery.
LEMMA HistoryStep ==
    ASSUME IInv, FreshInv, Reliance, OwnIds, [Next]_vars
    PROVE  (\E e : Writes(e)) \/ Rests \/ Clears \/ Commit \/ Finish \/ RecoverDone
  <1> DEFINE Goal == (\E e : Writes(e)) \/ Rests \/ Clears
  <1>1. ASSUME NEW env \in StartEnvelopes, StartSession(env) PROVE Goal
    <2> DEFINE e == IncomingEntry(env, now)
               next == Committing("start", env, now, e, NoOp)
    <2>1. e.kind = "Incoming" /\ next.pc = "commit" /\ next.entry = e /\ ~Waiting(next)
      BY DEF IncomingEntry, Committing, Waiting
    <2>2. TryAppend(e, next) /\ op = Idle /\ sess = NoSession /\ log = <<>> /\ UNCHANGED memory
      BY <1>1 DEF StartSession, StartReserved, Reliance
    <2>3. op.pc # "commit" /\ ~IsTerminal(sess)
      BY <2>2 DEF Idle, IsTerminal, TerminalStates, NoSession
    <2> HIDE DEF e, next
    <2> QED BY <2>1, <2>2, <2>3, WriteOrRest DEF memory
  <1>2. ASSUME NEW env \in ClientEnvelopes, Message(env) PROVE Goal
    <2>1. /\ op.pc # "commit" /\ sess # NoSession /\ ~IsTerminal(sess) /\ UNCHANGED memory
          /\ env.id \notin sess.seen_message_ids /\ ValidateClientEnvelope(sess, env)
      BY <1>2 DEF Message, Locked, Idle, IsTerminal, TerminalStates
    <2>2. CASE AppendMessage(env, now)
      BY <2>1, <2>2, MessageWrite
    <2>3. ASSUME NEW syn \in Synthetics(sess, now), AppendSynthetic(syn, env, now) PROVE Goal
      <3>1. env.id # syn.id
        BY <2>1 DEF OwnIds
      <3> QED BY <2>1, <2>3, <3>1, SyntheticWrite
    <2> QED BY <1>2, <2>2, <2>3 DEF Message
  <1>3. CASE DispatchTrigger
    <2>1. /\ op.pc = "dispatch" /\ sess # NoSession /\ ~IsTerminal(sess) /\ UNCHANGED memory
          /\ op.env.id \notin sess.seen_message_ids
      BY <1>3 DEF DispatchTrigger, IInv, Shape, FreshInv, TriggerInv, Dispatchable, IsTerminal,
                  TerminalStates
    <2>2. CASE op' = Idle /\ UNCHANGED durable
      BY <2>1, <2>2 DEF Rests, Idle, memory
    <2>3. CASE AppendMessage(op.env, op.at)
      BY <2>1, <2>3, MessageWrite
    <2> QED BY <1>3, <2>2, <2>3 DEF DispatchTrigger
  <1>4. ASSUME NEW what \in {"get", "cancel", "suspend"}, Control(what) PROVE Goal
    <2>1. op.pc # "commit" /\ sess # NoSession /\ UNCHANGED memory
      BY <1>4 DEF Control, Locked, Idle
    <2>2. CASE DeadlinePassed(sess, now)
      <3> DEFINE w == IF what = "suspend" THEN "expire-unsaved" ELSE "expire"
      <3>1. TryAppend(InternalEntry("TtlExpired", now),
                      Committing(w, NoEnvelope, now, InternalEntry("TtlExpired", now), NoOp))
        BY <1>4, <2>2 DEF Control
      <3>2. w # "synthetic" /\ ~IsTerminal(sess)
        BY <2>2 DEF DeadlinePassed, IsTerminal, TerminalStates
      <3> HIDE DEF w
      <3> QED BY <2>1, <3>1, <3>2, InternalWrite
    <2>3. CASE ~DeadlinePassed(sess, now)
      BY <1>4, <2>1, <2>3 DEF Control, Rests, Idle, memory
    <2> QED BY <2>2, <2>3
  <1>5. CASE ExpireAppend
    <2>1. op.pc # "commit" /\ sess # NoSession /\ UNCHANGED memory
      BY <1>5 DEF ExpireAppend, IInv, Shape
    <2> QED BY <1>5, <2>1, InternalWrite
        DEF ExpireAppend, DeadlinePassed, IsTerminal, TerminalStates, Rests, Idle, memory
  <1>6. CASE CancelAppend
    <2>1. op.pc # "commit" /\ sess # NoSession /\ UNCHANGED memory
      BY <1>6 DEF CancelAppend, IInv, Shape
    <2> QED BY <1>6, <2>1, InternalWrite DEF CancelAppend, Rests, Idle, memory
  <1>7. CASE SuspendAppend
    <2>1. op.pc # "commit" /\ sess # NoSession /\ UNCHANGED memory
      BY <1>7 DEF SuspendAppend, IInv, Shape
    <2> QED BY <1>7, <2>1, InternalWrite
        DEF SuspendAppend, IsTerminal, TerminalStates, Rests, Idle, memory
  <1>8. CASE ResumeAppend
    BY <1>8, InternalWrite DEF ResumeAppend, Locked, Idle, IsTerminal, TerminalStates
  <1>9. CASE Cleanup
    <2>1. op.pc # "commit" /\ UNCHANGED memory
      BY <1>9 DEF Cleanup, Visit, Idle
    <2>2. CASE UNCHANGED <<durable, op>>
      BY <2>1, <2>2 DEF Rests, memory
    <2>3. CASE sess.state = "Open"
      BY <1>9, <2>1, <2>2, <2>3, InternalWrite
        DEF Cleanup, NoSession, IsTerminal, TerminalStates
    <2> QED BY <1>9, <2>2, <2>3 DEF Cleanup
  <1>10. CASE Sweep
    <2>1. op.pc # "commit" /\ UNCHANGED memory
      BY <1>10 DEF Sweep, Visit, Idle
    <2>2. CASE UNCHANGED <<durable, op>>
      BY <2>1, <2>2 DEF Rests, memory
    <2>3. ASSUME NEW syn \in Synthetics(sess, maint.at), AppendSynthetic(syn, NoEnvelope, maint.at)
          PROVE  Goal
      <3>1. sess # NoSession /\ ~IsTerminal(sess)
        BY <2>3 DEF Synthetics, NoSession, IsTerminal, TerminalStates
      <3> QED BY <2>1, <2>3, <3>1, SyntheticWrite
    <2> QED BY <1>10, <2>2, <2>3 DEF Sweep
  <1>11. CASE Evict
    BY <1>11 DEF Evict, Visit, Idle, Rests, Clears
  <1>12. CASE Crash \/ Shutdown
    BY <1>12 DEF Crash, Shutdown, Stop, Clears, Idle
  <1>13. ASSUME NEW env, Duplicate(env) \/ MessageExpired(env) PROVE Goal
    BY <1>13 DEF Duplicate, MessageExpired, Locked, Idle, Rests, memory
  <1>14. CASE BeginPass \/ Tick \/ UNCHANGED vars
    BY <1>14 DEF BeginPass, Tick, vars, Rests, memory
  <1>15. CASE ReplayFromCheckpoint \/ ReplayFromStart \/ RecoverNothing \/ ReplayStep
    BY <1>15 DEF ReplayFromCheckpoint, ReplayFromStart, RecoverNothing, ReplayStep, Replaying,
                 Idle, Rests, memory
  <1> QED BY <1>1, <1>2, <1>3, <1>4, <1>5, <1>6, <1>7, <1>8, <1>9, <1>10, <1>11, <1>12,
             <1>13, <1>14, <1>15, NoneDropped DEF Next

-----------------------------------------------------------------------------
(* The invariant is inductive.                                             *)

\* An envelope that is replayed holds its dedup slot.
LEMMA SlotTaken ==
    ASSUME NEW s, s = NoSession \/ IsSession(s), NEW e, IsIncoming(e),
           IsSession(ReplayAppend(s, e))
    PROVE  e.env.id \in ReplayAppend(s, e).seen_message_ids
  <1>1. ReplayAppend(s, e) # Unreplayable /\ e.kind = "Incoming" /\ (IsSession(s) => s # NoSession /\ s # Unreplayable)
    BY DEF IsSession, Unreplayable, NoSession, SessionStates, IsIncoming
  <1>2. ASSUME NEW t, IsSession(t), NEW id, NEW resp
        PROVE  /\ id \in TakeDedupSlot(t, id).seen_message_ids
               /\ id \in ApplyModeResponse(TakeDedupSlot(t, id), resp).seen_message_ids
    BY <1>2 DEF ApplyModeResponse, TakeDedupSlot, IsSession
  <1>3. CASE s = NoSession
    <2>1. ReplayAppend(s, e) = ReplayStart(e)
      BY <1>1, <1>3 DEF ReplayAppend
    <2>2. IsSession(BuildSession(e.env, e.at))
      BY DEF BuildSession, IsSession, SessionStates
    <2> QED BY <1>1, <1>2, <2>1, <2>2 DEF ReplayStart
  <1>4. CASE IsSession(s)
    <2>1. ReplayAppend(s, e) = ReplayIncoming(s, e)
      BY <1>1, <1>4 DEF ReplayAppend, ReplayEntry
    <2> QED BY <1>1, <1>2, <1>4, <2>1, ApplyIsSession DEF ReplayIncoming
  <1> QED BY <1>3, <1>4

\* What an append makes of the durable session.
LEMMA WrittenSession ==
    ASSUME IInv, Reliance, [Next]_vars, NEW e, AppendDurable(e)
    PROVE  /\ dur' = ReplayAppend(dur, e) /\ IsSession(dur')
           /\ dur = NoSession \/ IsSession(dur)
  <1> DEFINE r == ReplayAppend(dur, e)
  <1>1. replayed' = Append(replayed, r) /\ IsSeq(replayed)
    BY DEF AppendDurable, IInv, LogInv
  <1> HIDE DEF r
  <1>2. /\ Len(replayed') = Len(replayed) + 1 /\ Len(replayed) \in Nat
        /\ replayed'[Len(replayed) + 1] = r /\ IsSeq(replayed')
    BY <1>1, AppendIsSeq
  <1>3. replayed' # <<>>
    BY <1>2, AppendIsSeq
  <1>4. dur' = r
    BY <1>2, <1>3 DEF dur
  <1>5. IsSession(dur')
    <2>1. /\ Len(replayed') = Len(log') /\ IsSeq(log')
          /\ \A i \in DOMAIN log' : IsSession(replayed'[i])
      BY NextPreserves DEF IInv, LogInv
    <2>2. Len(replayed') \in DOMAIN log'
      BY <1>2, <2>1, AppendIsSeq
    <2> QED BY <1>3, <2>1, <2>2 DEF dur
  <1>6. dur = NoSession \/ IsSession(dur)
    BY DurIsSession DEF dur
  <1> QED BY <1>4, <1>5, <1>6 DEF r

\* A write takes the next number and a new slot.
LEMMA WritesPreserve ==
    ASSUME IInv, HistoryInv, Reliance, [Next]_vars, NEW e, Writes(e)
    PROVE  HistoryInv'
  <1>1. /\ op.pc # "commit" /\ sess' = sess /\ memlog' = memlog
        /\ e.kind # "Checkpoint" /\ log' = Append(log, e)
        /\ hist' = IF IsIncoming(e) THEN Append(hist, e.env.id) ELSE hist
        /\ op'.pc = "commit" /\ op'.entry = e /\ AppendDurable(e)
    BY DEF Writes, AppendDurable
  <1>2. memlog = log /\ Numbered(log, hist)
    BY <1>1 DEF HistoryInv, MemoryInv, Writes
  <1>3. Numbered(log', hist')
    BY <1>1, <1>2, NumberedAppend
  <1>4. dur' = ReplayAppend(dur, e) /\ IsSession(dur') /\ (dur = NoSession \/ IsSession(dur))
    BY <1>1, WrittenSession
  <1>5. IsIncoming(e) => \A i \in DOMAIN hist : hist[i] # e.env.id
    <2>1. CASE sess = NoSession
      <3>1. hist = <<>>
        BY <1>2, <2>1, NumberedEmpty DEF Writes
      <3> QED BY <3>1
    <2>2. CASE sess # NoSession
      <3>1. dur.seen_message_ids = sess.seen_message_ids
        BY <1>1, <2>2, ServedExactly DEF Same, IsSession
      <3> QED BY <2>2, <3>1 DEF Writes, HistoryInv, SlotsInv
    <2> QED BY <2>1, <2>2
  <1>6. \A i \in DOMAIN hist : hist[i] \in dur'.seen_message_ids
    BY DurKeepsSlots DEF HistoryInv, SlotsInv
  <1>7. CASE ~IsIncoming(e)
    <2>1. hist' = hist
      BY <1>1, <1>7
    <2>2. Distinct(hist') /\ SlotsInv'
      BY <1>4, <1>6, <2>1 DEF HistoryInv, Distinct, SlotsInv
    <2>3. Behind(hist)'
      BY <1>1, <1>2, <1>7 DEF Behind
    <2> QED BY <1>1, <1>3, <2>2, <2>3 DEF HistoryInv, MemoryInv, FreshInv, LiveInv, Writes, Waiting
  <1>8. CASE IsIncoming(e)
    <2>1. hist' = Append(hist, e.env.id) /\ IsSeq(hist)
      BY <1>1, <1>2, <1>8 DEF Numbered
    <2>2. /\ Len(hist) \in Nat /\ DOMAIN hist = 1 .. Len(hist) /\ DOMAIN hist' = 1 .. Len(hist) + 1
          /\ \A i \in 1 .. Len(hist) : hist'[i] = hist[i]
          /\ hist'[Len(hist) + 1] = e.env.id
      BY <2>1, AppendIsSeq
    <2>3. DOMAIN hist' = DOMAIN hist \cup {Len(hist) + 1}
      BY <2>2
    <2>4. Distinct(hist')
      BY <1>5, <1>8, <2>2, <2>3 DEF HistoryInv, Distinct
    <2>5. e.env.id \in dur'.seen_message_ids
      BY <1>4, <1>8, SlotTaken
    <2>6. SlotsInv'
      BY <1>4, <1>6, <2>2, <2>3, <2>5 DEF SlotsInv
    <2>7. \E h : Behind(h)'
      <3>1. /\ Numbered(memlog', hist) /\ op'.entry.kind # "Checkpoint"
            /\ log' = Append(memlog', op'.entry)
            /\ hist' = IF IsIncoming(op'.entry) THEN Append(hist, op'.entry.env.id) ELSE hist
        BY <1>1, <1>2
      <3> QED BY <3>1 DEF Behind
    <2> QED BY <1>1, <1>3, <2>4, <2>6, <2>7 DEF HistoryInv, MemoryInv, FreshInv, LiveInv, Writes, Waiting
  <1> QED BY <1>7, <1>8

\* A step that touches neither log leaves everything as it is.
LEMMA RestsPreserve ==
    ASSUME IInv, HistoryInv, Rests PROVE HistoryInv'
  <1>1. log' = log /\ hist' = hist /\ dur' = dur /\ sess' = sess /\ memlog' = memlog
    BY DEF Rests, durable, dur
  <1>2. Numbered(log', hist') /\ Distinct(hist') /\ SlotsInv'
    BY <1>1 DEF HistoryInv, SlotsInv
  <1>3. CASE op' = op
    <2>1. \A h : Behind(h) => Behind(h)'
      BY <1>1, <1>3 DEF Behind
    <2> QED BY <1>1, <1>2, <1>3, <2>1 DEF HistoryInv, MemoryInv, FreshInv, LiveInv, Waiting
  <1>4. CASE op.pc # "commit" /\ op'.pc \in {"idle", "expire", "control", "replay"}
    BY <1>1, <1>2, <1>4 DEF HistoryInv, MemoryInv, FreshInv, LiveInv
  <1> QED BY <1>3, <1>4 DEF Rests

\* Losing the memory leaves the durable record.
LEMMA ClearsPreserve ==
    ASSUME HistoryInv, Clears PROVE HistoryInv'
  <1>1. log' = log /\ hist' = hist /\ dur' = dur
    BY DEF Clears, durable, dur
  <1> QED BY <1>1 DEF Clears, HistoryInv, SlotsInv, MemoryInv, FreshInv, LiveInv

\* A commit brings the in-memory log level with the durable one.
LEMMA CommitHistory ==
    ASSUME IInv, HistoryInv, Commit PROVE HistoryInv'
  <1>1. /\ op.pc = "commit" /\ sess' = Committed(sess, op) /\ memlog' = Append(memlog, op.entry)
        /\ op' = Finishing(op) /\ log' = log /\ hist' = hist /\ dur' = dur
    BY DEF Commit, durable, dur
  <1>2. op'.pc = "finish" /\ op'.what = op.what /\ op'.env = op.env
    BY <1>1 DEF Finishing
  <1>3. memlog' = log'
    BY <1>1 DEF HistoryInv, MemoryInv, Behind
  <1>4. sess' # NoSession
    BY <1>1 DEF IInv, ServedInv, Same, IsSession, NoSession, SessionStates
  <1>5. Waiting(op') => op'.env.id \notin sess'.seen_message_ids
    <2> SUFFICES ASSUME Waiting(op) PROVE op.env.id \notin sess'.seen_message_ids
      BY <1>2 DEF Waiting
    <2>1. op.what = "synthetic" /\ IsSession(sess)
      BY <1>1 DEF Waiting, IInv, Shape
    <2>2. sess' = ApplyModeResponse(TakeDedupSlot(sess, op.entry.env.id), op.resp)
      BY <1>1, <2>1 DEF Committed
    <2>3. sess'.seen_message_ids = sess.seen_message_ids \cup {op.entry.env.id}
      BY <2>1, <2>2 DEF ApplyModeResponse, TakeDedupSlot, IsSession
    <2> QED BY <1>1, <2>3 DEF HistoryInv, FreshInv
  <1> QED BY <1>1, <1>2, <1>3, <1>4, <1>5
      DEF HistoryInv, SlotsInv, MemoryInv, FreshInv, LiveInv

\* A checkpoint renumbers nothing, in either log, and a compaction gives both
\* logs the same base.
LEMMA FinishHistory ==
    ASSUME IInv, HistoryInv, Reliance, [Next]_vars, Finish PROVE HistoryInv'
  <1>1. /\ op.pc = "finish" /\ sess' = sess /\ sess # NoSession
        /\ memlog = log /\ Numbered(log, hist)
    BY DEF Finish, IInv, Shape, HistoryInv, MemoryInv
  <1>2. op' = IF Waiting(op) THEN Dispatching(op) ELSE Idle
    BY DEF Finish, Waiting
  <1>3. \/ op'.pc = "idle"
        \/ op'.pc = "dispatch" /\ op'.env = op.env /\ Waiting(op)
    BY <1>2 DEF Dispatching, Idle
  <1>4. Compact \/ ForceCheckpoint \/ UNCHANGED <<durable, memlog>>
    BY DEF Finish, CompactOrCheckpoint, MaybeInsertCheckpoint
  <1>5. Numbered(log', hist') /\ memlog' = log' /\ hist' = hist
    <2>1. CASE Compact
      BY <1>1, <2>1, NumberedCompact DEF Compact
    <2>2. CASE ForceCheckpoint
      <3> DEFINE e == CheckpointEntry(sess, 0)
      <3>1. ~IsIncoming(e)
        BY DEF CheckpointEntry, IsIncoming
      <3>2. \/ AppendDurable(e) /\ memlog' = Append(memlog, e)
            \/ UNCHANGED <<durable, memlog>>
        BY <2>2, KernelConstants DEF ForceCheckpoint, Reliance
      <3>3. Numbered(Append(log, e), hist)
        BY <1>1, NumberedCheckpoint
      <3> HIDE DEF e
      <3> QED BY <1>1, <3>1, <3>2, <3>3 DEF AppendDurable, durable
    <2>3. CASE UNCHANGED <<durable, memlog>>
      BY <1>1, <2>3 DEF durable
    <2> QED BY <1>4, <2>1, <2>2, <2>3
  <1>6. SlotsInv'
    BY <1>5, DurKeepsSlots DEF HistoryInv, SlotsInv
  <1> QED BY <1>1, <1>3, <1>5, <1>6 DEF HistoryInv, MemoryInv, FreshInv, LiveInv

\* A recovery ends with the session of the whole stored log.
LEMMA RecoveredSession ==
    ASSUME IInv, RecoverDone
    PROVE  IsSession(op.s) /\ op.s = dur /\ dur' = dur /\ sess' = op.s /\ memlog' = log
  <1>1. /\ op.pc = "replay" /\ op.n = Len(log) /\ op.n \in 1 .. Len(log) /\ op.s = replayed[op.n]
        /\ dur' = dur
    BY DEF RecoverDone, IInv, ReplayInv, durable, dur
  <1>2. /\ IsSeq(log) /\ IsSeq(replayed) /\ Len(replayed) = Len(log)
        /\ \A i \in DOMAIN log : IsSession(replayed[i])
    BY DEF IInv, LogInv
  <1>3. Len(log) \in Nat /\ DOMAIN log = 1 .. Len(log)
    BY <1>2, AppendIsSeq
  <1>4. replayed # <<>>
    BY <1>1, <1>2, <1>3, AppendIsSeq
  <1>5. IsSession(op.s) /\ op.s = dur
    BY <1>1, <1>2, <1>3, <1>4 DEF dur
  <1>6. op.s # Unreplayable
    BY <1>5 DEF IsSession, Unreplayable, SessionStates
  <1> QED BY <1>1, <1>5, <1>6 DEF RecoverDone

\* Recovery reads the log and writes nothing to it.
LEMMA RecoveryHistory ==
    ASSUME IInv, HistoryInv, RecoverDone PROVE HistoryInv'
  <1>1. IsSession(sess') /\ dur' = dur /\ memlog' = log
    BY RecoveredSession
  <1>2. log' = log /\ hist' = hist /\ op'.pc = "idle"
    BY DEF RecoverDone, durable, Idle
  <1>3. sess' # NoSession
    BY <1>1 DEF IsSession, NoSession, SessionStates
  <1> QED BY <1>1, <1>2, <1>3 DEF HistoryInv, SlotsInv, MemoryInv, FreshInv, LiveInv

\* Every step keeps the invariant.
LEMMA HistoryPreserved ==
    ASSUME IInv, HistoryInv, Reliance, OwnIds, [Next]_vars PROVE HistoryInv'
  <1>1. FreshInv
    BY DEF HistoryInv
  <1> QED BY <1>1, HistoryStep, WritesPreserve, RestsPreserve, ClearsPreserve, CommitHistory,
             FinishHistory, RecoveryHistory

-----------------------------------------------------------------------------
(* The snapshot.                                                           *)

\* The session s shows nothing that d does not have.
NotAhead(s, d) ==
    /\ IsSession(d) /\ s.seen_message_ids \subseteq d.seen_message_ids
    /\ IsTerminal(s) => d.state = s.state

\* A session that is served is not ahead of the log, not even where a
\* shutdown stops the maintenance task between its append and its commit.
LEMMA ServedNotAhead ==
    ASSUME IInv, LiveInv, sess # NoSession, op.pc = "commit" => MaintenanceBusy
    PROVE  NotAhead(sess, dur)
  <1>1. IsSession(sess)
    BY DEF IInv, Shape
  <1>2. CASE op.pc # "commit"
    BY <1>2, ServedExactly DEF Same, IsSession, NotAhead
  <1>3. CASE op.pc = "commit"
    <2>1. ~IsTerminal(sess) /\ Same(dur, Committed(sess, op))
      BY <1>3 DEF LiveInv, IInv, ServedInv
    <2>2. IsSession(dur) /\ dur.seen_message_ids = Committed(sess, op).seen_message_ids
      BY <2>1 DEF Same, IsSession
    <2>3. CASE op.what = "cleanup"
      <3>1. Committed(sess, op).seen_message_ids = sess.seen_message_ids
        BY <1>1, <2>3 DEF Committed, IsSession
      <3> QED BY <2>1, <2>2, <3>1 DEF NotAhead
    <2>4. CASE op.what = "synthetic"
      <3>1. sess.seen_message_ids \subseteq Committed(sess, op).seen_message_ids
        BY <1>1, <2>4 DEF Committed, ApplyModeResponse, TakeDedupSlot, IsSession
      <3> QED BY <2>1, <2>2, <3>1 DEF NotAhead
    <2> QED BY <1>3, <2>3, <2>4 DEF MaintenanceBusy
  <1> QED BY <1>2, <1>3

\* What is saved is not ahead of the log it is saved beside.
LEMMA SavedStep ==
    ASSUME IInv, HistoryInv, Reliance, [Next]_vars
    PROVE  snap' = snap \/ NotAhead(snap', dur')
  <1> DEFINE Goal == snap' = snap \/ NotAhead(snap', dur')
  <1>1. LiveInv
    BY DEF HistoryInv
  <1>2. ASSUME NEW s, SaveSnapshot(s), NotAhead(s, dur') PROVE Goal
    BY <1>2 DEF SaveSnapshot
  <1>3. UNCHANGED durable => dur' = dur
    BY DEF durable, dur
  <1>4. CASE ExpireAppend
    <2>1. op.pc # "commit" /\ sess # NoSession
      BY <1>4 DEF ExpireAppend, IInv, Shape
    <2> QED BY <1>1, <1>2, <1>3, <1>4, <2>1, ServedNotAhead DEF ExpireAppend
  <1>5. CASE CancelAppend
    <2>1. op.pc # "commit" /\ sess # NoSession
      BY <1>5 DEF CancelAppend, IInv, Shape
    <2> QED BY <1>1, <1>2, <1>3, <1>5, <2>1, ServedNotAhead DEF CancelAppend
  <1>6. CASE Commit
    <2>1. Same(dur', sess')
      BY <1>3, <1>6 DEF Commit, IInv, ServedInv
    <2>2. NotAhead(sess', dur')
      BY <2>1 DEF Same, IsSession, NotAhead
    <2> QED BY <1>2, <1>6, <2>2 DEF Commit
  <1>7. CASE RecoverDone
    <2>1. IsSession(op.s) /\ op.s = dur'
      BY <1>7, RecoveredSession
    <2>2. NotAhead(op.s, dur')
      BY <2>1 DEF NotAhead
    <2> QED BY <1>2, <1>7, <2>2 DEF RecoverDone
  <1>8. CASE Shutdown
    <2>1. dur' = dur /\ (op.pc = "commit" => MaintenanceBusy)
      BY <1>3, <1>8 DEF Shutdown, Stop, Idle
    <2> QED BY <1>1, <1>2, <1>8, <2>1, ServedNotAhead DEF Shutdown
  <1> QED BY <1>4, <1>5, <1>6, <1>7, <1>8, NoneDropped
      DEF Next, vars, StartSession, Duplicate, MessageExpired, Message, DispatchTrigger, Control,
          SuspendAppend, ResumeAppend, BeginPass, Cleanup, Sweep, Evict, Finish, Crash,
          ReplayFromCheckpoint, ReplayFromStart, RecoverNothing, ReplayStep, Tick

\* A snapshot that was not ahead stays behind: the durable session keeps its
\* slots and its terminal state.
LEMMA SnapshotKept ==
    ASSUME IInv, HistoryInv, Reliance, SnapshotNotAhead, [Next]_vars PROVE SnapshotNotAhead'
  <1> SUFFICES ASSUME IsSession(snap') PROVE NotAhead(snap', dur')
    BY DEF SnapshotNotAhead, NotAhead
  <1>1. CASE snap' = snap
    <2>1. /\ IsSession(dur) /\ snap.seen_message_ids \subseteq dur.seen_message_ids
          /\ IsTerminal(snap) => dur.state = snap.state
      BY <1>1 DEF SnapshotNotAhead
    <2>2. IsSession(dur') /\ dur.seen_message_ids \subseteq dur'.seen_message_ids
      BY <2>1, DurKeepsSlots
    <2>3. IsTerminal(snap) => dur'.state = snap.state
      <3>1. dur # NoSession
        BY <2>1 DEF IsSession, NoSession, SessionStates
      <3>2. Same(dur, sess) => sess.state = dur.state
        BY DEF Same, IsSession
      <3> QED BY <2>1, <3>1, <3>2, DurStep DEF IsTerminal
    <2> QED BY <1>1, <2>1, <2>2, <2>3 DEF NotAhead
  <1> QED BY <1>1, SavedStep

-----------------------------------------------------------------------------
(* The theorem.                                                            *)

\* The numbering is what both logs tell a subscriber.
LEMMA HistoryReads == ASSUME HistoryInv PROVE AcceptedOnce /\ OrdinalsStable /\ HighWaterComplete
  <1>1. AcceptedOnce
    BY DEF HistoryInv, Distinct, AcceptedOnce
  <1>2. Numbered(log, hist)
    BY DEF HistoryInv
  <1>3. \A i \in IncomingIn(memlog) :
            OrdinalOf(memlog, i) \in DOMAIN hist /\ hist[OrdinalOf(memlog, i)] = memlog[i].env.id
    <2>1. CASE op.pc # "commit"
      BY <1>2, <2>1, NumberedEmpty DEF HistoryInv, MemoryInv, Numbered, IncomingIn
    <2>2. CASE op.pc = "commit"
      <3>1. PICK h : Behind(h)
        BY <2>2 DEF HistoryInv, MemoryInv
      <3>2. IsSeq(h) /\ \A i \in IncomingIn(memlog) :
                OrdinalOf(memlog, i) \in DOMAIN h /\ h[OrdinalOf(memlog, i)] = memlog[i].env.id
        BY <3>1 DEF Behind, Numbered
      <3>3. \A n \in DOMAIN h : n \in DOMAIN hist /\ hist[n] = h[n]
        <4>1. hist = h \/ hist = Append(h, op.entry.env.id)
          BY <3>1 DEF Behind
        <4>2. /\ DOMAIN h = 1 .. Len(h) /\ DOMAIN Append(h, op.entry.env.id) = 1 .. Len(h) + 1
              /\ \A n \in 1 .. Len(h) : Append(h, op.entry.env.id)[n] = h[n]
              /\ Len(h) \in Nat
          BY <3>2, AppendIsSeq
        <4> QED BY <4>1, <4>2
      <3> QED BY <3>2, <3>3
    <2> QED BY <2>1, <2>2
  <1>4. OrdinalsStable
    BY <1>2, <1>3 DEF OrdinalsStable, Numbered
  <1>5. HighWaterComplete
    BY <1>2 DEF HighWaterComplete, Numbered, HistoryInv, MemoryInv
  <1> QED BY <1>1, <1>4, <1>5

\* Accepted history is one numbered record, for every mode that keeps its
\* contract and keeps its own ids to itself.
THEOREM HistoryTheorem == ASSUME Reliance, OwnIds PROVE Spec => []HistoryStable
  <1>1. Init => HistoryInv /\ SnapshotNotAhead
    <2> SUFFICES ASSUME Init PROVE HistoryInv /\ SnapshotNotAhead
      OBVIOUS
    <2>1. Numbered(log, hist) /\ hist = <<>> /\ memlog = <<>> /\ sess = NoSession /\ op = Idle /\ snap = NoSession
      BY NumberedEmpty DEF Init
    <2>2. Distinct(hist) /\ SlotsInv
      BY <2>1 DEF Distinct, SlotsInv
    <2> QED BY <2>1, <2>2
        DEF HistoryInv, MemoryInv, FreshInv, LiveInv, Idle, SnapshotNotAhead, IsSession, NoSession,
            SessionStates
  <1>2. IInv /\ HistoryInv /\ SnapshotNotAhead /\ [Next]_vars => HistoryInv' /\ SnapshotNotAhead'
    BY HistoryPreserved, SnapshotKept
  <1>3. HistoryInv /\ SnapshotNotAhead => HistoryStable
    BY HistoryReads DEF HistoryStable
  <1> QED BY <1>1, <1>2, <1>3, InductiveInvariant, PTL DEF Spec

-----------------------------------------------------------------------------
(* An envelope is accepted in its time and its turn.  A message that waits *)
(* behind a synthetic accept is not checked again when its turn comes:     *)
(* that it is still in time, and that nothing is due before it, has to be  *)
(* kept true from its admission to its dispatch (TimelyInv).  The first    *)
(* holds because a mode's answer leaves the deadline alone, the second     *)
(* because the mode owes one envelope at a time (OneAtATime), which rests  *)
(* on what it keeps true of its state (KeptInv).                           *)

\* The mode's state in the durable session, which is the one served.
KeptInv == dur # NoSession => Kept(dur.mode_state)

\* At the clock the message of o was admitted at, s is within its deadline
\* and owes nothing.
OnTime(s, o) == ~(o.at > s.ttl_expiry) /\ Synthetics(s, o.at) = {}

TimelyInv ==
    /\ op.pc = "commit" /\ Waiting(op) => OnTime(Committed(sess, op), op)
    /\ op.pc = "finish" /\ Waiting(op) => OnTime(sess, op)
    /\ op.pc = "dispatch" => OnTime(sess, op)

\* What an answer of the mode and a slot leave of a session.
LEMMA AnswerKeeps ==
    ASSUME NEW s, IsSession(s), NEW id, NEW resp
    PROVE  LET t == ApplyModeResponse(TakeDedupSlot(s, id), resp)
           IN  /\ t.ttl_expiry = s.ttl_expiry
               /\ t.mode_state = IF resp.kind \in {"PersistState", "PersistAndResolve"}
                                 THEN resp.state ELSE s.mode_state
  BY DEF IsSession, ApplyModeResponse, TakeDedupSlot

\* Replaying an entry of a handler keeps what the mode keeps.
LEMMA ReplayKeeps ==
    ASSUME OneAtATime(Kept), NEW d, IsSession(d), Kept(d.mode_state),
           NEW e, e.kind \in {"Incoming", "Internal"}, IsSession(ReplayAppend(d, e))
    PROVE  Kept(ReplayAppend(d, e).mode_state)
  <1>1. d # NoSession /\ d # Unreplayable /\ ReplayAppend(d, e) # Unreplayable
    BY DEF IsSession, NoSession, Unreplayable, SessionStates
  <1>2. CASE e.kind = "Incoming"
    <2> DEFINE resp == OnMessageAt(d, e.env, e.at)
    <2>1. ReplayAppend(d, e) = ReplayIncoming(d, e)
      BY <1>1, <1>2 DEF ReplayAppend, ReplayEntry
    <2>2. CASE d.state # "Open"
      BY <2>1, <2>2 DEF ReplayIncoming, TakeDedupSlot, IsSession
    <2>3. CASE d.state = "Open"
      <3>1. resp.kind # "Rejected" /\ ReplayAppend(d, e) = TakeDedupSlot(ApplyModeResponse(d, resp), e.env.id)
        BY <1>1, <2>1, <2>3 DEF ReplayIncoming
      <3>2. resp.kind \in {"PersistState", "PersistAndResolve"} /\ Kept(resp.state)
        BY <3>1 DEF OneAtATime
      <3> HIDE DEF resp
      <3>3. TakeDedupSlot(ApplyModeResponse(d, resp), e.env.id)
              = ApplyModeResponse(TakeDedupSlot(d, e.env.id), resp)
        BY TakeThenApply
      <3>4. ApplyModeResponse(TakeDedupSlot(d, e.env.id), resp).mode_state = resp.state
        BY <3>2, AnswerKeeps
      <3> QED BY <3>1, <3>2, <3>3, <3>4
    <2> QED BY <2>2, <2>3
  <1>3. CASE e.kind = "Internal"
    <2>1. ReplayAppend(d, e) = ReplayInternal(d, e)
      BY <1>1, <1>3 DEF ReplayAppend, ReplayEntry
    <2>2. /\ [d EXCEPT !.state = "Expired"].mode_state = d.mode_state
          /\ Cancel(d).s.mode_state = d.mode_state
          /\ Suspend(d, e.at).s.mode_state = d.mode_state
          /\ Resume(d, e.at).s.mode_state = d.mode_state
      BY DEF IsSession, Cancel, Suspend, Resume, Ok, Err
    <2>3. ReplayInternal(d, e).mode_state = d.mode_state
      BY <2>2 DEF ReplayInternal
    <2> QED BY <2>1, <2>3
  <1> QED BY <1>2, <1>3

\* The first session of a log is the mode's own beginning.
LEMMA StartKeeps ==
    ASSUME OneAtATime(Kept), NEW e, IsSession(ReplayAppend(NoSession, e)), e.kind # "Checkpoint"
    PROVE  Kept(ReplayAppend(NoSession, e).mode_state)
  <1>1. ReplayAppend(NoSession, e) # Unreplayable
    BY DEF IsSession, Unreplayable, SessionStates
  <1>2. ReplayAppend(NoSession, e) = ReplayStart(e)
    BY <1>1 DEF ReplayAppend
  <1>3. /\ OnSessionStart.kind # "Rejected"
        /\ ReplayStart(e)
             = ApplyModeResponse(TakeDedupSlot(BuildSession(e.env, e.at), e.env.id), OnSessionStart)
    BY <1>1, <1>2 DEF ReplayStart
  <1>4. IsSession(BuildSession(e.env, e.at))
    BY DEF BuildSession, IsSession, SessionStates
  <1>5. OnSessionStart.kind \in {"PersistState", "PersistAndResolve"} /\ Kept(OnSessionStart.state)
    BY <1>3 DEF OneAtATime
  <1>6. ApplyModeResponse(TakeDedupSlot(BuildSession(e.env, e.at), e.env.id), OnSessionStart).mode_state
          = OnSessionStart.state
    BY <1>4, <1>5, AnswerKeeps
  <1> QED BY <1>2, <1>3, <1>5, <1>6

\* Every step keeps what the mode keeps of its state.
LEMMA KeptStep ==
    ASSUME IInv, KeptInv, Reliance, OneAtATime(Kept), [Next]_vars
    PROVE  KeptInv'
  <1>1. CASE UNCHANGED durable
    BY <1>1 DEF KeptInv, durable, dur
  <1>2. CASE Starting
    <2>1. PICK e : e.kind = "Incoming" /\ AppendDurable(e)
      BY <1>2 DEF Starting, IncomingEntry
    <2>2. dur' = ReplayAppend(dur, e) /\ IsSession(dur')
      BY <2>1, WrittenSession
    <2>3. IsSeq(replayed) /\ Len(replayed) = 0
      BY <1>2 DEF IInv, LogInv, Starting
    <2>4. dur = NoSession
      BY <2>3, AppendIsSeq DEF dur
    <2> QED BY <2>1, <2>2, <2>4, StartKeeps DEF KeptInv
  <1>3. CASE dur # NoSession
    <2>1. IsSession(dur) /\ Kept(dur.mode_state)
      BY <1>3, DurIsSession DEF KeptInv, dur
    <2>2. Same(dur, sess) => sess.mode_state = dur.mode_state
      BY DEF Same, IsSession
    <2> QED BY <1>3, <2>1, <2>2, DurStep, ReplayKeeps DEF KeptInv, Handled
  <1>4. CASE Appending \/ Checkpointing
    <2>1. sess # NoSession /\ op.pc # "commit"
      BY <1>4 DEF Appending, Checkpointing, IInv, Shape
    <2> QED BY <1>3, <2>1, ServedExactly
  <1> QED BY <1>1, <1>2, <1>4, DurableStep

\* The append of an operation that makes no message wait.
LEMMA PlainAppend ==
    ASSUME NEW e, NEW next, TryAppend(e, next), next.pc = "commit", ~Waiting(next)
    PROVE  TimelyInv'
  <1>1. op' = next \/ op' = Idle
    BY DEF TryAppend
  <1> QED BY <1>1 DEF TimelyInv, Idle, Waiting

\* The append of a synthetic accept: a message that was admitted in time, and
\* for which this one envelope was due, waits in time.
LEMMA SyntheticTimely ==
    ASSUME IInv, KeptInv, OneAtATime(Kept), NEW at, NEW syn \in Synthetics(sess, at), NEW trigger,
           AppendSynthetic(syn, trigger, at), op.pc # "commit", sess # NoSession, UNCHANGED sess,
           trigger # NoEnvelope => ~(at > sess.ttl_expiry)
    PROVE  TimelyInv'
  <1> DEFINE e == IncomingEntry(syn, syn.timestamp)
             resp == SyntheticResponse(sess, syn)
             next == [Committing("synthetic", syn, at, e, resp) EXCEPT !.env = trigger]
             t == ApplyModeResponse(TakeDedupSlot(sess, syn.id), resp)
  <1>1. IsSession(sess) /\ sess.state = "Open" /\ dur = sess /\ dur # NoSession
    BY ServedExactly DEF Synthetics
  <1>2. TryAppend(e, next)
    BY DEF AppendSynthetic
  <1>3. /\ next.pc = "commit" /\ next.what = "synthetic" /\ next.env = trigger
        /\ next.entry = e /\ next.resp = resp /\ next.at = at
    BY DEF Committing
  <1>4. e.env = syn
    BY DEF IncomingEntry
  <1>5. Committed(sess, next) = t
    BY <1>3, <1>4 DEF Committed
  <1>6. {"mode_state", "seen_message_ids"} \subseteq DOMAIN sess /\ Kept(sess.mode_state)
    BY <1>1 DEF IsSession, KeptInv
  <1>7. Synthetics(t, at) = {}
    BY <1>6 DEF OneAtATime
  <1>8. t.ttl_expiry = sess.ttl_expiry
    BY <1>1, AnswerKeeps
  <1> HIDE DEF e, next, resp, t
  <1>9. Waiting(next) => OnTime(Committed(sess, next), next)
    BY <1>3, <1>5, <1>7, <1>8 DEF Waiting, OnTime
  <1>10. op' = next \/ op' = Idle
    BY <1>2 DEF TryAppend
  <1> QED BY <1>3, <1>9, <1>10 DEF TimelyInv, Idle

\* Every step keeps a waiting message in time.
LEMMA TimelyStep ==
    ASSUME IInv, KeptInv, TimelyInv, Reliance, OneAtATime(Kept), [Next]_vars
    PROVE  TimelyInv'
  <1>1. ASSUME op'.pc \notin {"commit", "finish", "dispatch"} PROVE TimelyInv'
    BY <1>1 DEF TimelyInv
  <1>2. ASSUME UNCHANGED <<op, sess>> PROVE TimelyInv'
    <2>1. Committed(sess, op)' = Committed(sess, op)
      BY <1>2
    <2> QED BY <1>2, <2>1 DEF TimelyInv, OnTime, Waiting
  <1>3. ASSUME NEW env, NEW at, AppendMessage(env, at) PROVE TimelyInv'
    <2> DEFINE e == IncomingEntry(env, at)
               next == Committing("message", env, at, e, OnMessageAt(sess, env, at))
    <2>1. next.pc = "commit" /\ ~Waiting(next)
      BY DEF Committing, Waiting
    <2>2. TryAppend(e, next)
      BY <1>3 DEF AppendMessage
    <2> HIDE DEF e, next
    <2> QED BY <2>1, <2>2, PlainAppend
  <1>4. ASSUME NEW type, NEW what, NEW at,
               TryAppend(InternalEntry(type, at),
                         Committing(what, NoEnvelope, at, InternalEntry(type, at), NoOp))
        PROVE  TimelyInv'
    <2> DEFINE e == InternalEntry(type, at)
               next == Committing(what, NoEnvelope, at, e, NoOp)
    <2>1. next.pc = "commit" /\ ~Waiting(next)
      BY DEF Committing, Waiting
    <2>2. TryAppend(e, next)
      BY <1>4
    <2> HIDE DEF e, next
    <2> QED BY <2>1, <2>2, PlainAppend
  <1>5. ASSUME NEW env, StartSession(env) PROVE TimelyInv'
    <2> DEFINE e == IncomingEntry(env, now)
               next == Committing("start", env, now, e, NoOp)
    <2>1. next.pc = "commit" /\ ~Waiting(next)
      BY DEF Committing, Waiting
    <2>2. TryAppend(e, next)
      BY <1>5 DEF StartSession
    <2> HIDE DEF e, next
    <2> QED BY <2>1, <2>2, PlainAppend
  <1>6. ASSUME NEW env, Message(env) PROVE TimelyInv'
    <2>1. /\ op.pc # "commit" /\ sess # NoSession /\ UNCHANGED sess
          /\ ~(now > sess.ttl_expiry)
      BY <1>6 DEF Message, Locked, Idle, memory, DeadlinePassed
    <2>2. ASSUME NEW syn \in Synthetics(sess, now), AppendSynthetic(syn, env, now) PROVE TimelyInv'
      BY <2>1, <2>2, SyntheticTimely
    <2> QED BY <1>3, <1>6, <2>2 DEF Message
  <1>7. CASE DispatchTrigger
    BY <1>1, <1>3, <1>7 DEF DispatchTrigger, Idle
  <1>8. ASSUME NEW what, Control(what) PROVE TimelyInv'
    BY <1>1, <1>4, <1>8 DEF Control, Idle
  <1>9. CASE ExpireAppend \/ CancelAppend \/ SuspendAppend \/ ResumeAppend
    BY <1>1, <1>4, <1>9 DEF ExpireAppend, CancelAppend, SuspendAppend, ResumeAppend, Idle
  <1>10. CASE Cleanup
    BY <1>2, <1>4, <1>10 DEF Cleanup, memory
  <1>11. CASE Sweep
    <2>1. op.pc # "commit" /\ UNCHANGED sess
      BY <1>11 DEF Sweep, Visit, Idle, memory
    <2>2. ASSUME NEW syn \in Synthetics(sess, maint.at), AppendSynthetic(syn, NoEnvelope, maint.at)
          PROVE  TimelyInv'
      <3>1. sess # NoSession
        BY <2>2 DEF Synthetics, NoSession
      <3> QED BY <2>1, <2>2, <3>1, SyntheticTimely
    <2> QED BY <1>2, <1>11, <2>1, <2>2 DEF Sweep
  <1>12. CASE Evict \/ Crash \/ Shutdown
    BY <1>1, <1>12 DEF Evict, Visit, Crash, Shutdown, Stop, Idle
  <1>13. CASE Commit
    <2>1. /\ op.pc = "commit" /\ sess' = Committed(sess, op)
          /\ op'.pc = "finish" /\ op'.what = op.what /\ op'.env = op.env /\ op'.at = op.at
      BY <1>13 DEF Commit, Finishing
    <2> QED BY <2>1 DEF TimelyInv, OnTime, Waiting
  <1>14. CASE Finish
    <2>1. op.pc = "finish" /\ sess' = sess /\ op' = IF Waiting(op) THEN Dispatching(op) ELSE Idle
      BY <1>14 DEF Finish, Waiting
    <2>2. op'.pc = "idle" \/ (op'.pc = "dispatch" /\ op'.at = op.at /\ Waiting(op))
      BY <2>1 DEF Dispatching, Idle
    <2> QED BY <2>1, <2>2 DEF TimelyInv, OnTime
  <1>15. ASSUME NEW env, Duplicate(env) \/ MessageExpired(env) PROVE TimelyInv'
    BY <1>1, <1>2, <1>15 DEF Duplicate, MessageExpired, memory
  <1>16. CASE BeginPass \/ Tick \/ UNCHANGED vars
    BY <1>2, <1>16 DEF BeginPass, Tick, vars, memory
  <1>17. CASE ReplayFromCheckpoint \/ ReplayFromStart \/ RecoverNothing \/ ReplayStep \/ RecoverDone
    BY <1>1, <1>2, <1>17 DEF ReplayFromCheckpoint, ReplayFromStart, RecoverNothing, ReplayStep,
                            RecoverDone, Replaying, Idle, memory
  <1> QED BY <1>5, <1>6, <1>7, <1>8, <1>9, <1>10, <1>11, <1>12, <1>13, <1>14, <1>15, <1>16, <1>17,
             NoneDropped DEF Next

\* An append puts its entry at the end of the log, and into history when it
\* carries an envelope.
LEMMA AppendedEntry ==
    ASSUME IInv, Reliance, NEW e, NEW next, TryAppend(e, next), Accepts
    PROVE  Accepted = e /\ IsIncoming(e)
  <1>1. AppendDurable(e)
    BY TryAppendOutcome DEF Accepts, durable
  <1>2. log' = Append(log, e) /\ IsSeq(log) /\ IsIncoming(e)
    BY <1>1 DEF AppendDurable, IInv, LogInv, Accepts
  <1>3. Len(log') = Len(log) + 1 /\ log'[Len(log) + 1] = e
    BY <1>2, AppendIsSeq
  <1> QED BY <1>2, <1>3 DEF Accepted

\* The append of a message that is in time and before which nothing is due.
LEMMA MessageAccepted ==
    ASSUME IInv, Reliance, NEW env, NEW at, AppendMessage(env, at), Accepts,
           op.pc # "commit", sess # NoSession, sess.state = "Open",
           ~(at > sess.ttl_expiry), Synthetics(sess, at) = {}
    PROVE  InTime /\ NothingDueBefore
  <1>1. dur = sess
    BY ServedExactly
  <1>2. Accepted = IncomingEntry(env, at)
    BY AppendedEntry DEF AppendMessage
  <1>3. Accepted.at = at
    BY <1>2 DEF IncomingEntry
  <1> QED BY <1>1, <1>3 DEF InTime, NothingDueBefore

\* The append of an envelope that is due.
LEMMA SyntheticAppended ==
    ASSUME IInv, Reliance, OneAtATime(Kept), NEW at, NEW syn \in Synthetics(sess, at), NEW trigger,
           AppendSynthetic(syn, trigger, at), Accepts, op.pc # "commit"
    PROVE  InTime /\ NothingDueBefore
  <1>1. sess.state = "Open" /\ sess # NoSession
    BY DEF Synthetics, NoSession
  <1>2. dur = sess
    BY <1>1, ServedExactly
  <1>3. Accepted = IncomingEntry(syn, syn.timestamp)
    BY AppendedEntry DEF AppendSynthetic
  <1>4. IsSynthetic(Accepted)
    BY <1>3 DEF IsSynthetic, IncomingEntry, OneAtATime
  <1> QED BY <1>1, <1>2, <1>4 DEF InTime, NothingDueBefore

\* The entries of the other operations carry no envelope.
LEMMA InternalAccepts ==
    ASSUME IInv, Reliance, NEW type, NEW at, NEW next, TryAppend(InternalEntry(type, at), next)
    PROVE  ~Accepts
  <1>1. ~IsIncoming(InternalEntry(type, at))
    BY DEF InternalEntry, IsIncoming
  <1> QED BY <1>1, AppendedEntry

\* Whatever step accepts an envelope does it in time and in turn.
LEMMA AcceptsStep ==
    ASSUME IInv, KeptInv, TimelyInv, Reliance, OneAtATime(Kept), [Next]_vars, Accepts
    PROVE  InTime /\ NothingDueBefore
  <1> DEFINE Goal == InTime /\ NothingDueBefore
  <1>1. ASSUME UNCHANGED hist PROVE FALSE
    BY <1>1 DEF Accepts
  <1>2. ASSUME NEW env \in StartEnvelopes, StartSession(env) PROVE Goal
    <2>1. IsSeq(replayed) /\ Len(replayed) = 0
      BY <1>2 DEF StartSession, StartReserved, Reliance, IInv, LogInv
    <2> QED BY <2>1, AppendIsSeq DEF dur, Accepts
  <1>3. ASSUME NEW env, Message(env) PROVE Goal
    <2>1. /\ op.pc # "commit" /\ sess # NoSession /\ sess.state = "Open" /\ ~(now > sess.ttl_expiry)
      BY <1>3 DEF Message, Locked, Idle, DeadlinePassed
    <2>2. CASE Synthetics(sess, now) = {}
      BY <1>3, <2>1, <2>2, MessageAccepted DEF Message
    <2>3. CASE Synthetics(sess, now) # {}
      BY <1>3, <2>1, <2>3, SyntheticAppended DEF Message
    <2> QED BY <2>2, <2>3
  <1>4. CASE DispatchTrigger
    <2>1. /\ op.pc = "dispatch" /\ sess # NoSession /\ sess.state = "Open"
          /\ ~(op.at > sess.ttl_expiry) /\ Synthetics(sess, op.at) = {}
      BY <1>4 DEF DispatchTrigger, IInv, Shape, TriggerInv, Dispatchable, TimelyInv, OnTime
    <2> QED BY <1>1, <1>4, <2>1, MessageAccepted DEF DispatchTrigger, durable
  <1>5. ASSUME NEW what, Control(what) PROVE Goal
    BY <1>1, <1>5, InternalAccepts DEF Control, durable
  <1>6. CASE ExpireAppend \/ CancelAppend \/ SuspendAppend \/ ResumeAppend \/ Cleanup
    BY <1>1, <1>6, InternalAccepts
       DEF ExpireAppend, CancelAppend, SuspendAppend, ResumeAppend, Cleanup, durable
  <1>7. CASE Sweep
    <2>1. op.pc # "commit"
      BY <1>7 DEF Sweep, Visit, Idle
    <2> QED BY <1>1, <1>7, <2>1, SyntheticAppended DEF Sweep, durable
  <1>8. CASE Finish
    <2>1. ~IsIncoming(CheckpointEntry(sess, 0))
      BY DEF CheckpointEntry, IsIncoming
    <2>2. UNCHANGED hist
      BY <1>8, <2>1 DEF Finish, CompactOrCheckpoint, MaybeInsertCheckpoint, ForceCheckpoint, Compact,
                        AppendDurable, durable
    <2> QED BY <1>1, <2>2
  <1>9. ASSUME NEW env, Duplicate(env) \/ MessageExpired(env) PROVE Goal
    BY <1>1, <1>9 DEF Duplicate, MessageExpired, durable
  <1>10. CASE BeginPass \/ Evict \/ Commit \/ Crash \/ Shutdown \/ Tick \/ UNCHANGED vars
    BY <1>1, <1>10 DEF BeginPass, Evict, Commit, Crash, Shutdown, Stop, Tick, vars, durable
  <1>11. CASE \/ ReplayFromCheckpoint \/ ReplayFromStart \/ RecoverNothing
              \/ ReplayStep \/ RecoverDone
    BY <1>1, <1>11 DEF ReplayFromCheckpoint, ReplayFromStart, RecoverNothing, ReplayStep, RecoverDone,
                      durable
  <1> QED BY <1>2, <1>3, <1>4, <1>5, <1>6, <1>7, <1>8, <1>9, <1>10, <1>11, NoneDropped DEF Next

\* An envelope is accepted in its time and its turn (process_message,
\* synthesize_due_accept), for every mode that owes one envelope at a time:
\* also the message that waits behind a synthetic accept, which nobody checks
\* again, through failed appends, crashes and recoveries.
THEOREM InTimeTheorem == ASSUME Reliance, OneAtATime(Kept) PROVE Spec => AcceptedInTime
  <1>1. Init => IInv /\ KeptInv /\ TimelyInv
    <2>1. Init => KeptInv /\ TimelyInv
      BY DEF Init, KeptInv, TimelyInv, dur, Idle
    <2> QED BY <2>1, InitEstablishes
  <1>2. IInv /\ KeptInv /\ TimelyInv /\ [Next]_vars => (IInv /\ KeptInv /\ TimelyInv)'
    BY NextPreserves, KeptStep, TimelyStep
  <1>3. IInv /\ KeptInv /\ TimelyInv /\ [Next]_vars => [Accepts => InTime /\ NothingDueBefore]_vars
    BY AcceptsStep
  <1> QED BY <1>1, <1>2, <1>3, PTL DEF Spec, AcceptedInTime

-----------------------------------------------------------------------------
(* What is served while the process runs.  Here requests may be dropped at *)
(* any await, storage may report an error behind a write, and an id may be *)
(* started again: the log and the session being served then differ from    *)
(* the durable ones, and stay consistent with each other.                  *)

\* A session, its in-memory log and the durable history beside it: nothing is
\* in the log twice, and whatever is in it holds its slot and is on disk.
Consistent(s, entries, h) ==
    /\ IsSeq(entries)
    /\ \A i, j \in IncomingIn(entries) : entries[i].env.id = entries[j].env.id => i = j
    /\ \A i \in IncomingIn(entries) :
          s # NoSession /\ entries[i].env.id \in s.seen_message_ids /\ entries[i].env.id \in ToSet(h)

\* What the handler o, past its append, is about to do to s: nothing to a
\* terminal session, and the envelope it commits is a new one, whose slot it
\* takes; so is the one that waits behind a synthetic accept.
Claims(s, o) ==
    /\ o.entry.kind \in {"Incoming", "Internal"}
    /\ ~IsTerminal(s)
    /\ IF o.what = "start" THEN s = NoSession ELSE IsSession(s)
    /\ o.what \in {"start", "message"} => o.entry.env.id = o.env.id
    /\ o.what \notin {"start", "message", "synthetic"} => ~IsIncoming(o.entry)
    /\ IsIncoming(o.entry) /\ s # NoSession => o.entry.env.id \notin s.seen_message_ids
    /\ Waiting(o) =>
          /\ s.state = "Open" /\ o.resp.kind # "PersistAndResolve"
          /\ o.env.id \notin s.seen_message_ids \cup {o.entry.env.id}

\* The message behind a synthetic accept is a new one of an Open session.
Awaited(s, o) == s.state = "Open" /\ o.env.id \notin s.seen_message_ids

ServingInv ==
    /\ alive = TRUE /\ crashes = 0
    /\ op.pc \in {"idle", "expire", "control", "dispatch", "commit", "finish"}
    /\ sess = NoSession \/ IsSession(sess)
    /\ op.pc \notin {"idle", "commit"} => sess # NoSession
    /\ IsSeq(hist)
    /\ Consistent(sess, memlog, hist)
    /\ op.pc = "commit" =>
          Claims(sess, op) /\ (IsIncoming(op.entry) => op.entry.env.id \in ToSet(hist))
    /\ op.pc = "dispatch" \/ (op.pc = "finish" /\ Waiting(op)) => Awaited(sess, op)

\* The process runs on, and the mode's own envelopes leave its session Open
\* and carry the runtime's ids.
Running == MaxCrashes = 0 /\ ModeContract /\ OwnIds

\* An append to the log leaves what was in history there.
LEMMA HistoryGrows ==
    ASSUME IsSeq(hist), NEW e, AppendDurable(e)
    PROVE  /\ IsSeq(hist') /\ ToSet(hist) \subseteq ToSet(hist')
           /\ IsIncoming(e) => e.env.id \in ToSet(hist')
  <1>1. CASE IsIncoming(e)
    <2> DEFINE id == e.env.id
    <2>1. hist' = Append(hist, id)
      BY <1>1 DEF AppendDurable
    <2> HIDE DEF id
    <2>2. /\ IsSeq(hist') /\ Len(hist) \in Nat /\ DOMAIN hist = 1 .. Len(hist)
          /\ DOMAIN hist' = 1 .. Len(hist) + 1 /\ hist'[Len(hist) + 1] = id
          /\ \A i \in 1 .. Len(hist) : hist'[i] = hist[i]
      BY <2>1, AppendIsSeq
    <2>3. \A i \in DOMAIN hist : i \in DOMAIN hist' /\ hist'[i] = hist[i]
      BY <2>2
    <2>4. Len(hist) + 1 \in DOMAIN hist'
      BY <2>2
    <2>5. ToSet(hist) \subseteq ToSet(hist') /\ id \in ToSet(hist')
      BY <2>2, <2>3, <2>4 DEF ToSet
    <2> QED BY <2>2, <2>5 DEF id
  <1>2. CASE ~IsIncoming(e)
    BY <1>2 DEF AppendDurable
  <1> QED BY <1>1, <1>2

\* A longer history and an unchanged log and session stay consistent.
LEMMA ConsistentGrows ==
    ASSUME NEW s, NEW entries, NEW h, NEW g, Consistent(s, entries, h), ToSet(h) \subseteq ToSet(g)
    PROVE  Consistent(s, entries, g)
  BY DEF Consistent

\* A step that leaves memory alone and no handler past its append.
LEMMA ServingRests ==
    ASSUME ServingInv, UNCHANGED <<alive, crashes, sess, memlog>>,
           hist' = hist \/ \E e : AppendDurable(e),
           \/ op' = op
           \/ op'.pc = "idle" \/ (op'.pc \in {"expire", "control"} /\ sess # NoSession)
    PROVE  ServingInv'
  <1>1. IsSeq(hist') /\ ToSet(hist) \subseteq ToSet(hist')
    BY HistoryGrows DEF ServingInv
  <1>2. Consistent(sess', memlog', hist')
    BY <1>1, ConsistentGrows DEF ServingInv
  <1>3. CASE op' = op
    BY <1>1, <1>2, <1>3 DEF ServingInv
  <1>4. CASE op'.pc \in {"idle", "expire", "control"}
    BY <1>1, <1>2, <1>4 DEF ServingInv
  <1> QED BY <1>3, <1>4

\* A handler appends: it goes on to its commit, or gives up, whether or not
\* the entry was written.
LEMMA ServingAppends ==
    ASSUME ServingInv, UNCHANGED <<alive, crashes, sess, memlog>>,
           NEW e, NEW next, TryAppend(e, next), next.pc = "commit", next.entry = e,
           Claims(sess, next)
    PROVE  ServingInv'
  <1>1. CASE AppendDurable(e) /\ op' = next
    <2>1. IsSeq(hist') /\ ToSet(hist) \subseteq ToSet(hist') /\ (IsIncoming(e) => e.env.id \in ToSet(hist'))
      BY <1>1, HistoryGrows DEF ServingInv
    <2>2. Consistent(sess', memlog', hist')
      BY <2>1, ConsistentGrows DEF ServingInv
    <2>3. Claims(sess', op')
      BY <1>1
    <2> QED BY <1>1, <2>1, <2>2, <2>3 DEF ServingInv
  <1>2. CASE op' = Idle /\ (AppendDurable(e) \/ UNCHANGED durable)
    <2>1. op'.pc = "idle" /\ (hist' = hist \/ \E x : AppendDurable(x))
      BY <1>2 DEF Idle, durable
    <2> QED BY <2>1, ServingRests
  <1> QED BY <1>1, <1>2 DEF TryAppend

\* The entry of an operation that carries no envelope.
LEMMA ServingInternal ==
    ASSUME ServingInv, UNCHANGED <<alive, crashes, sess, memlog>>, sess # NoSession, ~IsTerminal(sess),
           NEW type, NEW what, NEW at, what \notin {"start", "message", "synthetic"},
           TryAppend(InternalEntry(type, at),
                     Committing(what, NoEnvelope, at, InternalEntry(type, at), NoOp))
    PROVE  ServingInv'
  <1> DEFINE e == InternalEntry(type, at)
             next == Committing(what, NoEnvelope, at, e, NoOp)
  <1>1. e.kind = "Internal" /\ ~IsIncoming(e)
    BY DEF InternalEntry, IsIncoming
  <1>2. next.pc = "commit" /\ next.entry = e /\ next.what = what /\ ~Waiting(next)
    BY DEF Committing, Waiting
  <1>3. TryAppend(e, next)
    OBVIOUS
  <1> HIDE DEF e, next
  <1>4. Claims(sess, next)
    BY <1>1, <1>2 DEF Claims, ServingInv
  <1> QED BY <1>2, <1>3, <1>4, ServingAppends

\* A client's message that is new.
LEMMA ServingMessage ==
    ASSUME ServingInv, UNCHANGED <<alive, crashes, sess, memlog>>, sess # NoSession, ~IsTerminal(sess),
           NEW env, NEW at, AppendMessage(env, at), env.id \notin sess.seen_message_ids
    PROVE  ServingInv'
  <1> DEFINE e == IncomingEntry(env, at)
             next == Committing("message", env, at, e, OnMessageAt(sess, env, at))
  <1>1. e.kind = "Incoming" /\ e.env = env
    BY DEF IncomingEntry
  <1>2. next.pc = "commit" /\ next.entry = e /\ next.what = "message" /\ next.env = env /\ ~Waiting(next)
    BY DEF Committing, Waiting
  <1>3. TryAppend(e, next)
    BY DEF AppendMessage
  <1> HIDE DEF e, next
  <1>4. Claims(sess, next)
    BY <1>1, <1>2 DEF Claims, ServingInv
  <1> QED BY <1>2, <1>3, <1>4, ServingAppends

\* An envelope that is due.
LEMMA ServingSynthetic ==
    ASSUME ServingInv, Running, UNCHANGED <<alive, crashes, sess, memlog>>, sess # NoSession,
           NEW at, NEW syn \in Synthetics(sess, at), NEW trigger, AppendSynthetic(syn, trigger, at),
           trigger # NoEnvelope => trigger.id \notin sess.seen_message_ids /\ trigger.id # syn.id
    PROVE  ServingInv'
  <1> DEFINE e == IncomingEntry(syn, syn.timestamp)
             resp == SyntheticResponse(sess, syn)
             next == [Committing("synthetic", syn, at, e, resp) EXCEPT !.env = trigger]
  <1>1. /\ e.kind = "Incoming" /\ e.env = syn
        /\ syn.id \notin sess.seen_message_ids /\ sess.state = "Open" /\ ~IsTerminal(sess)
    BY DEF IncomingEntry, Synthetics, IsTerminal, TerminalStates
  <1>2. /\ next.pc = "commit" /\ next.entry = e /\ next.env = trigger
        /\ next.what = "synthetic" /\ next.resp = resp
    BY DEF Committing
  <1>3. TryAppend(e, next)
    BY DEF AppendSynthetic
  <1>4. resp.kind # "PersistAndResolve"
    BY DEF Running, ModeContract
  <1> HIDE DEF e, next, resp
  <1>5. Claims(sess, next)
    BY <1>1, <1>2, <1>4 DEF Claims, ServingInv, Waiting
  <1> QED BY <1>2, <1>3, <1>5, ServingAppends

\* What a commit makes of the session: a session with every slot it had and
\* the one of the envelope; and it stays Open below a message that waits.
LEMMA ClaimKept ==
    ASSUME NEW s, NEW o, Claims(s, o)
    PROVE  /\ IsSession(Committed(s, o))
           /\ s # NoSession => s.seen_message_ids \subseteq Committed(s, o).seen_message_ids
           /\ IsIncoming(o.entry) => o.entry.env.id \in Committed(s, o).seen_message_ids
           /\ Waiting(o) => Awaited(Committed(s, o), o)
  <1>1. ASSUME NEW t, IsSession(t), NEW id, NEW resp
        PROVE  /\ IsSession(ApplyModeResponse(TakeDedupSlot(t, id), resp))
               /\ ApplyModeResponse(TakeDedupSlot(t, id), resp).seen_message_ids = t.seen_message_ids \cup {id}
               /\ resp.kind # "PersistAndResolve" =>
                     ApplyModeResponse(TakeDedupSlot(t, id), resp).state = t.state
    <2>1. IsSession(ApplyModeResponse(TakeDedupSlot(t, id), resp))
      BY <1>1, TakeIsSession, ApplyIsSession
    <2>2. ApplyModeResponse(TakeDedupSlot(t, id), resp).seen_message_ids = t.seen_message_ids \cup {id}
      BY <1>1 DEF ApplyModeResponse, TakeDedupSlot, IsSession
    <2>3. resp.kind # "PersistAndResolve" =>
             ApplyModeResponse(TakeDedupSlot(t, id), resp).state = t.state
      BY <1>1 DEF ApplyModeResponse, TakeDedupSlot, IsSession
    <2> QED BY <2>1, <2>2, <2>3
  <1>2. CASE o.what = "start"
    <2>1. IsSession(BuildSession(o.env, o.at))
      BY DEF BuildSession, IsSession, SessionStates
    <2>2. Committed(s, o) = ApplyModeResponse(TakeDedupSlot(BuildSession(o.env, o.at), o.env.id), OnSessionStart)
      BY <1>2 DEF Committed, AcceptStart
    <2> QED BY <1>1, <1>2, <2>1, <2>2 DEF Claims, Waiting
  <1>3. CASE o.what = "message"
    <2>1. Committed(s, o) = ApplyModeResponse(TakeDedupSlot(s, o.env.id), o.resp)
      BY <1>3 DEF Committed
    <2> QED BY <1>1, <1>3, <2>1 DEF Claims, Waiting
  <1>4. CASE o.what = "synthetic"
    <2>1. Committed(s, o) = ApplyModeResponse(TakeDedupSlot(s, o.entry.env.id), o.resp)
      BY <1>4 DEF Committed
    <2> QED BY <1>1, <1>4, <2>1 DEF Claims, Awaited
  <1>5. CASE o.what \notin {"start", "message", "synthetic"}
    <2>1. IsSession(s) /\ ~IsIncoming(o.entry) /\ ~Waiting(o)
      BY <1>5 DEF Claims, Waiting
    <2>2. /\ Suspend(s, o.at).s.seen_message_ids = s.seen_message_ids
          /\ Cancel(s).s.seen_message_ids = s.seen_message_ids
          /\ Expire(s).s.seen_message_ids = s.seen_message_ids
      BY <2>1 DEF IsSession, Suspend, Cancel, Expire, Ok, Err
    <2>3. Resume(s, o.at).s.seen_message_ids = s.seen_message_ids
      BY <2>1 DEF IsSession, Resume, Ok, Err
    <2>4. /\ [s EXCEPT !.state = "Expired"].seen_message_ids = s.seen_message_ids
          /\ IsSession([s EXCEPT !.state = "Expired"])
      BY <2>1 DEF IsSession, SessionStates
    <2>5. Committed(s, o) \in
             {Cancel(s).s, Suspend(s, o.at).s, Resume(s, o.at).s, [s EXCEPT !.state = "Expired"], Expire(s).s}
      BY <1>5 DEF Committed
    <2> QED BY <2>1, <2>2, <2>3, <2>4, <2>5, ControlIsSession
  <1> QED BY <1>2, <1>3, <1>4, <1>5

\* The commit puts the entry into the log and the session behind it.
LEMMA ServingCommits == ASSUME ServingInv, Commit PROVE ServingInv'
  <1>1. /\ op.pc = "commit" /\ sess' = Committed(sess, op) /\ memlog' = Append(memlog, op.entry)
        /\ op'.pc = "finish" /\ op'.what = op.what /\ op'.env = op.env
        /\ UNCHANGED <<alive, crashes, hist>>
    BY DEF Commit, Finishing, durable
  <1>2. /\ Claims(sess, op) /\ IsSeq(memlog)
        /\ IsIncoming(op.entry) => op.entry.env.id \in ToSet(hist)
    BY <1>1 DEF ServingInv, Consistent
  <1>3. /\ IsSession(sess')
        /\ sess # NoSession => sess.seen_message_ids \subseteq sess'.seen_message_ids
        /\ IsIncoming(op.entry) => op.entry.env.id \in sess'.seen_message_ids
        /\ Waiting(op) => Awaited(sess', op)
    BY <1>1, <1>2, ClaimKept
  <1>4. sess' # NoSession
    BY <1>3 DEF IsSession, NoSession, SessionStates
  <1> DEFINE e == op.entry
             n == Len(memlog)
  <1>5. /\ IsSeq(memlog') /\ n \in Nat /\ DOMAIN memlog = 1 .. n /\ DOMAIN memlog' = 1 .. n + 1
        /\ \A i \in 1 .. n : memlog'[i] = memlog[i]
        /\ memlog'[n + 1] = e
    BY <1>1, <1>2, AppendIsSeq
  <1>6. IsIncoming(e) /\ sess # NoSession => e.env.id \notin sess.seen_message_ids
    BY <1>2 DEF Claims
  <1> HIDE DEF e, n
  <1>7. ASSUME NEW i \in IncomingIn(memlog')
        PROVE  (i \in IncomingIn(memlog) /\ memlog'[i] = memlog[i]) \/ (i = n + 1 /\ IsIncoming(e))
    BY <1>5 DEF IncomingIn
  <1>8. ASSUME NEW i \in IncomingIn(memlog)
        PROVE  /\ sess # NoSession /\ memlog[i].env.id \in sess.seen_message_ids
               /\ memlog[i].env.id \in ToSet(hist)
    BY DEF ServingInv, Consistent
  <1>9. ASSUME NEW i \in IncomingIn(memlog'), NEW j \in IncomingIn(memlog'),
               memlog'[i].env.id = memlog'[j].env.id
        PROVE  i = j
    <2>1. CASE i \in IncomingIn(memlog) /\ memlog'[i] = memlog[i] /\ j \in IncomingIn(memlog) /\ memlog'[j] = memlog[j]
      BY <1>9, <2>1 DEF ServingInv, Consistent
    <2> QED BY <1>5, <1>6, <1>7, <1>8, <1>9, <2>1
  <1>10. ASSUME NEW i \in IncomingIn(memlog')
         PROVE  memlog'[i].env.id \in sess'.seen_message_ids /\ memlog'[i].env.id \in ToSet(hist')
    BY <1>1, <1>2, <1>3, <1>5, <1>7, <1>8 DEF e
  <1>11. Consistent(sess', memlog', hist')
    BY <1>4, <1>5, <1>9, <1>10 DEF Consistent
  <1>12. Waiting(op') => Awaited(sess', op')
    BY <1>1, <1>3 DEF Waiting, Awaited
  <1> QED BY <1>1, <1>3, <1>4, <1>11, <1>12 DEF ServingInv

\* A checkpoint behind the log, or in place of it, is no envelope.
LEMMA CheckpointServes ==
    ASSUME NEW s, NEW entries, NEW h, Consistent(s, entries, h),
           NEW c, c.kind = "Checkpoint", NEW more, more \in {<<c>>, Append(entries, c)}
    PROVE  Consistent(s, more, h)
  <1>1. ~IsIncoming(c)
    BY DEF IsIncoming
  <1>2. CASE more = <<c>>
    <2>1. IsSeq(more) /\ DOMAIN more = {1} /\ more[1] = c
      BY <1>2, OneIsSeq
    <2> QED BY <1>1, <2>1 DEF Consistent, IncomingIn
  <1>3. CASE more = Append(entries, c)
    <2>1. /\ IsSeq(more) /\ Len(entries) \in Nat /\ DOMAIN entries = 1 .. Len(entries)
          /\ DOMAIN more = 1 .. Len(entries) + 1
          /\ \A i \in 1 .. Len(entries) : more[i] = entries[i]
          /\ more[Len(entries) + 1] = c
      BY <1>3, AppendIsSeq DEF Consistent
    <2>2. \A i \in IncomingIn(more) : i \in IncomingIn(entries) /\ more[i] = entries[i]
      BY <1>1, <2>1 DEF IncomingIn
    <2> QED BY <2>1, <2>2 DEF Consistent
  <1> QED BY <1>2, <1>3

\* Finishing writes a checkpoint at most, and turns to the message that waits.
LEMMA ServingFinishes == ASSUME ServingInv, Finish PROVE ServingInv'
  <1> DEFINE c == CheckpointEntry(sess, 0)
             d == CheckpointEntry(sess, HighWater(memlog))
  <1>1. c.kind = "Checkpoint" /\ d.kind = "Checkpoint" /\ ~IsIncoming(c)
    BY DEF CheckpointEntry, IsIncoming
  <1>2. op.pc = "finish" /\ UNCHANGED <<alive, crashes, sess>>
    BY DEF Finish
  <1>3. ASSUME ForceCheckpoint
        PROVE  hist' = hist /\ memlog' \in {memlog, Append(memlog, c)}
    BY <1>1, <1>3 DEF ForceCheckpoint, AppendDurable, durable
  <1>4. ASSUME Compact PROVE hist' = hist /\ memlog' = <<d>>
    BY <1>4 DEF Compact
  <1>5. hist' = hist /\ memlog' \in {memlog, Append(memlog, c), <<d>>}
    BY <1>3, <1>4 DEF Finish, CompactOrCheckpoint, MaybeInsertCheckpoint, durable
  <1> HIDE DEF c, d
  <1>6. Consistent(sess', memlog', hist')
    BY <1>1, <1>2, <1>5, CheckpointServes DEF ServingInv
  <1>7. CASE op.what = "synthetic" /\ op.env # NoEnvelope
    <2>1. op'.pc = "dispatch" /\ op'.env = op.env
      BY <1>7 DEF Finish, Dispatching
    <2>2. Awaited(sess', op')
      BY <1>2, <1>7, <2>1 DEF ServingInv, Waiting, Awaited
    <2> QED BY <1>2, <1>5, <1>6, <2>1, <2>2 DEF ServingInv
  <1>8. CASE ~(op.what = "synthetic" /\ op.env # NoEnvelope)
    <2>1. op'.pc = "idle"
      BY <1>8 DEF Finish, Idle
    <2> QED BY <1>2, <1>5, <1>6, <2>1 DEF ServingInv
  <1> QED BY <1>7, <1>8

\* A request is dropped, a start with the session of its reservation.
LEMMA ServingDrops ==
    ASSUME ServingInv, Abandon \/ \E env : AbandonStart(env)
    PROVE  ServingInv' /\ (sess # NoSession => sess' = sess)
  <1>1. ASSUME NEW s, IsSession(s), sess = NoSession, sess' = s, op'.pc = "idle",
               UNCHANGED <<alive, crashes, memlog, durable>>
        PROVE  ServingInv'
    <2>1. hist' = hist
      BY <1>1 DEF durable
    <2>2. Consistent(sess', memlog', hist')
      BY <1>1, <2>1 DEF ServingInv, Consistent
    <2> QED BY <1>1, <2>1, <2>2 DEF ServingInv
  <1>2. CASE Abandon
    <2>1. op'.pc = "idle" /\ UNCHANGED <<alive, crashes, memlog, durable>>
      BY <1>2 DEF Abandon, Idle
    <2>2. CASE op.pc = "commit" /\ op.what = "start"
      <3>1. Claims(sess, op) /\ sess = NoSession /\ sess' = Committed(sess, op)
        BY <1>2, <2>2 DEF Abandon, ServingInv, Claims
      <3> QED BY <1>1, <2>1, <3>1, ClaimKept
    <2>3. CASE ~(op.pc = "commit" /\ op.what = "start")
      <3>1. sess' = sess /\ hist' = hist
        BY <1>2, <2>1, <2>3 DEF Abandon, durable
      <3> QED BY <2>1, <3>1, ServingRests
    <2> QED BY <2>2, <2>3
  <1>3. ASSUME NEW env, AbandonStart(env) PROVE ServingInv' /\ (sess # NoSession => sess' = sess)
    <2>1. /\ sess = NoSession /\ op' = Idle /\ sess' = AcceptStart(env, now)
          /\ UNCHANGED <<alive, crashes, memlog, durable>>
      BY <1>3 DEF AbandonStart, StartReserved
    <2> QED BY <1>1, <2>1, StartIsSession DEF Idle
  <1> QED BY <1>2, <1>3

\* A start reserves an id that the registry does not hold.
LEMMA ServingStarts ==
    ASSUME ServingInv, NEW env, StartSession(env)
    PROVE  ServingInv'
  <1> DEFINE e == IncomingEntry(env, now)
             next == Committing("start", env, now, e, NoOp)
  <1>1. e.kind = "Incoming" /\ e.env = env
    BY DEF IncomingEntry
  <1>2. next.pc = "commit" /\ next.entry = e /\ next.what = "start" /\ next.env = env /\ ~Waiting(next)
    BY DEF Committing, Waiting
  <1>3. TryAppend(e, next) /\ sess = NoSession /\ UNCHANGED <<alive, crashes, sess, memlog>>
    BY DEF StartSession, StartReserved, memory
  <1> HIDE DEF e, next
  <1>4. Claims(sess, next)
    BY <1>1, <1>2, <1>3 DEF Claims, IsTerminal, TerminalStates, NoSession
  <1> QED BY <1>2, <1>3, <1>4, ServingAppends

\* What the handlers do before their commit leaves what is served alone.
LEMMA ServingHandles ==
    ASSUME ServingInv, Running,
           \/ \E env \in ClientEnvelopes : Message(env)
           \/ DispatchTrigger
           \/ \E what \in {"get", "cancel", "suspend"} : Control(what)
           \/ ExpireAppend \/ CancelAppend \/ SuspendAppend \/ ResumeAppend
           \/ Cleanup \/ Sweep
    PROVE  ServingInv' /\ sess' = sess
  <1>0. UNCHANGED <<alive, crashes, sess, memlog>>
    BY DEF Message, DispatchTrigger, Control, ExpireAppend, CancelAppend, SuspendAppend,
           ResumeAppend, Cleanup, Sweep, memory
  <1>h. UNCHANGED durable => hist' = hist
    BY DEF durable
  <1>i. Idle.pc = "idle"
    BY DEF Idle
  <1>1. ASSUME NEW env \in ClientEnvelopes, Message(env) PROVE ServingInv'
    <2>1. /\ sess # NoSession /\ ~IsTerminal(sess)
          /\ env.id \notin sess.seen_message_ids /\ ValidateClientEnvelope(sess, env)
      BY <1>1 DEF Message, Locked, IsTerminal, TerminalStates
    <2>2. CASE AppendMessage(env, now)
      BY <1>0, <2>1, <2>2, ServingMessage
    <2>3. ASSUME NEW syn \in Synthetics(sess, now), AppendSynthetic(syn, env, now) PROVE ServingInv'
      <3>1. env.id # syn.id
        BY <2>1 DEF Running, OwnIds
      <3> QED BY <1>0, <2>1, <2>3, <3>1, ServingSynthetic
    <2> QED BY <1>1, <2>2, <2>3 DEF Message
  <1>2. CASE DispatchTrigger
    <2>1. op.pc = "dispatch" /\ sess # NoSession /\ Awaited(sess, op) /\ ~IsTerminal(sess)
      BY <1>2 DEF DispatchTrigger, ServingInv, Awaited, IsTerminal, TerminalStates
    <2>2. CASE op' = Idle /\ UNCHANGED durable
      BY <1>0, <1>h, <1>i, <2>2, ServingRests
    <2>3. CASE AppendMessage(op.env, op.at)
      BY <1>0, <2>1, <2>3, ServingMessage DEF Awaited
    <2> QED BY <1>2, <2>2, <2>3 DEF DispatchTrigger
  <1>3. ASSUME NEW what \in {"get", "cancel", "suspend"}, Control(what) PROVE ServingInv'
    <2>1. sess # NoSession
      BY <1>3 DEF Control, Locked
    <2>2. CASE DeadlinePassed(sess, now)
      <3> DEFINE w == IF what = "suspend" THEN "expire-unsaved" ELSE "expire"
      <3>1. TryAppend(InternalEntry("TtlExpired", now),
                      Committing(w, NoEnvelope, now, InternalEntry("TtlExpired", now), NoOp))
        BY <1>3, <2>2 DEF Control
      <3>2. w \notin {"start", "message", "synthetic"} /\ ~IsTerminal(sess)
        BY <2>2 DEF DeadlinePassed, IsTerminal, TerminalStates
      <3> HIDE DEF w
      <3> QED BY <1>0, <2>1, <3>1, <3>2, ServingInternal
    <2>3. CASE ~DeadlinePassed(sess, now)
      <3>1. hist' = hist /\ (op'.pc = "idle" \/ op'.pc = "control")
        BY <1>3, <1>h, <1>i, <2>3 DEF Control
      <3> QED BY <1>0, <2>1, <3>1, ServingRests
    <2> QED BY <2>2, <2>3
  <1>4. CASE ExpireAppend
    <2>1. sess # NoSession
      BY <1>4 DEF ExpireAppend, ServingInv
    <2>2. CASE DeadlinePassed(sess, now)
      <3>1. ~IsTerminal(sess)
        BY <2>2 DEF DeadlinePassed, IsTerminal, TerminalStates
      <3>2. TryAppend(InternalEntry("TtlExpired", now),
                      Committing("expire", NoEnvelope, now, InternalEntry("TtlExpired", now), NoOp))
        BY <1>4, <2>2 DEF ExpireAppend
      <3> QED BY <1>0, <2>1, <3>1, <3>2, ServingInternal
    <2>3. CASE ~DeadlinePassed(sess, now)
      <3>1. hist' = hist /\ op'.pc = "idle"
        BY <1>4, <1>h, <1>i, <2>3 DEF ExpireAppend
      <3> QED BY <1>0, <3>1, ServingRests
    <2> QED BY <2>2, <2>3
  <1>5. CASE CancelAppend
    <2>1. sess # NoSession
      BY <1>5 DEF CancelAppend, ServingInv
    <2>2. CASE IsTerminal(sess)
      <3>1. hist' = hist /\ op'.pc = "idle"
        BY <1>5, <1>h, <1>i, <2>2 DEF CancelAppend
      <3> QED BY <1>0, <3>1, ServingRests
    <2>3. CASE ~IsTerminal(sess)
      BY <1>0, <1>5, <2>1, <2>3, ServingInternal DEF CancelAppend
    <2> QED BY <2>2, <2>3
  <1>6. CASE SuspendAppend
    <2>1. sess # NoSession
      BY <1>6 DEF SuspendAppend, ServingInv
    <2>2. CASE sess.state # "Open"
      <3>1. hist' = hist /\ op'.pc = "idle"
        BY <1>6, <1>h, <1>i, <2>2 DEF SuspendAppend
      <3> QED BY <1>0, <3>1, ServingRests
    <2>3. CASE sess.state = "Open"
      BY <1>0, <1>6, <2>1, <2>3, ServingInternal DEF SuspendAppend, IsTerminal, TerminalStates
    <2> QED BY <2>2, <2>3
  <1>7. CASE ResumeAppend
    BY <1>0, <1>7, ServingInternal DEF ResumeAppend, Locked, IsTerminal, TerminalStates
  <1>8. CASE Cleanup
    <2>1. CASE UNCHANGED <<durable, op>>
      BY <1>0, <1>h, <2>1, ServingRests
    <2>2. CASE sess.state = "Open" /\ maint.at > sess.ttl_expiry
      BY <1>0, <1>8, <2>2, ServingInternal DEF Cleanup, NoSession, IsTerminal, TerminalStates
    <2> QED BY <1>8, <2>1, <2>2 DEF Cleanup
  <1>9. CASE Sweep
    <2>1. CASE UNCHANGED <<durable, op>>
      BY <1>0, <1>h, <2>1, ServingRests
    <2>2. ASSUME NEW syn \in Synthetics(sess, maint.at), AppendSynthetic(syn, NoEnvelope, maint.at)
          PROVE  ServingInv'
      <3>1. sess # NoSession
        BY <2>2 DEF Synthetics, NoSession
      <3> QED BY <1>0, <2>2, <3>1, ServingSynthetic
    <2> QED BY <1>0, <1>9, <2>1, <2>2 DEF Sweep
  <1> QED BY <1>0, <1>1, <1>2, <1>3, <1>4, <1>5, <1>6, <1>7, <1>8, <1>9

\* The invariant is inductive, and a terminal session stays as it is.
LEMMA ServingStep ==
    ASSUME ServingInv, Running, [Next]_vars
    PROVE  /\ ServingInv'
           /\ (IsSession(sess) /\ IsTerminal(sess) /\ sess' # NoSession) => sess'.state = sess.state
  <1> DEFINE Goal == /\ ServingInv'
                     /\ (IsSession(sess) /\ IsTerminal(sess) /\ sess' # NoSession) => sess'.state = sess.state
  <1>1. ASSUME NEW env, StartSession(env) PROVE Goal
    BY <1>1, ServingStarts DEF StartSession, memory
  <1>2. CASE Abandon \/ \E env : AbandonStart(env)
    <2>1. IsSession(sess) => sess # NoSession
      BY DEF IsSession, NoSession, SessionStates
    <2> QED BY <1>2, <2>1, ServingDrops
  <1>3. ASSUME NEW env, Duplicate(env) \/ MessageExpired(env) PROVE Goal
    <2>1. UNCHANGED <<alive, crashes, sess, memlog>> /\ hist' = hist
      BY <1>3 DEF Duplicate, MessageExpired, memory, durable
    <2>2. op' = op \/ (op'.pc = "expire" /\ sess # NoSession)
      BY <1>3 DEF Duplicate, MessageExpired, Locked
    <2> QED BY <2>1, <2>2, ServingRests
  <1>4. CASE \/ \E env \in ClientEnvelopes : Message(env)
             \/ DispatchTrigger
             \/ \E what \in {"get", "cancel", "suspend"} : Control(what)
             \/ ExpireAppend \/ CancelAppend \/ SuspendAppend \/ ResumeAppend
             \/ Cleanup \/ Sweep
    BY <1>4, ServingHandles
  <1>5. CASE Commit
    <2>1. ~IsTerminal(sess)
      BY <1>5 DEF Commit, ServingInv, Claims
    <2> QED BY <1>5, <2>1, ServingCommits
  <1>6. CASE Finish
    BY <1>6, ServingFinishes DEF Finish
  <1>7. CASE Evict
    <2>1. /\ UNCHANGED <<alive, crashes, op, durable>> /\ op.pc = "idle"
          /\ (sess' = NoSession /\ memlog' = <<>>) \/ UNCHANGED <<sess, memlog>>
      BY <1>7 DEF Evict, Visit, Idle
    <2>2. hist' = hist
      BY <2>1 DEF durable
    <2>3. CASE UNCHANGED <<sess, memlog>>
      BY <2>1, <2>2, <2>3, ServingRests
    <2>4. CASE sess' = NoSession /\ memlog' = <<>>
      <3>1. IsSeq(<<>>) /\ DOMAIN <<>> = {}
        BY DEF IsSeq
      <3>2. Consistent(sess', memlog', hist')
        BY <2>4, <3>1 DEF Consistent, IncomingIn
      <3> QED BY <2>1, <2>2, <2>4, <3>2 DEF ServingInv
    <2> QED BY <2>1, <2>3, <2>4
  <1>8. CASE BeginPass \/ Tick \/ UNCHANGED vars
    <2>1. UNCHANGED <<alive, crashes, sess, memlog, op, hist>>
      BY <1>8 DEF BeginPass, Tick, vars, memory, durable
    <2> QED BY <2>1, ServingRests
  <1>9. ~Crash /\ ~Shutdown
    BY DEF Crash, Shutdown, Stop, ServingInv, Running
  <1>10. ~(ReplayFromCheckpoint \/ ReplayFromStart \/ RecoverNothing \/ ReplayStep \/ RecoverDone)
    BY DEF ReplayFromCheckpoint, ReplayFromStart, RecoverNothing, ReplayStep, RecoverDone, ServingInv
  <1> QED BY <1>1, <1>2, <1>3, <1>4, <1>5, <1>6, <1>7, <1>8, <1>9, <1>10 DEF Next

\* What is served stays consistent although requests are dropped at any await
\* and retried, storage errs behind a write and ids are started again: while
\* the process runs, the in-memory log holds no envelope twice and none that
\* the disk does not have, and the session being served never leaves a
\* terminal state (process_message, process_session_start in runtime.rs).
THEOREM ServedTheorem == ASSUME Running PROVE Spec => ServedConsistent
  <1>1. Init => ServingInv
    <2> SUFFICES ASSUME Init PROVE ServingInv
      OBVIOUS
    <2>1. IsSeq(<<>>) /\ DOMAIN <<>> = {}
      BY DEF IsSeq
    <2>2. Consistent(sess, memlog, hist)
      BY <2>1 DEF Init, Consistent, IncomingIn
    <2>3. op.pc = "idle"
      BY DEF Init, Idle
    <2> QED BY <2>1, <2>2, <2>3 DEF Init, ServingInv
  <1>2. ServingInv /\ [Next]_vars => ServingInv'
    BY ServingStep
  <1>3. ServingInv /\ [Next]_vars =>
           [/\ ServedOnce'
            /\ (IsSession(sess) /\ IsTerminal(sess) /\ sess' # NoSession) => sess'.state = sess.state]_vars
    <2>1. ServingInv' => ServedOnce'
      BY DEF ServingInv, Consistent, ServedOnce
    <2> QED BY <2>1, ServingStep
  <1> QED BY <1>1, <1>2, <1>3, PTL DEF Spec, ServedConsistent

-----------------------------------------------------------------------------
(* The deadline.  The log is what the times of a session are read from:    *)
(* the session it replays to has the deadline of its start and the time it *)
(* was suspended for (TimesInv), and what is served and saved is that      *)
(* session, now or earlier.                                                *)

\* The deadline of s is that of a start plus the time it was suspended for.
Banked(s) ==
    s.state \in {"Open", "Suspended"} =>
        \E env \in StartEnvelopes :
            s.ttl_expiry = TtlBase(env, s.started_at_unix_ms) + env.ttl_ms + s.accumulated_suspended_ms

\* The times of s are times.
Timed(s) ==
    /\ s.ttl_expiry \in Int /\ s.started_at_unix_ms \in Int
    /\ s.accumulated_suspended_ms \in Int
    /\ s.state = "Suspended" => s.suspended_at_ms \in Int
    /\ Banked(s)

TimesInv == (dur # NoSession => Timed(dur)) /\ Banked(sess) /\ Banked(snap)

\* A session that differs in its mode's state, its slots or how it ended has
\* the same times.
LEMMA TimesKept ==
    ASSUME NEW s, Timed(s), NEW t,
           t.ttl_expiry = s.ttl_expiry, t.started_at_unix_ms = s.started_at_unix_ms,
           t.accumulated_suspended_ms = s.accumulated_suspended_ms,
           t.state = "Suspended" => t.suspended_at_ms \in Int,
           t.state \in {"Open", "Suspended"} => s.state \in {"Open", "Suspended"}
    PROVE  Timed(t)
  BY DEF Timed, Banked, TtlBase

\* A resume banks the pause in the deadline and in the account of pauses.
LEMMA ResumeBanks ==
    ASSUME NEW s, IsSession(s), Timed(s), NEW at \in Int
    PROVE  Timed(Resume(s, at).s)
  <1> DEFINE from == IF s.suspended_at_ms = NoTime THEN at ELSE s.suspended_at_ms
             banked == Elapsed(from, at)
             t == Resume(s, at).s
  <1>1. s.state = "Suspended" => banked \in Int
    BY DEF Timed, Elapsed
  <1>2. CASE s.state # "Suspended"
    BY <1>2 DEF Resume, Err
  <1>3. CASE s.state = "Suspended"
    <2>1. /\ t.started_at_unix_ms = s.started_at_unix_ms /\ t.suspended_at_ms = NoTime
          /\ t.accumulated_suspended_ms = s.accumulated_suspended_ms + banked
          /\ \/ t.state = "Expired" /\ t.ttl_expiry = s.ttl_expiry
             \/ t.state = "Open" /\ t.ttl_expiry = s.ttl_expiry + banked
      BY <1>3 DEF Resume, Ok, Err, IsSession
    <2> HIDE DEF t, banked
    <2>2. PICK env \in StartEnvelopes :
             s.ttl_expiry = TtlBase(env, s.started_at_unix_ms) + env.ttl_ms + s.accumulated_suspended_ms
      BY <1>3 DEF Timed, Banked
    <2>3. TtlBase(env, s.started_at_unix_ms) \in Int /\ env.ttl_ms \in Int
      BY KernelConstants DEF TtlBase, Timed
    <2>4. /\ t.ttl_expiry \in Int /\ t.started_at_unix_ms \in Int
          /\ t.accumulated_suspended_ms \in Int /\ t.suspended_at_ms \in Int
      BY <1>1, <1>3, <2>1 DEF Timed, NoTime
    <2>5. t.state = "Open" =>
             t.ttl_expiry = TtlBase(env, t.started_at_unix_ms) + env.ttl_ms + t.accumulated_suspended_ms
      <3> DEFINE b == TtlBase(env, s.started_at_unix_ms)
      <3> HIDE DEF b
      <3>1. b \in Int /\ b = TtlBase(env, t.started_at_unix_ms)
        BY <2>1, <2>3 DEF b
      <3>2. s.ttl_expiry = b + env.ttl_ms + s.accumulated_suspended_ms
        BY <2>2 DEF b
      <3>3. s.accumulated_suspended_ms \in Int
        BY DEF Timed
      <3> QED BY <1>1, <1>3, <2>1, <2>3, <3>1, <3>2, <3>3
    <2>6. Banked(t)
      BY <2>1, <2>5 DEF Banked
    <2>7. Timed(t)
      BY <2>4, <2>6 DEF Timed
    <2> QED BY <2>7 DEF t
  <1> QED BY <1>2, <1>3

\* A SessionStart has its own deadline, and no pause yet.
LEMMA StartTimed ==
    ASSUME NEW env \in StartEnvelopes, NEW at \in Int, IsSession(ReplayStart(IncomingEntry(env, at)))
    PROVE  Timed(ReplayStart(IncomingEntry(env, at)))
  <1> DEFINE s == BuildSession(env, at)
             t == ApplyModeResponse(TakeDedupSlot(s, env.id), OnSessionStart)
  <1>1. ReplayStart(IncomingEntry(env, at)) = t
    BY DEF ReplayStart, IncomingEntry, IsSession, Unreplayable, SessionStates
  <1>2. /\ IsSession(s) /\ s.started_at_unix_ms = at /\ s.accumulated_suspended_ms = 0
        /\ s.ttl_expiry = TtlBase(env, at) + env.ttl_ms /\ s.suspended_at_ms = NoTime
    BY DEF BuildSession, IsSession, SessionStates
  <1>3. TtlBase(env, at) \in Int /\ env.ttl_ms \in Int
    BY KernelConstants DEF TtlBase
  <1>4. /\ t.started_at_unix_ms = s.started_at_unix_ms
        /\ t.accumulated_suspended_ms = s.accumulated_suspended_ms
        /\ t.ttl_expiry = s.ttl_expiry /\ t.suspended_at_ms = s.suspended_at_ms
    <2> HIDE DEF s
    <2> QED BY <1>2 DEF ApplyModeResponse, TakeDedupSlot, IsSession
  <1> HIDE DEF s, t
  <1>5. t.ttl_expiry = TtlBase(env, t.started_at_unix_ms) + env.ttl_ms + t.accumulated_suspended_ms
    BY <1>2, <1>3, <1>4
  <1>6. Banked(t)
    BY <1>5 DEF Banked
  <1> QED BY <1>1, <1>2, <1>3, <1>4, <1>6 DEF Timed, NoTime

\* Replaying the entry of a handler keeps the times true.
LEMMA ReplayTimed ==
    ASSUME NEW d, IsSession(d), Timed(d), NEW e, IsSession(ReplayAppend(d, e)),
           e.kind = "Incoming" \/ (e.kind = "Internal" /\ e.at \in Int)
    PROVE  Timed(ReplayAppend(d, e))
  <1>1. d # NoSession /\ d # Unreplayable /\ ReplayAppend(d, e) # Unreplayable
    BY DEF IsSession, NoSession, Unreplayable, SessionStates
  <1>2. CASE e.kind = "Incoming"
    <2> DEFINE resp == OnMessageAt(d, e.env, e.at)
               t == ApplyModeResponse(TakeDedupSlot(d, e.env.id), resp)
    <2>1. ReplayAppend(d, e) = ReplayIncoming(d, e)
      BY <1>1, <1>2 DEF ReplayAppend, ReplayEntry
    <2>2. CASE d.state # "Open"
      <3>1. ReplayAppend(d, e) = TakeDedupSlot(d, e.env.id)
        BY <2>1, <2>2 DEF ReplayIncoming
      <3> QED BY <3>1, TimesKept DEF TakeDedupSlot, IsSession, Timed
    <2>3. CASE d.state = "Open"
      <3>1. ReplayAppend(d, e) = TakeDedupSlot(ApplyModeResponse(d, resp), e.env.id)
        BY <1>1, <2>1, <2>3 DEF ReplayIncoming
      <3> HIDE DEF resp
      <3>2. ReplayAppend(d, e) = t
        BY <3>1, TakeThenApply
      <3>3. /\ t.ttl_expiry = d.ttl_expiry /\ t.started_at_unix_ms = d.started_at_unix_ms
            /\ t.accumulated_suspended_ms = d.accumulated_suspended_ms
            /\ t.suspended_at_ms = d.suspended_at_ms /\ t.state # "Suspended"
        BY <2>3 DEF ApplyModeResponse, TakeDedupSlot, IsSession
      <3>4. d.state = "Suspended" => d.suspended_at_ms \in Int
        BY DEF Timed
      <3> HIDE DEF t
      <3>5. Timed(t)
        BY <2>3, <3>3, <3>4, TimesKept
      <3> QED BY <3>2, <3>5
    <2> QED BY <2>2, <2>3
  <1>3. CASE e.kind = "Internal" /\ e.at \in Int
    <2>1. ReplayAppend(d, e) = ReplayInternal(d, e)
      BY <1>1, <1>3 DEF ReplayAppend, ReplayEntry
    <2>2. Timed([d EXCEPT !.state = "Expired"])
      <3> DEFINE t == [d EXCEPT !.state = "Expired"]
      <3>1. /\ t.ttl_expiry = d.ttl_expiry /\ t.started_at_unix_ms = d.started_at_unix_ms
            /\ t.accumulated_suspended_ms = d.accumulated_suspended_ms
            /\ t.suspended_at_ms = d.suspended_at_ms /\ t.state = "Expired"
        BY DEF IsSession
      <3>2. d.state = "Suspended" => d.suspended_at_ms \in Int
        BY DEF Timed
      <3> HIDE DEF t
      <3>3. Timed(t)
        BY <3>1, <3>2, TimesKept
      <3> QED BY <3>3 DEF t
    <2>3. Timed(Cancel(d).s)
      <3> DEFINE t == Cancel(d).s
      <3>1. /\ t.ttl_expiry = d.ttl_expiry /\ t.started_at_unix_ms = d.started_at_unix_ms
            /\ t.accumulated_suspended_ms = d.accumulated_suspended_ms
            /\ t.suspended_at_ms \in {d.suspended_at_ms, NoTime} /\ t.state \in {d.state, "Cancelled"}
        BY DEF IsSession, Cancel, Ok, Err
      <3>2. d.state = "Suspended" => d.suspended_at_ms \in Int /\ NoTime \in Int
        BY DEF Timed, NoTime
      <3> HIDE DEF t
      <3>3. Timed(t)
        BY <3>1, <3>2, TimesKept
      <3> QED BY <3>3 DEF t
    <2>4. Timed(Suspend(d, e.at).s)
      <3> DEFINE t == Suspend(d, e.at).s
      <3>1. /\ t.ttl_expiry = d.ttl_expiry /\ t.started_at_unix_ms = d.started_at_unix_ms
            /\ t.accumulated_suspended_ms = d.accumulated_suspended_ms
            /\ t.suspended_at_ms = e.at \/ t = d
            /\ t.state # d.state => d.state = "Open"
        BY DEF IsSession, Suspend, Ok, Err
      <3>2. d.state = "Suspended" => d.suspended_at_ms \in Int
        BY DEF Timed
      <3> HIDE DEF t
      <3>3. Timed(t)
        BY <1>3, <3>1, <3>2, TimesKept
      <3> QED BY <3>3 DEF t
    <2> QED BY <1>3, <2>1, <2>2, <2>3, <2>4, ResumeBanks DEF ReplayInternal
  <1> QED BY <1>2, <1>3

\* Two sessions that agree have the same times.
LEMMA SameBanked ==
    ASSUME NEW d, NEW s, Same(d, s), Timed(d)
    PROVE  Timed(s)
  <1>1. /\ s.ttl_expiry = d.ttl_expiry /\ s.started_at_unix_ms = d.started_at_unix_ms
        /\ s.accumulated_suspended_ms = d.accumulated_suspended_ms /\ s.state = d.state
        /\ s.state # "Expired" => d = s
    BY DEF Same, IsSession
  <1>2. s.state = "Suspended" => s.suspended_at_ms \in Int
    BY <1>1 DEF Timed
  <1> QED BY <1>1, <1>2, TimesKept

\* Every step keeps the times of the durable session true.
LEMMA DurTimed ==
    ASSUME IInv, TypeOK, TimesInv, Reliance, [Next]_vars, dur' # NoSession
    PROVE  Timed(dur')
  <1>1. CASE UNCHANGED durable
    <2>1. dur' = dur
      BY <1>1 DEF durable, dur
    <2> QED BY <2>1 DEF TimesInv
  <1>2. CASE Starting
    <2>1. PICK env \in StartEnvelopes : AppendDurable(IncomingEntry(env, now))
      BY <1>2 DEF Starting
    <2> DEFINE e == IncomingEntry(env, now)
    <2> HIDE DEF e
    <2>2. dur' = ReplayAppend(dur, e) /\ IsSession(dur')
      BY <2>1, WrittenSession DEF e
    <2>3. IsSeq(replayed) /\ Len(replayed) = 0
      BY <1>2 DEF IInv, LogInv, Starting
    <2>4. dur = NoSession
      BY <2>3, AppendIsSeq DEF dur
    <2>5. e.kind = "Incoming" /\ now \in Int
      BY DEF e, IncomingEntry, TypeOK
    <2>6. dur' = ReplayStart(e)
      <3>1. dur' # Unreplayable
        BY <2>2 DEF IsSession, Unreplayable, SessionStates
      <3> QED BY <2>2, <2>4, <2>5, <3>1 DEF ReplayAppend
    <2> QED BY <2>2, <2>5, <2>6, StartTimed DEF e
  <1>3. CASE dur # NoSession
    <2>1. IsSession(dur) /\ Timed(dur)
      BY <1>3, DurIsSession DEF TimesInv, dur
    <2>2. now \in Int /\ maint.at \in Int
      BY DEF TypeOK
    <2>3. CASE dur' = dur
      BY <2>1, <2>3
    <2>4. CASE Same(dur, sess) /\ dur' = sess
      BY <2>1, <2>4, SameBanked
    <2>5. ASSUME NEW e, Handled(e), dur' = ReplayAppend(dur, e), IsSession(dur') PROVE Timed(dur')
      <3>1. e.kind = "Incoming" \/ (e.kind = "Internal" /\ e.at \in Int)
        BY <2>2, <2>5 DEF Handled
      <3>2. IsSession(ReplayAppend(dur, e))
        BY <2>5
      <3>3. Timed(ReplayAppend(dur, e))
        BY <2>1, <3>1, <3>2, ReplayTimed
      <3> QED BY <2>5, <3>3
    <2> QED BY <1>3, <2>3, <2>4, <2>5, DurStep
  <1>4. CASE Appending \/ Checkpointing
    <2>1. sess # NoSession /\ op.pc # "commit"
      BY <1>4 DEF Appending, Checkpointing, IInv, Shape
    <2> QED BY <1>3, <2>1, ServedExactly
  <1> QED BY <1>1, <1>2, <1>4, DurableStep

\* The session in memory changes when a write is committed, when a recovery
\* ends, and when it is dropped.
LEMMA SessTimed ==
    ASSUME IInv, TypeOK, TimesInv, Reliance, [Next]_vars
    PROVE  Banked(sess')
  <1>1. CASE sess' = sess
    BY <1>1 DEF TimesInv
  <1>2. CASE sess' = NoSession
    BY <1>2 DEF Banked, NoSession
  <1>3. CASE Commit
    <2>1. Same(dur', sess')
      BY <1>3 DEF Commit, IInv, ServedInv, durable, dur
    <2>2. dur' # NoSession
      BY <2>1 DEF Same, IsSession, NoSession, SessionStates
    <2>3. Timed(dur')
      BY <2>2, DurTimed
    <2> QED BY <2>1, <2>3, SameBanked DEF Timed
  <1>4. CASE RecoverDone
    <2>1. IsSession(op.s) /\ op.s = dur' /\ sess' = op.s
      BY <1>4, RecoveredSession
    <2>2. dur' # NoSession
      BY <2>1 DEF IsSession, NoSession, SessionStates
    <2> QED BY <2>1, <2>2, DurTimed DEF Timed
  <1> QED BY <1>1, <1>2, <1>3, <1>4, NoneDropped
      DEF Next, vars, memory, StartSession, Duplicate, MessageExpired, Message, DispatchTrigger, Control,
          ExpireAppend, CancelAppend, SuspendAppend, ResumeAppend, BeginPass, Cleanup, Sweep, Evict, Visit,
          Finish, Crash, Shutdown, Stop, ReplayFromCheckpoint, ReplayFromStart, RecoverNothing,
          ReplayStep, Tick

\* What is saved is what is, or is about to be, in memory.
LEMMA SnapTimed ==
    ASSUME IInv, TypeOK, TimesInv, Reliance, [Next]_vars
    PROVE  Banked(snap')
  <1>1. ASSUME NEW s, Banked(s), SaveSnapshot(s) PROVE Banked(snap')
    BY <1>1 DEF SaveSnapshot, TimesInv
  <1>2. CASE UNCHANGED snap
    BY <1>2 DEF TimesInv
  <1>3. CASE ExpireAppend \/ CancelAppend \/ Shutdown
    BY <1>1, <1>2, <1>3 DEF ExpireAppend, CancelAppend, Shutdown, TimesInv
  <1>4. CASE Commit
    BY <1>1, <1>2, <1>4, SessTimed DEF Commit
  <1>5. CASE RecoverDone
    <2>1. op.s = sess'
      BY <1>5, RecoveredSession
    <2> QED BY <1>1, <1>2, <1>5, <2>1, SessTimed DEF RecoverDone
  <1> QED BY <1>2, <1>3, <1>4, <1>5, NoneDropped
      DEF Next, vars, StartSession, Duplicate, MessageExpired, Message, DispatchTrigger, Control,
          SuspendAppend, ResumeAppend, BeginPass, Cleanup, Sweep, Evict, Finish, Crash,
          ReplayFromCheckpoint, ReplayFromStart, RecoverNothing, ReplayStep, Tick

\* The deadline of a live session is its start's own plus the suspended time
\* it has banked (Session::resume), in memory, in the log and in the
\* snapshot, across suspensions, failed writes, crashes and recoveries.
THEOREM BankedTheorem == ASSUME Reliance PROVE Spec => []DeadlineBanked
  <1>1. Init => TimesInv
    <2> SUFFICES ASSUME Init PROVE TimesInv
      OBVIOUS
    <2>1. sess = NoSession /\ snap = NoSession /\ dur = NoSession
      BY DEF Init, dur
    <2> QED BY <2>1 DEF TimesInv, Banked, NoSession
  <1>2. IInv /\ TypeOK /\ TimesInv /\ [Next]_vars => TimesInv'
    <2> SUFFICES ASSUME IInv, TypeOK, TimesInv, [Next]_vars PROVE TimesInv'
      OBVIOUS
    <2> QED BY DurTimed, SessTimed, SnapTimed DEF TimesInv
  <1>3. TimesInv => DeadlineBanked
    <2> SUFFICES ASSUME TimesInv PROVE DeadlineBanked
      OBVIOUS
    <2>1. Banked(dur)
      BY DEF TimesInv, Timed, Banked, NoSession
    <2> QED BY <2>1 DEF TimesInv, Banked, DeadlineBanked
  <1> QED BY <1>1, <1>2, <1>3, InductiveInvariant, TypeTheorem, PTL DEF Spec
=============================================================================
