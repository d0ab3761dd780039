------------------------------- MODULE WhatIf -------------------------------
(***************************************************************************)
(* What-if replay: a recorded session driven again under a candidate       *)
(* policy, beside its own (crates/macp-modes/src/what_if.rs and replay.rs, *)
(* src/replay.rs recorded_history, src/server.rs what_if).                 *)
(*                                                                         *)
(* The session of Modes keeps its history here: the accepted envelopes and *)
(* what the runtime did to it, which takes no place in the accepted        *)
(* history.  Which definition the recorded half runs under after a         *)
(* restart, and compacted logs, are the subject of Catalogs.               *)
(***************************************************************************)
EXTENDS Modes, SequencesExt

CONSTANTS
    Candidates,     \* mode -> the candidate policies asked about
    Recorded,       \* mode -> the client envelopes of a recorded session
    MaxHistory      \* bound on the events of a recorded history

ASSUME RecordedAssumption ==
    \A mode \in DOMAIN Candidates : \A env \in Recorded[mode] :
        env.type = "Commitment" =>
            "outcome_positive" \in DOMAIN env /\ env.outcome_positive \in BOOLEAN

VARIABLES
    recording,      \* whether this session's history is kept
    start,          \* its RecordedStart
    history         \* the events after it

whatIfVars == <<session, commit, recording, start, history>>

NoStart == [mode |-> ""]

MessageEvent(env) == [kind |-> "message", env |-> env]
InternalEvent(type) == [kind |-> type]
IsEnvelope(event) == event.kind = "message"

-----------------------------------------------------------------------------
(* trait Mode, for the session of any mode.                                *)

AuthorizeSender(s, env) ==
    CASE s.mode = "decision" -> DecisionAuthorizeSender(s, env)
      [] s.mode = "proposal" -> ProposalAuthorizeSender(s, env)
      [] s.mode = "task"     -> TaskAuthorizeSender(s, env)
      [] s.mode = "quorum"   -> QuorumAuthorizeSender(s, env)
      [] OTHER               -> ExtensionAuthorizeSender(s, env)

OnMessage(s, env) ==
    CASE s.mode = "decision"    -> DecisionOnMessage(s, env)
      [] s.mode = "proposal"    -> ProposalOnMessage(s, env)
      [] s.mode = "task"        -> TaskOnMessage(s, env)
      [] s.mode = "quorum"      -> QuorumOnMessage(s, env)
      [] s.mode = "multi_round" -> MultiRoundOnMessage(s, env)
      [] OTHER                  -> PassthroughOnMessage(PassthroughTypes, s, env)

\* A Commitment repeats the policy_version its session is bound to.
Echoes(s, env) == env.type = "Commitment" => env.policy_version = s.policy_version

Accepts(s, env) == AuthorizeSender(s, env) /\ Echoes(s, env) /\ OnMessage(s, env) # Rejected

\* The codes of a POLICY_DENIED; none for any other refusal.
Reasons(s, env) ==
    LET st == s.mode_state IN
    IF env.type # "Commitment" \/ s.policy = NoPolicy \/ ~AuthorizeSender(s, env) \/ ~Echoes(s, env)
    THEN {}
    ELSE CASE s.mode = "decision" /\ DecisionReady(st, env) -> DecisionReasons(s, st, env)
           [] s.mode = "proposal" /\ ProposalReady(s, st, env) -> ProposalReasons(s, st, env)
           [] s.mode = "task" /\ TaskReady(s, st, env) -> TaskReasons(s, st, env)
           [] s.mode = "quorum" /\ ValidateCommitmentPayload(env) /\ QuorumReady(s, st) ->
                  QuorumReasons(s, st, env)
           [] OTHER -> {}

-----------------------------------------------------------------------------
(* Replay.                                                                 *)

\* replay_start: a start that named no policy binds the id of its definition.
ReplayStart(st, policy) ==
    ApplyModeResponse(
        [mode |-> st.mode, policy |-> policy, semantics_rev |-> st.semantics_rev,
         policy_version |-> IF st.requested = "" /\ policy # NoPolicy THEN policy.policy_id
                            ELSE st.requested,
         mode_state |-> None, state |-> "Open"],
        ModeOnSessionStart(st.mode))

\* Session::suspend, resume and cancel do nothing where they do not apply;
\* an expiry is taken as recorded.
ApplyInternal(s, type) ==
    CASE type = "suspend" /\ s.state = "Open" -> [s EXCEPT !.state = "Suspended"]
      [] type = "resume" /\ s.state = "Suspended" -> [s EXCEPT !.state = "Open"]
      [] type = "cancel" /\ s.state \in {"Open", "Suspended"} -> [s EXCEPT !.state = "Cancelled"]
      [] type = "expire" -> [s EXCEPT !.state = "Expired"]
      [] OTHER -> s

\* apply_event; a refused event leaves the session as it is.
ApplyEvent(s, event) ==
    LET Taken(resp) == IF resp = Rejected THEN s ELSE ApplyModeResponse(s, resp)
    IN  IF ~IsEnvelope(event) THEN ApplyInternal(s, event.kind)
        ELSE IF s.state = "Open" /\ AuthorizeSender(s, event.env) /\ Echoes(s, event.env)
        THEN Taken(OnMessage(s, event.env))
        ELSE s

\* step: what one replay did with one entry, and the session behind it.
Applied(state) == [outcome |-> "applied", state |-> state]
NotOpen == [outcome |-> "not_open"]
Refused(reasons) == [outcome |-> "refused", reasons |-> reasons]

EntryOutcome(s, event, after) ==
    CASE ~IsEnvelope(event) -> Applied(after.state)
      [] IsEnvelope(event) /\ s.state # "Open" -> NotOpen
      [] OTHER -> IF Accepts(s, event.env) THEN Applied(after.state)
                  ELSE Refused(Reasons(s, event.env))

\* The sessions a replay goes through: run[i + 1] is the one after event i.
Run(s, events) == FoldLeft(LAMBDA run, event : Append(run, ApplyEvent(Last(run), event)), <<s>>, events)

\* The first event that resolved the session, 0 if none did.
ResolvedBy(run, events) ==
    LET at == {i \in DOMAIN events :
                 IsEnvelope(events[i]) /\ run[i].state = "Open" /\ run[i + 1].state = "Resolved"}
    IN IF at = {} THEN 0 ELSE Min(at)

Outcome(run, events) == [state |-> Last(run).state, by |-> ResolvedBy(run, events)]

\* Mutant: the candidate binds its own id.
CandidateStartRebound(st, recorded, candidate) == ReplayStart(st, candidate)

\* Only the rules are substituted: the version stays, for its echoes.
CandidateStart(st, recorded, candidate) ==
    [ReplayStart(st, candidate) EXCEPT !.policy_version = recorded.policy_version]

\* What a replay did with each entry; the first is the start.
Outcomes(run, events) ==
    [i \in 1 .. Len(events) + 1 |->
        IF i = 1 THEN Applied(run[1].state) ELSE EntryOutcome(run[i - 1], events[i - 1], run[i])]

\* The two replays side by side.  Entry 0 is the start.
ReportOf(events, recorded, recordedOutcomes, other, otherOutcomes) ==
    LET IsDenial(i) == /\ otherOutcomes[i + 1].outcome = "refused"
                       /\ otherOutcomes[i + 1].reasons # {}
    IN [entries |-> [i \in DOMAIN recordedOutcomes |->
                        [at |-> i - 1, recorded |-> recordedOutcomes[i],
                         candidate |-> otherOutcomes[i]]],
        recorded |-> Outcome(recorded, events),
        candidate |-> Outcome(other, events),
        denials |-> SelectSeq([i \in DOMAIN events |-> i], IsDenial)]

\* replay_under_policy.  No mode refuses a start for its policy, so the
\* candidate always has a session.
ReplayUnderPolicy(st, events, candidate) ==
    LET first == ReplayStart(st, st.policy)
        Compared(recorded, other) ==
            ReportOf(events, recorded, Outcomes(recorded, events), other, Outcomes(other, events))
    IN  Compared(Run(first, events), Run(CandidateStart(st, first, candidate), events))

\* An error of the recorded half is an integrity failure.
IntegrityFails(report) ==
    \/ \E i \in DOMAIN report.entries : report.entries[i].recorded.outcome = "refused"
    \/ report.recorded.state # session.state

-----------------------------------------------------------------------------
(* The answer on the wire speaks of the accepted history only.             *)

\* recorded_history: the start is 0, an event of the runtime has no index.
HistoryIndex(events, i) ==
    IF i > 0 /\ ~IsEnvelope(events[i]) THEN -1
    ELSE Len(SelectSeq(SubSeq(events, 1, i), IsEnvelope))

Diverges(entry) == entry.recorded # entry.candidate

Response(report, events) ==
    LET Shown(entry) == HistoryIndex(events, entry.at) >= 0
        shown == SelectSeq(report.entries, Shown)
        apart == SelectSeq(shown, Diverges)
        Index(i) == HistoryIndex(events, i)
    IN [entries |-> [i \in DOMAIN shown |->
                       [index |-> Index(shown[i].at),
                        type |-> IF shown[i].at = 0 THEN "SessionStart"
                                 ELSE events[shown[i].at].env.type,
                        recorded |-> shown[i].recorded, candidate |-> shown[i].candidate]],
        first_divergence |-> IF apart = <<>> THEN -1 ELSE Index(Head(apart).at),
        denials |-> [i \in DOMAIN report.denials |-> Index(report.denials[i])],
        recorded |-> [state |-> report.recorded.state, by |-> Index(report.recorded.by)],
        candidate |-> [state |-> report.candidate.state, by |-> Index(report.candidate.by)]]

-----------------------------------------------------------------------------

RecordStart ==
    /\ recording /\ session = NoSession
    /\ \E s \in Sessions, named \in BOOLEAN :
         /\ s.mode \in DOMAIN Candidates /\ ModeOnSessionStart(s.mode) # Rejected
         /\ start' = [mode |-> s.mode, policy |-> s.policy, semantics_rev |-> s.semantics_rev,
                      requested |-> IF named /\ s.policy # NoPolicy THEN s.policy.policy_id ELSE ""]
         /\ session' = ReplayStart(start', s.policy)
    /\ UNCHANGED <<commit, recording, history>>

\* A client's Commitment repeats the binding of its session.
Echo(s, said) ==
    IF said.type = "Commitment" THEN Put(said, "policy_version", s.policy_version) ELSE said

\* An accepted message of the open session.
RecordMessage ==
    /\ recording /\ session.state = "Open" /\ Len(history) < MaxHistory
    /\ \E said \in Recorded[session.mode] :
         LET env == Echo(session, said)
         IN /\ Accepts(session, env)
            /\ session' = ApplyModeResponse(session, OnMessage(session, env))
            /\ history' = Append(history, MessageEvent(env))
            /\ commit' = IF env.type = "Commitment" THEN env ELSE commit
    /\ UNCHANGED <<recording, start>>

\* What the runtime does to the session, its deadline included.
RecordInternal ==
    /\ recording /\ session.state \in {"Open", "Suspended"} /\ Len(history) < MaxHistory
    /\ \E type \in {"suspend", "resume", "cancel", "expire"} :
         /\ ApplyInternal(session, type) # session
         /\ session' = ApplyInternal(session, type)
         /\ history' = Append(history, InternalEvent(type))
    /\ UNCHANGED <<commit, recording, start>>

WhatIfInit == Init /\ recording \in BOOLEAN /\ start = NoStart /\ history = <<>>

WhatIfNext ==
    \/ ~recording /\ Next /\ UNCHANGED <<recording, start, history>>
    \/ RecordStart \/ RecordMessage \/ RecordInternal

WhatIfSpec == WhatIfInit /\ [][WhatIfNext]_whatIfVars

-----------------------------------------------------------------------------

\* One answer tells the truth.
AnswerSound(candidate, report, wire) ==
    LET accepted == SelectSeq(history, IsEnvelope)
    IN /\ ~IntegrityFails(report)
       /\ Len(wire.entries) = Len(accepted) + 1
       /\ \A i \in DOMAIN accepted :
            wire.entries[i + 1].index = i /\ wire.entries[i + 1].type = accepted[i].env.type
       /\ start.policy # NoPolicy /\ candidate.rules = start.policy.rules
            /\ candidate.schema_version = start.policy.schema_version
            /\ candidate.mistyped = start.policy.mistyped =>
            wire.first_divergence = -1 /\ wire.candidate = wire.recorded
       /\ wire.candidate # wire.recorded =>
            /\ wire.first_divergence > 0
            /\ \A i \in DOMAIN wire.denials : wire.denials[i] >= wire.first_divergence
       /\ session.state = "Resolved" => accepted[wire.recorded.by].env = commit

\* The answer about every candidate can be relied on: the recorded half
\* replays to the very session (the library's own functions, over what the
\* log kept); each index names the message that the
\* accepted history has there, whatever the runtime did in between; rules
\* equal to the bound ones change nothing; a changed outcome is never without
\* a divergence to look at, and nothing is denied before it; and the
\* Commitment that resolved the session is named
\* (replay_under_policy, recorded_history, what_if::response).
WhatIfSound ==
    recording /\ session # NoSession =>
        \A candidate \in Candidates[session.mode] :
            LET Sound(report) == AnswerSound(candidate, report, Response(report, history))
            IN  Sound(ReplayUnderPolicy(start, history, candidate))
=============================================================================
