------------------------------- MODULE Modes --------------------------------
(***************************************************************************)
(* One session of any mode under any policy, driven by its participants'   *)
(* messages in any order.  The kernel's gates (deduplication, deadline,    *)
(* durability) are the subject of Kernel; here a message reaches the mode  *)
(* of an open session, which authorises its sender, handles it and answers *)
(* with the new mode state (crates/macp-core/src/mode.rs).                 *)
(***************************************************************************)
EXTENDS DecisionMode, ProposalMode, TaskMode, QuorumMode, ExtensionModes

CONSTANTS
    Sessions,       \* the [mode, policy, semantics_rev] a session may start with
    Envelopes,      \* mode -> the client envelopes its participants send
    PassthroughTypes, \* allowed_message_types of the passthrough mode
    MaxObjections,  \* bound on the objections of one decision
    MaxRounds,      \* bound on the rounds of one multi-round session
    MaxUpdates      \* bound on the updates of one task

\* The roster is finite and nobody on it has the name that stands for no
\* assignee.
ASSUME RosterAssumption == IsFiniteSet(Participants) /\ None \notin Participants

SessionModes == {"decision", "proposal", "task", "quorum", "multi_round", "passthrough"}

\* A session binds a policy the registry gave out: its values have the types
\* of the schema and no share of votes is zero or less (registry.rs,
\* validate_decision_voting).
ASSUME SessionsAssumption ==
    \A start \in Sessions :
        /\ start.mode \in SessionModes
        /\ start.policy # NoPolicy =>
               /\ WellTyped(start.policy)
               /\ ParsesAs("decision", start.policy) =>
                      ParsedRules("decision", start.policy)["voting.threshold"][1] > 0

ASSUME EnvelopesAssumption ==
    \A mode \in SessionModes : \A env \in Envelopes[mode] :
        env.type = "Commitment" => env.outcome_positive \in BOOLEAN

VARIABLES
    session,        \* the session, or NoSession
    commit          \* the Commitment that resolved it, or NoCommit

vars == <<session, commit>>

NoSession == [state |-> "None"]
NoCommit == [type |-> "none"]

-----------------------------------------------------------------------------
(* trait Mode, dispatched on the session's mode.                           *)

ModeOnSessionStart(mode) ==
    CASE mode = "decision"    -> DecisionOnSessionStart
      [] mode = "proposal"    -> ProposalOnSessionStart
      [] mode = "task"        -> TaskOnSessionStart
      [] mode = "quorum"      -> QuorumOnSessionStart
      [] mode = "multi_round" -> MultiRoundOnSessionStart
      [] mode = "passthrough" -> PersistState(PassthroughEmpty)

StartSession ==
    /\ session = NoSession
    /\ \E start \in Sessions :
        LET resp == ModeOnSessionStart(start.mode)
        IN  /\ resp # Rejected
            /\ session' = ApplyModeResponse(
                   [mode |-> start.mode, policy |-> start.policy,
                    semantics_rev |-> start.semantics_rev,
                    mode_state |-> None, state |-> "Open"], resp)
    /\ UNCHANGED commit

\* An authorised message of an open session and the mode's answer to it.
Handle(env, authorized, resp) ==
    /\ authorized
    /\ resp # Rejected
    /\ session' = ApplyModeResponse(session, resp)
    /\ commit' = IF env.type = "Commitment" THEN env ELSE commit

OpenIn(mode) == session.state = "Open" /\ session.mode = mode

DecisionMessage ==
    /\ OpenIn("decision")
    /\ \E env \in Envelopes["decision"] :
        /\ env.type = "Objection" => Len(session.mode_state.objections) < MaxObjections
        /\ Handle(env, DecisionAuthorizeSender(session, env), DecisionOnMessage(session, env))

ProposalMessage ==
    /\ OpenIn("proposal")
    /\ \E env \in Envelopes["proposal"] :
        Handle(env, ProposalAuthorizeSender(session, env), ProposalOnMessage(session, env))

TaskMessage ==
    /\ OpenIn("task")
    /\ \E env \in Envelopes["task"] :
        /\ env.type = "TaskUpdate" => session.mode_state.updates < MaxUpdates
        /\ Handle(env, TaskAuthorizeSender(session, env), TaskOnMessage(session, env))

QuorumMessage ==
    /\ OpenIn("quorum")
    /\ \E env \in Envelopes["quorum"] :
        Handle(env, QuorumAuthorizeSender(session, env), QuorumOnMessage(session, env))

MultiRoundMessage ==
    /\ OpenIn("multi_round")
    /\ \E env \in Envelopes["multi_round"] :
        /\ env.type = "Contribute" => session.mode_state.round < MaxRounds
        /\ Handle(env, ExtensionAuthorizeSender(session, env), MultiRoundOnMessage(session, env))

PassthroughMessage ==
    /\ OpenIn("passthrough")
    /\ \E env \in Envelopes["passthrough"] :
        Handle(env, ExtensionAuthorizeSender(session, env), PassthroughOnMessage(PassthroughTypes, session, env))

Init == session = NoSession /\ commit = NoCommit

Next ==
    \/ StartSession
    \/ DecisionMessage \/ ProposalMessage \/ TaskMessage \/ QuorumMessage
    \/ MultiRoundMessage \/ PassthroughMessage

Spec == Init /\ [][Next]_vars

-----------------------------------------------------------------------------
(* Properties.                                                             *)

InMode(mode) == session # NoSession /\ session.mode = mode

Committed(mode) == InMode(mode) /\ commit # NoCommit

DecisionRules == ParsedRules("decision", session.policy)

\* A decision whose policy holds a vote.
VotedDecision ==
    /\ Committed("decision")
    /\ session.policy # NoPolicy
    /\ DecisionRules["voting.algorithm"] # "none"

\* A positive decision under a voting policy of the current schema rests on
\* an approval that counts, never on an empty tally, and is never sealed
\* over critical objections that reached the policy's veto threshold
\* (evaluate_decision_commitment_outcome).
PositiveBacked ==
    VotedDecision /\ session.policy.schema_version = 3 /\ commit.outcome_positive =>
        /\ \E b \in Cast(session.mode_state.votes, "APPROVE") :
               \/ DecisionRules["voting.algorithm"] # "weighted"
               \/ Weight(DecisionRules["voting.weights"], b.voter) > 0
        /\ ~CriticalVeto(DecisionRules, session.mode_state)

\* A decline under a voting policy rests on a dissent somebody recorded: a
\* decisive REJECT, or the critical objections that authorise it.
DeclineBacked ==
    VotedDecision /\ ~commit.outcome_positive =>
        \/ DecisiveRejects(DecisionRules, session.mode_state.votes) # {}
        \/ CriticalVeto(DecisionRules, session.mode_state)

Decline == [type |-> "Commitment", sender |-> Initiator, valid |-> TRUE,
            action |-> "negative", outcome_positive |-> FALSE]

\* Under finalize_decline a veto never leaves a session with no exit: the
\* mode and its policy take a decline whatever the ballots, the evaluations
\* and the quorum look like.  Whose decline it may be is the business of
\* MayCommit, ahead of both.  The policy is one the evaluator reads, and the
\* state one the codec reads back.
VetoHasExit ==
    /\ InMode("decision")
    /\ session.state = "Open" /\ DecisionDecodes(session.mode_state)
    /\ session.policy # NoPolicy /\ Unevaluable("decision", session.policy) = {}
    /\ ~DecisionValueDomainError(DecisionRules)
    /\ DecisionRules["objection_handling.critical_objection_action"] = "finalize_decline"
    /\ CriticalVeto(DecisionRules, session.mode_state)
    => DecisionOnMessage(session, Decline) # Rejected

\* No ballot is ever changed or taken back once the decision mode recorded
\* it, whichever proposal it is for.
BallotsFinal ==
    InMode("decision") =>
        Ballots(session.mode_state.votes) \subseteq Ballots(session'.mode_state.votes)

BarMet(s) ==
    /\ s.mode_state.request # NoRequest
    /\ EffectiveBar(s, s.mode_state.request).kind = "Approvals"
    /\ Count(s.mode_state, "Approve") >= EffectiveBar(s, s.mode_state.request).required

\* Once a quorum session is ready to commit the verdict is final: no ballot
\* still to come turns a met bar into an unmet one or the other way round.
VerdictFinal ==
    InMode("quorum") /\ QuorumReady(session, session.mode_state) =>
        /\ QuorumReady(session', session'.mode_state)
        /\ BarMet(session') = BarMet(session)

\* A positive quorum commitment under a policy that sets a bar has that many
\* approvals, a share of the roster counted without rounding it down.
QuorumBacked ==
    Committed("quorum") /\ session.policy # NoPolicy /\ commit.outcome_positive =>
        LET r == ParsedRules("quorum", session.policy)
            n == Count(session.mode_state, "Approve")
        IN  IF r["threshold.type"] = "percentage"
            THEN n * 100 >= r["threshold.value"] * Cardinality(Participants)
            ELSE n >= r["threshold.value"]

\* What the documentation says of every positive quorum commitment: it has
\* the approvals the request asked for.
RequestedApprovals ==
    Committed("quorum") /\ commit.outcome_positive =>
        Count(session.mode_state, "Approve") >= session.mode_state.request.required_approvals

\* The convergence a proposal session commits on is a current one: every
\* recorded acceptance names a proposal that is still on the table, and a
\* converged session has one the criterion holds of.
AgreementLive ==
    InMode("proposal") =>
        LET st == session.mode_state
        IN  /\ \A p \in DOMAIN st.accepts : st.accepts[p] \in Live(st)
            /\ st.phase = "Converged" =>
                   \E p \in Live(st) : CheckAcceptanceCriterion(
                       ProposalRules(session)["acceptance.criterion"], st, p)

\* The task leaves its holder only by that holder's own TaskReject, never by
\* another participant's TaskAccept, and from the revision that made declines
\* personal whoever declined the task never holds it afterwards.
DeclinedNeverHolds ==
    InMode("task") =>
        LET st == session.mode_state
            nx == session'.mode_state
        IN  /\ st.active_assignee \notin {None, nx.active_assignee} =>
                   /\ nx.active_assignee = None
                   /\ [assignee |-> st.active_assignee, while_assigned |-> TRUE] \in nx.rejections
            /\ session.semantics_rev >= PERSONAL_DECLINE_REV =>
                   ~HasRejected(nx, nx.active_assignee)

\* A multi-round session reports convergence exactly when every declared
\* participant's latest value is the same one.
ConvergedTogether ==
    InMode("multi_round") =>
        LET c == session.mode_state.contributions
        IN  session.mode_state.converged <=>
                \E v \in {c[p] : p \in DOMAIN c} :
                    \A p \in Participants : p \in DOMAIN c /\ c[p] = v

\* What a Commitment seals rests on the tally its policy asks for
\* (policy/evaluator.rs, decision.rs, quorum.rs): a positive one or a decline
\* of a decision that votes, a positive one of a quorum session whose policy
\* sets a bar.  A quorum session without a policy, and a decline of one, are
\* left to the mode's own conditions.
OutcomeBacked == PositiveBacked /\ DeclineBacked /\ QuorumBacked

\* The convergence that proposal and multi-round sessions report is current
\* (refresh_phase in proposal.rs, check_convergence in multi_round.rs).
ConvergenceCurrent == AgreementLive /\ ConvergedTogether

\* What participants have said is never unsaid by a later message: a ballot,
\* the verdict of a quorum and a decline stand (on_message of decision.rs
\* and task.rs, commitment_ready in quorum.rs).
StatementsStand == [][BallotsFinal /\ VerdictFinal /\ DeclinedNeverHolds]_vars
=============================================================================
