---------------------------- MODULE DecisionMode ----------------------------
(***************************************************************************)
(* The decision mode (crates/macp-modes/src/mode/decision.rs): proposals,  *)
(* their evaluations and objections, one vote per participant and proposal *)
(* and the commitment the bound policy gates.                              *)
(*                                                                         *)
(* The mode state keeps what the rules and the evaluator read: the         *)
(* proposals' ids, the evaluations as a set, the objections in order, the  *)
(* votes and the phase.                                                    *)
(***************************************************************************)
EXTENDS Evaluator

STRICT_WIRE_ENUMS_REV == 4

\* The double that is not a number: no comparison with it holds.
NaN == -1

DecisionEmpty ==
    [proposals |-> {}, evaluations |-> {}, objections |-> <<>>, votes |-> <<>>,
     phase |-> "Proposal"]

DecisionAuthorizeSender(s, env) ==
    \/ env.type = "Commitment" /\ MayCommit(s, env.sender)
    \/ /\ env.type \in {"Proposal", "Evaluation", "Objection", "Vote"}
       /\ IsDeclaredParticipant(env.sender)

\* An empty roster is accepted, for this mode alone.
DecisionOnSessionStart == PersistState(DecisionEmpty)

\* The JSON codec of the state writes a double that is not a number as null
\* and cannot read it back: such a state fails every later message.
DecisionDecodes(st) == \A e \in st.evaluations : e.confidence # NaN

\* wire_enum: from STRICT_WIRE_ENUMS_REV exactly as sent (env.exact: in its
\* canonical case), before it folded; "" reads as the default it was given.
WireEnum(s, env, raw, default) ==
    IF s.semantics_rev >= STRICT_WIRE_ENUMS_REV
    THEN IF env.exact THEN raw ELSE ""
    ELSE IF raw = "" THEN default ELSE raw

HandleProposal(st, env) ==
    IF \/ st.phase = "Voting"
       \/ ~env.valid
       \/ env.pid \in st.proposals
    THEN Rejected
    ELSE PersistState([st EXCEPT !.proposals = @ \cup {env.pid}, !.phase = "Evaluation"])

HandleEvaluation(s, st, env) ==
    LET recommendation == WireEnum(s, env, env.value, "")
    IN  IF \/ ~env.valid
           \/ recommendation \notin {"APPROVE", "REVIEW", "BLOCK", "REJECT"}
           \/ env.confidence # NaN /\ env.confidence \notin 0 .. 100
           \/ st.phase # "Evaluation"
           \/ env.pid \notin st.proposals
        THEN Rejected
        ELSE PersistState([st EXCEPT !.evaluations =
                 @ \cup {[recommendation |-> recommendation, confidence |-> env.confidence]}])

HandleObjection(s, st, env) ==
    LET severity == WireEnum(s, env, env.value, "medium")
    IN  IF \/ ~env.valid
           \/ severity \notin {"critical", "high", "medium", "low"}
           \/ st.phase # "Evaluation"
           \/ env.pid \notin st.proposals
        THEN Rejected
        ELSE PersistState([st EXCEPT !.objections =
                 Append(@, [severity |-> severity, sender |-> env.sender])])

VotesFor(st, pid) == IF pid \in DOMAIN st.votes THEN st.votes[pid] ELSE <<>>

\* Mutant: a second ballot of the same voter overwrites the first.
HandleVoteOverwrites(s, st, env) ==
    IF env.valid /\ st.phase # "Proposal" /\ env.pid \in st.proposals
    THEN PersistState([st EXCEPT !.phase = "Voting",
             !.votes = Put(@, env.pid, Put(VotesFor(st, env.pid), env.sender, env.value))])
    ELSE Rejected

\* The first accepted vote closes the deliberation.
HandleVote(s, st, env) ==
    LET vote == WireEnum(s, env, env.value, "")
    IN  IF \/ ~env.valid
           \/ vote \notin {"APPROVE", "REJECT", "ABSTAIN"}
           \/ st.phase = "Proposal"
           \/ env.pid \notin st.proposals
           \/ env.sender \in DOMAIN VotesFor(st, env.pid)
        THEN Rejected
        ELSE PersistState([st EXCEPT !.phase = "Voting",
                 !.votes = Put(@, env.pid, Put(VotesFor(st, env.pid), env.sender, vote))])

\* The mode's own conditions, before its policy is asked.
DecisionReady(st, env) == ValidateCommitmentPayload(env) /\ st.proposals # {}

DecisionReasons(s, st, env) == DecisionDeny(s.policy, st, Participants, env.outcome_positive)

DecisionCommitment(s, st, env) ==
    IF DecisionReady(st, env) /\ PolicyAllows(s, DecisionReasons(s, st, env))
    THEN PersistAndResolve([st EXCEPT !.phase = "Committed"])
    ELSE Rejected

DecisionOnMessage(s, env) ==
    LET st == s.mode_state
    IN  IF ~DecisionDecodes(st) \/ st.phase = "Committed" THEN Rejected
        ELSE CASE env.type = "Proposal"   -> HandleProposal(st, env)
               [] env.type = "Evaluation" -> HandleEvaluation(s, st, env)
               [] env.type = "Objection"  -> HandleObjection(s, st, env)
               [] env.type = "Vote"       -> HandleVote(s, st, env)
               [] env.type = "Commitment" -> DecisionCommitment(s, st, env)
               [] OTHER                   -> Rejected
=============================================================================
