----------------------------- MODULE Evaluator ------------------------------
(***************************************************************************)
(* The default policy evaluator (crates/macp-policy/src/evaluator.rs):     *)
(* whether the policy bound to a session lets a commitment through.        *)
(*                                                                         *)
(* Every operator here returns the set of deny codes the evaluator would   *)
(* report; the commitment is allowed when that set is empty.  What an      *)
(* allowing evaluation logs is left out.                                   *)
(*                                                                         *)
(* The decision state is [proposals, evaluations, objections, votes,       *)
(* phase] with votes a function from proposal to (voter to vote).          *)
(***************************************************************************)
EXTENDS ModeCommon, PolicyRules, FiniteSetsExt, Sequences

-----------------------------------------------------------------------------
(* The tally of a decision.                                                *)

\* Every ballot, over all proposals.
Ballots(votes) ==
    UNION {{[proposal |-> p, voter |-> v, vote |-> votes[p][v]] : v \in DOMAIN votes[p]}
             : p \in DOMAIN votes}

Cast(votes, vote) == {b \in Ballots(votes) : b.vote = vote}

UniqueVoters(votes) == UNION {DOMAIN votes[p] : p \in DOMAIN votes}

\* An unlisted voter weighs nothing: the map is the electorate.
Weight(weights, voter) == IF voter \in DOMAIN weights THEN weights[voter] ELSE 0

WeightOf(weights, ballots) == MapThenSumSet(LAMBDA b : Weight(weights, b.voter), ballots)

DecisiveRejects(r, votes) ==
    IF r["voting.algorithm"] # "weighted" THEN Cast(votes, "REJECT")
    ELSE {b \in Cast(votes, "REJECT") : Weight(r["voting.weights"], b.voter) > 0}

\* Exact where the code multiplies a rounded quotient by 100.0 and may then
\* fall short of a whole percentage that is just met (29 voters of 50 against
\* 58): the code is at least as strict, and refuses more.
CheckQuorum(r, votes, participants) ==
    LET voters == Cardinality(UniqueVoters(votes))
        total  == Cardinality(participants)
        value  == r["voting.quorum.value"]
    IN  IF r["voting.quorum.type"] = "percentage"
        THEN IF total = 0 THEN value <= 0 ELSE voters * 100 >= value * total
        ELSE voters >= value

Reaches(part, total, share) == part * share[2] >= share[1] * total

UnanimousApproval(votes, participants) ==
    /\ \A v \in participants : \E p \in DOMAIN votes :
           v \in DOMAIN votes[p] /\ votes[p][v] = "APPROVE"
    /\ Cast(votes, "REJECT") = {}

\* check_voting_algorithm: "Passed", "Failed" or "NoVotes".
VotingResult(r, votes, participants) ==
    LET approve   == Cardinality(Cast(votes, "APPROVE"))
        reject    == Cardinality(Cast(votes, "REJECT"))
        threshold == r["voting.threshold"]
        super     == IF 2 * threshold[1] > threshold[2] THEN threshold ELSE <<2, 3>>
        weights   == r["voting.weights"]
        for       == WeightOf(weights, Cast(votes, "APPROVE"))
        against   == WeightOf(weights, Cast(votes, "REJECT"))
        passedIf(test) == IF test THEN "Passed" ELSE "Failed"
    IN  IF approve + reject = 0 THEN "NoVotes"
        ELSE CASE r["voting.algorithm"] = "majority" ->
                      passedIf(Reaches(approve, approve + reject, threshold))
               [] r["voting.algorithm"] = "supermajority" ->
                      passedIf(Reaches(approve, approve + reject, super))
               [] r["voting.algorithm"] = "unanimous" ->
                      passedIf(UnanimousApproval(votes, participants))
               [] r["voting.algorithm"] = "weighted" ->
                      IF for + against < 0 THEN "Failed"
                      ELSE IF for + against = 0 THEN "NoVotes"
                      ELSE passedIf(Reaches(for, for + against, threshold))
               [] r["voting.algorithm"] = "plurality" -> passedIf(approve > reject)
               [] OTHER -> "Failed"

-----------------------------------------------------------------------------
(* evaluate_decision_commitment_outcome, one operator per check.           *)

\* The domains the evaluator checks again behind registration.
DecisionValueDomainError(r) ==
    \/ r["objection_handling.veto_threshold"] < 1
    \/ r["evaluation.minimum_confidence"] \notin 0 .. 100

CriticalObjections(st) == {i \in DOMAIN st.objections : st.objections[i].severity = "critical"}

CriticalVeto(r, st) ==
    /\ r["objection_handling.critical_severity_vetoes"]
    /\ Cardinality(CriticalObjections(st)) >= r["objection_handling.veto_threshold"]

\* Mutant: the decline waits for a ballot the veto already made pointless.
ObjectionDeclineNeedsBallot(r, st, positive) ==
    CriticalVeto(r, st) /\ ~positive /\ Ballots(st.votes) # {}

\* A decline authorised by the recorded objection instead of by the tally.
ObjectionAuthorizedDecline(r, st, positive) ==
    /\ CriticalVeto(r, st)
    /\ ~positive
    /\ r["objection_handling.critical_objection_action"] = "finalize_decline"

\* REVIEW evaluations are informational only.
EvaluationDeny(r, st) ==
    LET qualifying == {e \in st.evaluations : e.recommendation # "REVIEW"}
        minimum    == r["evaluation.minimum_confidence"]
    IN  IF ~r["evaluation.required_before_voting"] THEN {}
        ELSE IF minimum > 0
        THEN IF \E e \in qualifying : e.confidence >= minimum THEN {}
             ELSE {"confidence_below_minimum"}
        ELSE IF qualifying = {} THEN {"evaluation_required"} ELSE {}

VetoDeny(r, st, positive) ==
    IF ~CriticalVeto(r, st) THEN {}
    ELSE CASE r["objection_handling.critical_objection_action"] = "deny" -> {"veto"}
           [] r["objection_handling.critical_objection_action"] = "hold" -> {"veto_hold"}
           [] OTHER -> IF positive THEN {"veto"} ELSE {}

QuorumDeny(r, st, participants) ==
    IF r["commitment.require_vote_quorum"] /\ ~CheckQuorum(r, st.votes, participants)
    THEN {"quorum_not_met"} ELSE {}

\* Mutant: the fail-open empty tally of the older schemas under every one.
VotingDenyLegacyTally(r, version, st, participants, positive) ==
    LET result == VotingResult(r, st.votes, participants)
        backed == DecisiveRejects(r, st.votes) # {}
    IN  IF result = "NoVotes" /\ positive
        THEN IF r["commitment.require_vote_quorum"] THEN {"no_votes"} ELSE {}
        ELSE IF result = "Passed" /\ positive THEN {}
        ELSE IF result = "Failed" /\ ~positive /\ backed THEN {}
        ELSE {"threshold_not_met"}

\* Mutant: the decline guard is dropped where the approval bar failed.
VotingDenyUnbacked(r, version, st, participants, positive) ==
    LET result == VotingResult(r, st.votes, participants)
    IN  IF result = "NoVotes" THEN {"no_votes"}
        ELSE IF (result = "Passed") = positive THEN {} ELSE {"threshold_not_met"}

\* The result of the vote mapped to the outcome asked for.
VotingDeny(r, version, st, participants, positive) ==
    LET result == VotingResult(r, st.votes, participants)
        backed == DecisiveRejects(r, st.votes) # {}
    IN  CASE result = "Passed" /\ positive -> {}
          [] result = "Passed" /\ ~positive ->
                 IF ~r["commitment.allow_decline_over_approval"] THEN {"decline_over_approval"}
                 ELSE IF backed THEN {} ELSE {"decline_not_backed"}
          [] result = "Failed" /\ positive -> {"threshold_not_met"}
          [] result = "Failed" /\ ~positive -> IF backed THEN {} ELSE {"decline_not_backed"}
          [] result = "NoVotes" /\ positive ->
                 IF version >= 3 \/ r["commitment.require_vote_quorum"] THEN {"no_votes"} ELSE {}
          [] result = "NoVotes" /\ ~positive -> {"decline_not_backed"}

DecisionDeny(p, st, participants, positive) ==
    LET r      == ParsedRules("decision", p)
        waived == ObjectionAuthorizedDecline(r, st, positive)
    IN  IF p.schema_version \notin SUPPORTED_SCHEMA_VERSIONS THEN {"unsupported_schema_version"}
        ELSE IF ~ParsesAs("decision", p) \/ DecisionValueDomainError(r) THEN {"invalid_rules"}
        ELSE VetoDeny(r, st, positive) \cup
             (IF waived THEN {}
              ELSE EvaluationDeny(r, st) \cup QuorumDeny(r, st, participants)) \cup
             (IF waived \/ r["voting.algorithm"] = "none" THEN {}
              ELSE VotingDeny(r, p.schema_version, st, participants, positive))

-----------------------------------------------------------------------------
(* The other modes.  A decline is the legitimate exit of each: no check    *)
(* that only makes sense for a positive outcome holds it back.             *)

\* What every evaluation checks first.
Unevaluable(mode, p) ==
    IF p.schema_version \notin SUPPORTED_SCHEMA_VERSIONS THEN {"unsupported_schema_version"}
    ELSE IF ~ParsesAs(mode, p) THEN {"invalid_rules"} ELSE {}

ProposalDeny(p, counters, positive) ==
    LET max == ParsedRules("proposal", p)["counter_proposal.max_rounds"]
    IN  IF Unevaluable("proposal", p) # {} THEN Unevaluable("proposal", p)
        ELSE IF max > 0 /\ counters > max /\ positive THEN {"criterion_not_met"} ELSE {}

TaskDeny(p, hasOutput, positive) ==
    IF Unevaluable("task", p) # {} THEN Unevaluable("task", p)
    ELSE IF ParsedRules("task", p)["completion.require_output"] /\ ~hasOutput /\ positive
    THEN {"output_required"} ELSE {}

\* The bar gates a positive outcome only; an inert rule imposes none here.
QuorumModeDeny(p, approve, total, positive) ==
    LET r   == ParsedRules("quorum", p)
        bar == EffectiveThreshold(r["threshold.type"], r["threshold.value"], total)
    IN  IF Unevaluable("quorum", p) # {} THEN Unevaluable("quorum", p)
        ELSE IF \/ bar.kind = "Unsatisfiable" /\ positive
                \/ bar.kind = "Approvals" /\ positive /\ approve < bar.required
        THEN {"threshold_not_met"} ELSE {}

-----------------------------------------------------------------------------
(* How a mode consults the policy its session is bound to                  *)
(* (crates/macp-modes/src/mode/util.rs).  A session is a record with at    *)
(* least the fields policy (a definition, or NoPolicy), semantics_rev,     *)
(* mode_state and state.                                                   *)

\* check_commitment_authority: no policy means the initiator alone.
MayCommit(s, sender) ==
    LET r == IF s.policy = NoPolicy THEN CommitmentDefaults ELSE ExtractCommitmentRules(s.policy)
    IN  AuthorityAllows(r["commitment.authority"], r["commitment.designated_roles"], sender)

\* enforce_commitment_policy: fail closed, only an explicit allow proceeds.
PolicyAllows(s, deny) == s.policy = NoPolicy \/ deny = {}
=============================================================================
