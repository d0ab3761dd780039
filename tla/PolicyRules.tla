---------------------------- MODULE PolicyRules -----------------------------
(***************************************************************************)
(* The governance vocabulary of crates/macp-core/src/policy: policy        *)
(* definitions, the rule schema of every mode with its defaults, and the   *)
(* approval bar a quorum threshold imposes.                                *)
(*                                                                         *)
(* A definition is a record                                                *)
(*   policy_id, mode    its name and the mode it targets ("*" for all);    *)
(*   schema_version     the version of the rule semantics it declares;     *)
(*   rules              the rules it supplies, by dotted path.  A path     *)
(*                      outside DOMAIN rules was left out of the document; *)
(*   mistyped           the supplied paths whose JSON value has not the    *)
(*                      type the schema gives them.                        *)
(* A share in [0, 1] is a pair <<numerator, denominator>>; a confidence is *)
(* an integer percentage.  binary64 rounds a quotient and the literal it   *)
(* is compared with to the same value, so the exact comparison is the one  *)
(* the code makes; but for the voting quorum's percentage (CheckQuorum of  *)
(* Evaluator), where the code rounds a second time.                        *)
(***************************************************************************)
EXTENDS Integers, FiniteSets

\* Option<PolicyDefinition>: a session that resolved no policy.
NoPolicy == [policy_id |-> "none"]

StandardModes == {"decision", "proposal", "task", "handoff", "quorum"}

SUPPORTED_SCHEMA_VERSIONS == {1, 2, 3}

-----------------------------------------------------------------------------
(* The rule structs: their fields and the defaults serde fills in.         *)

CommitmentPaths ==
    {"commitment.authority", "commitment.designated_roles", "commitment.require_vote_quorum",
     "commitment.allow_decline_over_approval"}

CommitmentDefaults ==
    [path \in CommitmentPaths |->
        CASE path = "commitment.authority"        -> "initiator_only"
          [] path = "commitment.designated_roles" -> {}
          [] OTHER                                -> FALSE]

\* A mode's struct holds the commitment section beside its own fields.
WithCommitment(own) ==
    [path \in CommitmentPaths \cup DOMAIN own |->
        IF path \in CommitmentPaths THEN CommitmentDefaults[path] ELSE own[path]]

DecisionDefaults ==
    WithCommitment(
        [path \in {"voting.algorithm", "voting.threshold", "voting.quorum.type",
                   "voting.quorum.value", "voting.weights",
                   "objection_handling.critical_severity_vetoes",
                   "objection_handling.veto_threshold",
                   "objection_handling.critical_objection_action",
                   "evaluation.required_before_voting", "evaluation.minimum_confidence"} |->
            CASE path = "voting.algorithm"                  -> "none"
              [] path = "voting.threshold"                  -> <<1, 2>>
              [] path = "voting.quorum.type"                -> "count"
              [] path = "voting.weights"                    -> <<>>
              [] path = "objection_handling.veto_threshold" -> 1
              [] path = "objection_handling.critical_objection_action" -> "deny"
              [] path \in {"voting.quorum.value", "evaluation.minimum_confidence"} -> 0
              [] OTHER -> FALSE])

ProposalDefaults ==
    WithCommitment(
        [path \in {"acceptance.criterion", "counter_proposal.max_rounds",
                   "rejection.terminal_on_any_reject"} |->
            CASE path = "acceptance.criterion"        -> "all_parties"
              [] path = "counter_proposal.max_rounds" -> 0
              [] OTHER                                -> FALSE])

TaskDefaults ==
    WithCommitment(
        [path \in {"assignment.allow_reassignment_on_reject", "completion.require_output"} |->
            FALSE])

HandoffDefaults ==
    WithCommitment([path \in {"acceptance.implicit_accept_timeout_ms"} |-> 0])

QuorumDefaults ==
    WithCommitment(
        [path \in {"threshold.type", "threshold.value", "abstention.counts_toward_quorum",
                   "abstention.interpretation"} |->
            CASE path = "threshold.type"            -> "n_of_m"
              [] path = "threshold.value"           -> 0
              [] path = "abstention.interpretation" -> "neutral"
              [] OTHER                              -> FALSE])

ModeDefaults ==
    [mode \in StandardModes |->
        CASE mode = "decision" -> DecisionDefaults
          [] mode = "proposal" -> ProposalDefaults
          [] mode = "task"     -> TaskDefaults
          [] mode = "handoff"  -> HandoffDefaults
          [] mode = "quorum"   -> QuorumDefaults]

\* What the JSON types leave of a document: a supplied path that is not
\* mistyped holds a value of its field's type.
WellTyped(p) ==
    \A path \in DOMAIN p.rules \ p.mistyped :
        /\ path = "voting.threshold" => p.rules[path] \in Int \X (Nat \ {0})
        /\ path = "voting.weights" =>
               \A v \in DOMAIN p.rules[path] : p.rules[path][v] \in Int
        /\ path \in {"threshold.value", "objection_handling.veto_threshold"} =>
               p.rules[path] \in Int

\* serde_json::from_value::<..PolicyRules>: fails on a mistyped field.
ParsesAs(mode, p) == p.mistyped \cap DOMAIN ModeDefaults[mode] = {}

\* The rules object read through a mode's struct, supplied or defaulted.
ParsedRules(mode, p) ==
    [path \in DOMAIN ModeDefaults[mode] |->
        IF path \in DOMAIN p.rules THEN p.rules[path] ELSE ModeDefaults[mode][path]]

\* .unwrap_or_default(): the modes read a rules object that does not parse
\* as if it had supplied nothing; no policy reads the same way.
RulesOrDefault(mode, p) ==
    IF p # NoPolicy /\ ParsesAs(mode, p) THEN ParsedRules(mode, p) ELSE ModeDefaults[mode]

\* extract_commitment_rules looks at the commitment section alone.
ExtractCommitmentRules(p) ==
    IF p.mistyped \cap DOMAIN CommitmentDefaults = {}
    THEN [path \in DOMAIN CommitmentDefaults |->
            IF path \in DOMAIN p.rules THEN p.rules[path] ELSE CommitmentDefaults[path]]
    ELSE CommitmentDefaults

-----------------------------------------------------------------------------
(* QuorumThreshold::effective.                                             *)

Inert == [kind |-> "Inert"]
Unsatisfiable == [kind |-> "Unsatisfiable"]
Approvals(n) == [kind |-> "Approvals", required |-> n]

CeilDiv(a, b) == (a + b - 1) \div b

AtLeastOne(n) == IF n < 1 THEN 1 ELSE n

\* Mutant: the share of the roster is rounded down.
EffectiveThresholdFloor(type, value, total) ==
    IF value <= 0 THEN Inert ELSE Approvals(AtLeastOne((value * total) \div 100))

\* The one bar both the mode and the evaluator resolve: a share of the
\* roster is rounded up, and no bar is ever zero.
EffectiveThreshold(type, value, total) ==
    IF value <= 0 THEN Inert
    ELSE CASE type = "percentage" ->
                 IF total = 0 THEN Unsatisfiable
                 ELSE Approvals(AtLeastOne(CeilDiv(value * total, 100)))
           [] type \in {"n_of_m", "count"} -> Approvals(AtLeastOne(value))
           [] OTHER -> Unsatisfiable
=============================================================================
