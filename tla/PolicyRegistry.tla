--------------------------- MODULE PolicyRegistry ---------------------------
(***************************************************************************)
(* Admission to the policy registry (crates/macp-policy/src/registry.rs,   *)
(* defaults.rs and crates/macp-core/src/policy/keys.rs).                   *)
(*                                                                         *)
(* A document offered for registration is a definition of PolicyRules with *)
(*   rules_object  its "rules" value is a JSON object;                     *)
(*   misshapen     the supplied paths whose JSON shape is not the schema's *)
(*                 but which serde reads all the same (a positional array, *)
(*                 the map form of a unit enum);                           *)
(*   fractional    the supplied numbers with a fractional part;            *)
(*   extra         the supplied keys no schema defines, each a record      *)
(*                 [key, kind], kind one of "annotation", "undefined",     *)
(*                 "vendor" (top level, an object), "vendor_scalar" and    *)
(*                 "nested_vendor".                                        *)
(* Admission returns the set of reasons for a refusal: a document is       *)
(* admitted when there is none.                                            *)
(***************************************************************************)
EXTENDS Evaluator, SequencesExt

CONSTANT RuleExtensions  \* the vendor-extension keys the embedder implements

-----------------------------------------------------------------------------
(* The built-in policies.                                                  *)

Document(id, mode, version, rules) ==
    [policy_id |-> id, mode |-> mode, schema_version |-> version, rules |-> rules,
     mistyped |-> {}, rules_object |-> TRUE, misshapen |-> {}, fractional |-> {}, extra |-> {}]

DEFAULT_POLICY_ID == "policy.default"

\* The values the default policy spells out are the ones its schema defaults to.
default_policy ==
    Document(DEFAULT_POLICY_ID, "*", 1,
        [path \in {"voting.algorithm", "voting.quorum.type", "voting.quorum.value",
                   "objection_handling.critical_severity_vetoes",
                   "objection_handling.veto_threshold", "evaluation.required_before_voting",
                   "evaluation.minimum_confidence", "commitment.authority",
                   "commitment.designated_roles", "commitment.require_vote_quorum"} |->
            DecisionDefaults[path]])

\* The standard policies ask for a quorum of a number of votes.
StdRules(algorithm, quorum) ==
    [path \in {"voting.algorithm", "voting.quorum.type", "voting.quorum.value",
               "commitment.require_vote_quorum"} |->
        CASE path = "voting.algorithm"    -> algorithm
          [] path = "voting.quorum.type"  -> "count"
          [] path = "voting.quorum.value" -> quorum
          [] OTHER                        -> TRUE]

std_majority_policy ==
    Document("policy.std.majority", "decision", 1,
        Put(StdRules("majority", 1), "voting.threshold", <<1, 2>>))

std_supermajority_policy ==
    Document("policy.std.supermajority", "decision", 1,
        Put(StdRules("supermajority", 2), "voting.threshold", <<2, 3>>))

std_unanimous_policy == Document("policy.std.unanimous", "decision", 1, StdRules("unanimous", 1))

std_policies == {std_majority_policy, std_supermajority_policy, std_unanimous_policy}

\* STD_POLICY_PREFIX: the reserved names, assigned or not.
StdNames == {p.policy_id : p \in std_policies} \cup {"policy.std.unassigned"}

CanonicalStdPolicies(id) == {p \in std_policies : p.policy_id = id}

ById(documents) == [id \in {d.policy_id : d \in documents} |->
                        CHOOSE d \in documents : d.policy_id = id]

\* PolicyRegistry::new
BuiltinPolicies == ById({default_policy} \cup std_policies)

-----------------------------------------------------------------------------
(* The closed key trees.                                                   *)

\* Only a decision's commitment section has the voting switches.
SchemaPaths(mode) ==
    DOMAIN ModeDefaults[mode] \
        (IF mode = "decision" THEN {}
         ELSE {"commitment.require_vote_quorum", "commitment.allow_decline_over_approval"})

\* The modes whose schemas a target is held to: a wildcard binds to every
\* mode's sessions, an extension mode's rules are opaque.
TargetModes(mode) ==
    IF mode = "*" THEN StandardModes ELSE {mode} \cap StandardModes

KeysOfKind(p, kind) == {e.key : e \in {x \in p.extra : x.kind = kind}}

\* closed_key_violation over the union of the target's shapes.
ClosedKeyViolation(p) ==
    \/ \E kind \in {"undefined", "nested_vendor", "vendor_scalar"} : KeysOfKind(p, kind) # {}
    \/ ~(DOMAIN p.rules \subseteq UNION {SchemaPaths(m) : m \in TargetModes(p.mode)})

RuleKeyErrors(p) ==
    IF TargetModes(p.mode) = {} THEN {}
    ELSE IF ClosedKeyViolation(p) THEN {"undefined key"}
    ELSE IF ~(KeysOfKind(p, "vendor") \subseteq RuleExtensions) THEN {"unknown extension"}
    ELSE {}

\* serde would read these shapes; the schema does not admit them.
RuleShapeErrors(p) ==
    IF TargetModes(p.mode) # {} /\ p.misshapen # {} THEN {"shape"} ELSE {}

-----------------------------------------------------------------------------
(* The reserved namespace.                                                 *)

\* Compared with every default filled in: spelled out or left out is the same.
ResolvesToSameRules(p, canonical) ==
    /\ p.mode = canonical.mode /\ p.schema_version = canonical.schema_version
    /\ KeysOfKind(p, "vendor") = KeysOfKind(canonical, "vendor")
    /\ ParsesAs("decision", p)
    /\ ParsedRules("decision", p) = ParsedRules("decision", canonical)

ReservedNamespaceErrors(p) ==
    IF p.policy_id \in StdNames /\
       ~\E canonical \in CanonicalStdPolicies(p.policy_id) : ResolvesToSameRules(p, canonical)
    THEN {"reserved"} ELSE {}

-----------------------------------------------------------------------------
(* The value domains.                                                      *)

DECISION_VOTING_ALGORITHMS ==
    {"none", "majority", "supermajority", "unanimous", "weighted", "plurality"}
QUORUM_THRESHOLD_TYPES == {"n_of_m", "percentage", "count"}
COMMITMENT_AUTHORITIES == {"initiator_only", "any_participant", "designated_role"}
PROPOSAL_ACCEPTANCE_CRITERIA == {"all_parties", "counterparty", "initiator"}
QUORUM_ABSTENTION_INTERPRETATIONS == {"neutral", "implicit_reject", "ignored"}

DecisionVotingErrors(r) ==
    (IF r["voting.algorithm"] \notin DECISION_VOTING_ALGORITHMS THEN {"algorithm"} ELSE {}) \cup
    (IF r["voting.threshold"][1] <= 0 \/ r["voting.threshold"][1] > r["voting.threshold"][2]
     THEN {"threshold"} ELSE {}) \cup
    (IF \E v \in DOMAIN r["voting.weights"] : r["voting.weights"][v] <= 0
     THEN {"weights"} ELSE {}) \cup
    (IF r["voting.quorum.type"] \notin {"count", "percentage"} \/ r["voting.quorum.value"] < 0
     THEN {"quorum"} ELSE {})

DecisionErrors(p) ==
    LET r == ParsedRules("decision", p)
        share == r["voting.threshold"]
    IN  DecisionVotingErrors(r) \cup
        (IF DecisionValueDomainError(r) THEN {"domain"} ELSE {}) \cup
        (IF \/ r["voting.algorithm"] = "weighted" /\ DOMAIN r["voting.weights"] = {}
            \/ "voting.weights" \in DOMAIN p.rules /\ DOMAIN r["voting.weights"] = {}
         THEN {"empty weights"} ELSE {}) \cup
        (IF \/ r["voting.algorithm"] = "supermajority" /\ 2 * share[1] <= share[2]
            \/ r["voting.algorithm"] = "majority" /\ 2 * share[1] < share[2]
         THEN {"bar too low"} ELSE {})

\* A supplied zero is refused; an omitted value imposes no bar.
QuorumErrors(p) ==
    LET r     == ParsedRules("quorum", p)
        value == r["threshold.value"]
    IN  (IF r["threshold.type"] \notin QUORUM_THRESHOLD_TYPES THEN {"type"} ELSE {}) \cup
        (IF \/ "threshold.value" \in p.fractional
            \/ r["threshold.type"] = "percentage" /\ value > 100
            \/ "threshold.value" \in DOMAIN p.rules /\ value <= 0
         THEN {"value"} ELSE {}) \cup
        (IF r["abstention.interpretation"] \notin QUORUM_ABSTENTION_INTERPRETATIONS
         THEN {"interpretation"} ELSE {})

ProposalErrors(p) ==
    IF ParsedRules("proposal", p)["acceptance.criterion"] \notin PROPOSAL_ACCEPTANCE_CRITERIA
    THEN {"criterion"} ELSE {}

CommitmentErrors(p) ==
    LET r         == ExtractCommitmentRules(p)
        authority == r["commitment.authority"]
    IN  IF authority \notin COMMITMENT_AUTHORITIES THEN {"authority"}
        ELSE IF authority = "designated_role" /\ r["commitment.designated_roles"] = {}
        THEN {"designated_roles"} ELSE {}

ModeErrors(mode, p) ==
    IF ~ParsesAs(mode, p) THEN {"schema"}
    ELSE CASE mode = "decision" -> DecisionErrors(p)
           [] mode = "quorum"   -> QuorumErrors(p)
           [] mode = "proposal" -> ProposalErrors(p)
           [] OTHER             -> {}

-----------------------------------------------------------------------------
(* Admission.                                                              *)

\* Mutant: a wildcard is held to the schema of the decision mode alone.
ValidateForModesDecisionOnly(p) ==
    UNION {ModeErrors(m, p) : m \in IF p.mode = "*" THEN {"decision"} ELSE TargetModes(p.mode)}

\* validate_rules_for_mode and validate_conditional_constraints.
ValidateForModes(p) ==
    (UNION {ModeErrors(m, p) : m \in TargetModes(p.mode)}) \cup CommitmentErrors(p)

\* Each stage is reached only when the one before it found nothing.
ValidateContent(p, reservedNamespace) ==
    IF p.schema_version \notin SUPPORTED_SCHEMA_VERSIONS THEN {"schema_version"}
    ELSE IF ~p.rules_object THEN {"rules"}
    ELSE IF RuleKeyErrors(p) # {} THEN RuleKeyErrors(p)
    ELSE IF RuleShapeErrors(p) # {} THEN RuleShapeErrors(p)
    ELSE IF reservedNamespace /\ ReservedNamespaceErrors(p) # {} THEN ReservedNamespaceErrors(p)
    ELSE ValidateForModes(p)

\* A what-if candidate: the same admission, its name unchecked.
ValidateCandidate(p) == ValidateContent(p, FALSE)

ValidateDefinition(p) ==
    IF p.policy_id \in {"", DEFAULT_POLICY_ID} THEN {"policy_id"} ELSE ValidateContent(p, TRUE)

-----------------------------------------------------------------------------
(* The registry itself: a function from names to definitions.              *)

RegisterErrors(policies, p) ==
    IF ValidateDefinition(p) # {} THEN ValidateDefinition(p)
    ELSE IF p.policy_id \in DOMAIN policies THEN {"taken"} ELSE {}

Register(policies, p) == Put(policies, p.policy_id, p)

\* Whatever is present under the reserved prefix was pre-registered.
UnregisterErrors(policies, id) ==
    IF id = DEFAULT_POLICY_ID \/ id \in StdNames \cap DOMAIN policies THEN {"builtin"}
    ELSE IF id \notin DOMAIN policies THEN {"not found"} ELSE {}

Unregister(policies, id) == [x \in DOMAIN policies \ {id} |-> policies[x]]

\* resolve: the empty name is the default; an unknown one resolves to nothing.
Resolve(policies, requested) ==
    LET id == IF requested = "" THEN DEFAULT_POLICY_ID ELSE requested
    IN  IF id \in DOMAIN policies THEN policies[id] ELSE NoPolicy

\* load_from_dir: the files in name order, the first refusal is fatal.
LoadFromDir(files) ==
    FoldLeft(LAMBDA acc, p :
                 IF acc.failed \/ RegisterErrors(acc.policies, p) # {}
                 THEN [acc EXCEPT !.failed = TRUE]
                 ELSE [acc EXCEPT !.policies = Register(@, p)],
             [policies |-> BuiltinPolicies, failed |-> FALSE], files)

\* Mutant: every file against the pre-registered policies alone.
ValidateDirNoScratch(files) ==
    [i \in DOMAIN files |-> RegisterErrors(BuiltinPolicies, files[i]) = {}]

\* validate_dir: every file against a scratch registry, none is fatal.
ValidateDir(files) ==
    FoldLeft(LAMBDA acc, p :
                 IF RegisterErrors(acc.policies, p) # {}
                 THEN [acc EXCEPT !.outcomes = Append(@, FALSE)]
                 ELSE [policies |-> Register(acc.policies, p), outcomes |-> Append(acc.outcomes, TRUE)],
             [policies |-> BuiltinPolicies, outcomes |-> <<>>], files).outcomes
=============================================================================
