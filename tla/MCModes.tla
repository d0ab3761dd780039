------------------------------ MODULE MCModes -------------------------------
(***************************************************************************)
(* Small instances of the macp-modes library: three participants, one of   *)
(* them the initiator, and a fourth sender who is not on the roster.       *)
(*                                                                         *)
(* A behaviour is of one part, chosen once: a session of any mode and the  *)
(* what-if questions about it, or a session in an embedder's hands.        *)
(***************************************************************************)
EXTENDS WhatIf, Embedder

VARIABLE part

Policy(id, mode, version, rules) ==
    [policy_id |-> id, mode |-> mode, schema_version |-> version, rules |-> rules,
     mistyped |-> {}]

Vetoes(action, count) ==
    "objection_handling.critical_severity_vetoes" :> TRUE @@
    "objection_handling.veto_threshold" :> count @@
    "objection_handling.critical_objection_action" :> action

MCDecisionPolicies ==
    {NoPolicy,
     Policy("majority", "decision", 3, "voting.algorithm" :> "majority" @@ Vetoes("deny", 1)),
     Policy("guarded", "decision", 3,
        "voting.algorithm" :> "supermajority" @@ "commitment.require_vote_quorum" :> TRUE @@
        "voting.quorum.type" :> "percentage" @@ "voting.quorum.value" :> 67 @@
        "evaluation.required_before_voting" :> TRUE @@ "evaluation.minimum_confidence" :> 50 @@
        Vetoes("finalize_decline", 2)),
     Policy("weighted", "decision", 3,
        "voting.algorithm" :> "weighted" @@ "voting.weights" :> ("b" :> 2 @@ "c" :> 1) @@
        "commitment.allow_decline_over_approval" :> TRUE @@ Vetoes("hold", 1)),
     Policy("legacy", "decision", 2, "voting.algorithm" :> "unanimous" @@
        "commitment.authority" :> "any_participant"),
     [Policy("mistyped", "decision", 3, <<>>) EXCEPT !.mistyped = {"voting.threshold"}]}

MCQuorumPolicies ==
    {NoPolicy,
     Policy("share", "quorum", 3, "threshold.type" :> "percentage" @@ "threshold.value" :> 50),
     Policy("two", "quorum", 3, "threshold.value" :> 2 @@
        "commitment.authority" :> "designated_role" @@ "commitment.designated_roles" :> {"c"}),
     Policy("beyond", "quorum", 3, "threshold.type" :> "count" @@ "threshold.value" :> 4),
     Policy("unknown", "quorum", 3, "threshold.type" :> "weighted" @@ "threshold.value" :> 1)}

MCProposalPolicies ==
    {NoPolicy,
     Policy("counterparty", "proposal", 3, "acceptance.criterion" :> "counterparty" @@
        "counter_proposal.max_rounds" :> 1),
     Policy("initiator", "proposal", 3, "acceptance.criterion" :> "initiator" @@
        "rejection.terminal_on_any_reject" :> TRUE)}

MCTaskPolicies ==
    {NoPolicy,
     Policy("reassign", "task", 3, "assignment.allow_reassignment_on_reject" :> TRUE @@
        "completion.require_output" :> TRUE)}

Started(mode, bound, revs) ==
    [mode : {mode}, policy : bound, semantics_rev : revs]

MCSessions ==
    Started("decision", MCDecisionPolicies, {4}) \cup
    Started("decision", {NoPolicy}, {3}) \cup
    Started("quorum", MCQuorumPolicies, {4}) \cup
    Started("proposal", MCProposalPolicies, {4}) \cup
    Started("task", MCTaskPolicies, {3, 4}) \cup
    Started("multi_round", {NoPolicy}, {2, 3}) \cup
    Started("passthrough", {NoPolicy}, {4})

Commitments ==
    [type : {"Commitment"}, sender : {"a", "c"}, valid : {TRUE},
     action : {"positive", "negative"}, outcome_positive : BOOLEAN]

Message(type, sender) == [type |-> type, sender |-> sender, valid |-> TRUE]

DecisionSay(type, sender, pid, value, confidence, exact) ==
    Message(type, sender) @@
    [pid |-> pid, value |-> value, confidence |-> confidence, exact |-> exact]

MCDecision ==
    {DecisionSay("Proposal", "a", "p1", "", 0, TRUE), DecisionSay("Proposal", "b", "p2", "", 0, TRUE),
     DecisionSay("Proposal", "stranger", "p1", "", 0, TRUE),
     DecisionSay("Evaluation", "b", "p1", "APPROVE", 60, TRUE),
     DecisionSay("Evaluation", "c", "p1", "REVIEW", 90, TRUE),
     DecisionSay("Evaluation", "c", "p1", "BLOCK", 101, TRUE),
     DecisionSay("Evaluation", "c", "p1", "BLOCK", NaN, TRUE),
     DecisionSay("Objection", "c", "p1", "critical", 0, TRUE),
     DecisionSay("Objection", "b", "p1", "low", 0, TRUE),
     DecisionSay("Vote", "b", "p2", "APPROVE", 0, TRUE),
     DecisionSay("Vote", "b", "p2", "REJECT", 0, TRUE),
     DecisionSay("Vote", "c", "p1", "REJECT", 0, FALSE)} \cup
    {DecisionSay("Vote", v, "p1", x, 0, TRUE) :
        v \in Participants, x \in {"APPROVE", "REJECT", "ABSTAIN"}} \cup
    Commitments

MCQuorum ==
    {Message("ApprovalRequest", v) @@ [rid |-> "r", required |-> n] : v \in {"a", "b"}, n \in 0 .. 4} \cup
    {Message(x, v) @@ [rid |-> "r"] : x \in {"Approve", "Reject", "Abstain"}, v \in Participants} \cup
    Commitments

Offer(type, sender, pid) ==
    Message(type, sender) @@ [pid |-> pid, supersedes |-> "p1", terminal |-> FALSE]

MCProposal ==
    {Offer("Proposal", "a", "p1"), Offer("Proposal", "c", "p3"), Offer("CounterProposal", "b", "p2"),
     Offer("CounterProposal", "c", "p3"), Offer("Withdraw", "a", "p1"), Offer("Withdraw", "b", "p2"),
     Offer("Reject", "c", "p1"), [Offer("Reject", "b", "p1") EXCEPT !.terminal = TRUE]} \cup
    {Offer("Accept", v, p) : v \in Participants, p \in {"p1", "p2"}} \cup
    Commitments

Work(type, sender, assignee) ==
    Message(type, sender) @@ [assignee |-> assignee, output |-> sender = "b", finite |-> TRUE]

MCTask ==
    {Work("TaskRequest", "a", x) : x \in {"", "b", "stranger"}} \cup
    {Work(x, v, "") : v \in Participants,
        x \in {"TaskAccept", "TaskReject", "TaskUpdate", "TaskComplete", "TaskFail"}} \cup
    {[Work("TaskUpdate", "b", "") EXCEPT !.finite = FALSE]} \cup
    Commitments

Contribution(sender, readings, canonical) ==
    Message("Contribute", sender) @@ [readings |-> readings, canonical |-> canonical]

\* The last one reads as JSON and, canonically, as another protobuf value.
MCMultiRound ==
    {Contribution(v, "json" :> x, FALSE) : v \in Participants, x \in {"x", "y"}} \cup
    {Contribution("b", "json" :> "x" @@ "proto" :> "y", TRUE), Contribution("c", <<>>, FALSE)} \cup
    Commitments

MCPassthrough ==
    {Message(t, v) @@ [payload |-> t] : t \in {"Note", "Other"}, v \in {"a", "stranger"}} \cup
    Commitments

MCEnvelopes ==
    "decision" :> MCDecision @@ "quorum" :> MCQuorum @@ "proposal" :> MCProposal @@
    "task" :> MCTask @@ "multi_round" :> MCMultiRound @@ "passthrough" :> MCPassthrough

\* The policies a recorded session is asked about: its own rules under
\* another id among them.
Renamed(ps) == {[p EXCEPT !.policy_id = "candidate"] : p \in ps \ {NoPolicy}}

MCCandidates ==
    "decision" :> Renamed(MCDecisionPolicies) @@ "quorum" :> Renamed(MCQuorumPolicies) @@
    "proposal" :> Renamed(MCProposalPolicies) @@ "task" :> Renamed(MCTaskPolicies)

MCRecorded ==
    "decision" :>
        {DecisionSay("Proposal", "a", "p1", "", 0, TRUE),
         DecisionSay("Evaluation", "b", "p1", "APPROVE", 60, TRUE),
         DecisionSay("Objection", "c", "p1", "critical", 0, TRUE),
         DecisionSay("Vote", "b", "p1", "APPROVE", 0, TRUE),
         DecisionSay("Vote", "c", "p1", "REJECT", 0, TRUE)} \cup Commitments @@
    "quorum" :>
        {Message("ApprovalRequest", "a") @@ [rid |-> "r", required |-> 2],
         Message("Approve", "b") @@ [rid |-> "r"], Message("Approve", "c") @@ [rid |-> "r"],
         Message("Reject", "a") @@ [rid |-> "r"]} \cup Commitments @@
    "proposal" :>
        {Offer("Proposal", "a", "p1"), Offer("CounterProposal", "b", "p2"), Offer("Reject", "c", "p1")}
        \cup {Offer("Accept", v, "p1") : v \in Participants} \cup Commitments @@
    "task" :>
        {Work("TaskRequest", "a", "")} \cup
        {Work(x, v, "") : v \in {"b", "c"}, x \in {"TaskAccept", "TaskReject", "TaskComplete"}} \cup
        Commitments

-----------------------------------------------------------------------------
(* The embedders' deployments, policies and clients.                       *)

Deployment(descriptor, cap, ttl) ==
    [strict |-> "by_name", descriptor_mode_version |-> descriptor,
     default_max_suspend_ms |-> cap, max_ttl_ms |-> ttl]

MCDeployments ==
    {Deployment("v1", 0, 2), [Deployment("v2", 1, 1) EXCEPT !.strict = "strict"]}

MCDefinitions ==
    {[policy_id |-> "timed", mode |-> "handoff", timeout |-> 1],
     [policy_id |-> "timed", mode |-> "ext", timeout |-> 0]}

Starting(mode, version, policy) ==
    [id |-> <<"client", 1>>, type |-> "SessionStart", sender |-> "a", mode |-> mode,
     shaped |-> TRUE, id_portable |-> TRUE, timestamp |-> 0,
     payload |-> [ttl_ms |-> 1, max_suspend_ms |-> 0, mode_version |-> version, complete |-> TRUE,
                  policy_version |-> policy]]

MCStarts ==
    {Starting("handoff", "v1", "timed"), Starting("handoff", "", ""), Starting("ext", "", ""),
     Starting("ext", "v2", "timed"),
     [Starting("handoff", "v1", "timed") EXCEPT !.id = <<"implicit-accept", "h">>],
     [Starting("handoff", "v1", "timed") EXCEPT !.payload.ttl_ms = 2, !.payload.max_suspend_ms = 2, !.timestamp = 1],
     [Starting("ext", "", "") EXCEPT !.id_portable = FALSE]}

Submitted(i, type, sender) ==
    [id |-> <<"client", i>>, type |-> type, sender |-> sender, shaped |-> TRUE, addressed |-> TRUE,
     valid |-> TRUE, hid |-> "h", target |-> "b", by |-> "", implicit |-> FALSE,
     action |-> "positive", outcome_positive |-> TRUE, timestamp |-> 0, payload |-> type]

MCSubmissions ==
    {Submitted(2, "HandoffOffer", "a"), Submitted(3, "HandoffDecline", "b"),
     Submitted(4, "HandoffContext", "c"), Submitted(5, "Commitment", "a"), Submitted(6, "Note", "b"),
     [Submitted(7, "Note", "b") EXCEPT !.shaped = FALSE],
     [Submitted(8, "Note", "b") EXCEPT !.addressed = FALSE],
     [Submitted(9, "HandoffAccept", "b") EXCEPT !.id = <<"implicit-accept", "h">>]}

-----------------------------------------------------------------------------
(* The two parts.                                                          *)

LibraryInit ==
    /\ part \in {"modes", "embedder"}
    /\ WhatIfInit /\ (part = "embedder" => ~recording)
    /\ EmbedderInit /\ (part = "modes" => opts = Deployment("v1", 0, 2))

LibraryNext ==
    /\ UNCHANGED part
    /\ \/ part = "modes" /\ WhatIfNext /\ UNCHANGED embedderVars
       \/ part = "embedder" /\ EmbedderNext /\ UNCHANGED whatIfVars

LibrarySpec == LibraryInit /\ [][LibraryNext]_<<part, whatIfVars, embedderVars>>
=============================================================================
