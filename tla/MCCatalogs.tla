----------------------------- MODULE MCCatalogs -----------------------------
(***************************************************************************)
(* Two participants, a decision and an extension mode, and the policy      *)
(* documents that tell the checks of admission apart.                      *)
(***************************************************************************)
EXTENDS Catalogs

Lenient == Document("p", "decision", 3, "voting.algorithm" :> "none")
Voted == Document("p", "decision", 3,
             "voting.algorithm" :> "majority" @@ "voting.threshold" :> <<1, 2>>)
\* An extension's policy: its rules are opaque.
Opaque == Document("x", "ext.x", 1, "anything" :> 1)

MCDocuments ==
    {Lenient, Voted, Opaque,
     \* refused: each for a reason of its own
     Document("q", "decision", 3, "voting.algorithm" :> "majority" @@ "voting.threshold" :> <<1, 4>>),
     Document("q", "decision", 3, "voting.algorithm" :> "weighted" @@ "voting.weights" :> [v \in {"a"} |-> 0]),
     Document("q", "decision", 3, "commitment.authority" :> "designated_role"),
     Document("q", "*", 1, "threshold.type" :> "weighted" @@ "threshold.value" :> 2),
     Document("q", "quorum", 1, "threshold.type" :> "percentage" @@ "threshold.value" :> 0),
     [Document("q", "quorum", 1, "threshold.value" :> 1) EXCEPT !.fractional = {"threshold.value"}],
     [Document("q", "decision", 1, "voting.threshold" :> <<1, 1>>) EXCEPT !.mistyped = {"voting.threshold"}],
     [Document("q", "task", 1, <<>>) EXCEPT !.extra = {[key |-> "x-acme.audit", kind |-> "vendor"]}],
     Document("q", "task", 1, "voting.algorithm" :> "none"),
     Document("policy.std.majority", "decision", 1, "voting.algorithm" :> "none"),
     Document("q", "proposal", 4, <<>>)}

MCDirs ==
    {<<Lenient>>, <<Voted>>, <<Lenient, Voted>>,
     <<Document("d", "decision", 9, <<>>), Lenient>>}

MCRequests ==
    {[mode |-> m, policy |-> p, version |-> "1.0.0", canonical |-> TRUE]
        : m \in {"decision"}, p \in {"", "p"}} \cup
    {[mode |-> "multi_round", policy |-> "", version |-> "1.0.0", canonical |-> TRUE]} \cup
    {[mode |-> m, policy |-> "", version |-> "", canonical |-> FALSE]
        : m \in {"decision", "ext.x"}}

Env(type, version) ==
    [type |-> type, sender |-> "a", valid |-> TRUE, exact |-> TRUE, pid |-> "p1", value |-> "",
     confidence |-> 0, payload |-> "note", version |-> version, readings |-> <<>>,
     canonical |-> TRUE, action |-> "positive", outcome_positive |-> TRUE]

MCEnvelopes ==
    {Env("Proposal", ""), Env("Commitment", "1.0.0"), Env("Commitment", "2"),
     [Env("Contribute", "") EXCEPT !.readings = "proto" :> "v"]}

Descriptor(mode, types, terminal) ==
    [mode |-> mode, version |-> "2", message_types |-> types, terminal |-> terminal]

MCDescriptors ==
    {Descriptor(m, {"Commitment"}, {"Commitment"}) : m \in {"ext.x", "multi_round", "macp.mode.x"}}
    \cup {Descriptor("ext.x", {"SessionStart", "Proposal", "Commitment"}, {"Commitment"}),
          Descriptor("ext.y", {"Note", "Done"}, {"Done"})}

MCTargetNames == {"macp.mode.x", "ext.z", ""}
=============================================================================
