--------------------------- MODULE CatalogProofs ----------------------------
(***************************************************************************)
(* Proofs about the catalogues (Catalogs), for every set of documents,     *)
(* descriptors, requests and envelopes and every bound.                    *)
(***************************************************************************)
EXTENDS Catalogs, FiniteSetTheorems, SequenceTheorems, TLAPS

-----------------------------------------------------------------------------
(* The watcher.                                                            *)

\* A stream exists only while the process runs; what it has still to read, or
\* what a registry call has still to send, accounts for every change since it
\* listed.
WatchInv ==
    /\ DOMAIN watch = {"state", "seen", "pending"} /\ watch = [f \in DOMAIN watch |-> watch[f]]
    /\ watch.pending \in Nat /\ unsent \in Nat
    /\ up \in BOOLEAN
    /\ ~up => watch.state = "closed"
    /\ WatcherFresh

\* The catalogue changes only with a notification to follow.
LEMMA WatchKept ==
  ASSUME WatchInv, [Next]_vars
  PROVE  WatchInv'
  <1> USE DEF WatchInv, WatcherFresh, registries, store
  <1>1. CASE StartSession
    BY <1>1 DEF StartSession
  <1>2. CASE Message
    BY <1>2 DEF Message
  <1>3. CASE Checkpoint
    BY <1>3 DEF Checkpoint
  <1>4. CASE RegisterPolicy
    BY <1>4 DEF RegisterPolicy
  <1>5. CASE UnregisterPolicy
    BY <1>5 DEF UnregisterPolicy
  <1>6. CASE RegisterExtMode
    BY <1>6 DEF RegisterExtMode
  <1>7. CASE UnregisterExtMode
    BY <1>7 DEF UnregisterExtMode
  <1>8. CASE PromoteMode
    BY <1>8 DEF PromoteMode
  <1>9. CASE SendChange
    BY <1>9 DEF SendChange
  <1>10. CASE WatchPolicies
    <2>1. up /\ UNCHANGED <<up, policies, unsent>>
      BY <1>10 DEF WatchPolicies, WatchStep
    <2>2. CASE watch.state = "closed"
      <3>1. watch' = [Closed EXCEPT !.state = "subscribed"]
        BY <1>10, <2>2 DEF WatchPolicies, WatchStep
      <3>2. watch'.state = "subscribed" /\ watch'.pending = 0 /\ DOMAIN watch' = {"state", "seen", "pending"}
        BY <3>1 DEF Closed
      <3> QED BY <2>1, <3>1, <3>2
    <2>3. CASE watch.state # "closed"
      <3>1. watch' = [watch EXCEPT !.state = "live", !.seen = policies]
        BY <1>10, <2>3 DEF WatchPolicies, WatchStep
      <3>2. /\ watch'.seen = policies /\ watch'.pending = watch.pending
            /\ DOMAIN watch' = {"state", "seen", "pending"}
        BY <3>1
      <3> QED BY <2>1, <3>1, <3>2
    <2> QED BY <2>2, <2>3
  <1>11. CASE WatchNext
    <2>1. up /\ UNCHANGED <<up, policies, unsent>> /\ watch.pending > 0
      BY <1>11 DEF WatchNext, WatchStep
    <2>2. CASE watch.pending > ChannelCapacity
      <3>1. watch' = Closed
        BY <1>11, <2>2 DEF WatchNext, WatchStep
      <3> QED BY <2>1, <3>1 DEF Closed
    <2>3. CASE ~(watch.pending > ChannelCapacity)
      <3>1. watch' = [watch EXCEPT !.pending = @ - 1, !.seen = policies]
        BY <1>11, <2>3 DEF WatchNext, WatchStep
      <3>2. /\ watch'.seen = policies /\ watch'.pending \in Nat
            /\ DOMAIN watch' = {"state", "seen", "pending"}
        BY <2>1, <3>1
      <3> QED BY <2>1, <3>1, <3>2
    <2> QED BY <2>2, <2>3
  <1>12. CASE Crash
    BY <1>12 DEF Crash, Closed
  <1>13. CASE Restart
    BY <1>13 DEF Restart
  <1>14. CASE EditDir
    BY <1>14 DEF EditDir
  <1>15. CASE WhatIfReplay
    BY <1>15 DEF WhatIfReplay
  <1>16. CASE UNCHANGED vars
    BY <1>16 DEF vars
  <1> QED BY <1>1, <1>2, <1>3, <1>4, <1>5, <1>6, <1>7, <1>8, <1>9, <1>10, <1>11, <1>12, <1>13,
             <1>14, <1>15, <1>16 DEF Next

\* A policy watcher with nothing left to read has seen the registry as it is,
\* whatever registrations, restarts and listings interleave (watch_policies).
THEOREM WatcherTheorem == Spec => []WatcherFresh
  <1>1. Init => WatchInv
    <2> SUFFICES ASSUME Init PROVE WatchInv
      OBVIOUS
    <2>1. watch = Closed /\ unsent = 0 /\ up = FALSE
      BY DEF Init
    <2>2. /\ DOMAIN Closed = {"state", "seen", "pending"}
          /\ Closed = [f \in DOMAIN Closed |-> Closed[f]]
          /\ Closed.pending = 0 /\ Closed.state = "closed"
      BY DEF Closed
    <2>3. watch.pending \in Nat /\ unsent \in Nat /\ watch.state = "closed"
      BY <2>1, <2>2
    <2>4. WatcherFresh
      BY <2>1 DEF WatcherFresh
    <2>5. DOMAIN watch = {"state", "seen", "pending"} /\ watch = [f \in DOMAIN watch |-> watch[f]]
      BY <2>1, <2>2
    <2> QED BY <2>1, <2>3, <2>4, <2>5 DEF WatchInv
  <1>2. WatchInv /\ [Next]_vars => WatchInv'
    BY WatchKept
  <1>3. WatchInv => WatcherFresh
    BY DEF WatchInv
  <1> QED BY <1>1, <1>2, <1>3, PTL DEF Spec

-----------------------------------------------------------------------------
(* Reserved names.                                                         *)

\* The registrations are whole records, and a reserved name is a built-in's.
ModesInv ==
    /\ \A n \in DOMAIN modes :
          /\ DOMAIN modes[n] = {"impl", "version", "standards_track", "builtin", "strict"}
          /\ modes[n].impl # Unknown
    /\ NoMasquerade

\* A handler with a name is a known one.
LEMMA KnownHandler ==
  ASSUME NEW name, name # "unknown", NEW types
  PROVE  Handler(name, types) # Unknown
  <1>1. Handler(name, types).name = name /\ Unknown.name = "unknown"
    BY DEF Handler, Unknown
  <1> QED BY <1>1

LEMMA BuiltinModesWhole ==
  \A n \in DOMAIN BuiltinModes :
      /\ DOMAIN BuiltinModes[n] = {"impl", "version", "standards_track", "builtin", "strict"}
      /\ BuiltinModes[n].impl # Unknown /\ BuiltinModes[n].builtin
  <1> SUFFICES ASSUME NEW n \in DOMAIN BuiltinModes
               PROVE  /\ DOMAIN BuiltinModes[n]
                           = {"impl", "version", "standards_track", "builtin", "strict"}
                      /\ BuiltinModes[n].impl # Unknown /\ BuiltinModes[n].builtin
    OBVIOUS
  <1>1. n \in StandardNames \cup {"multi_round"} /\ n # "unknown"
    BY DEF BuiltinModes, Put, StandardNames
  <1>2. \E standard : BuiltinModes[n] = Builtin(n, standard)
    BY <1>1 DEF BuiltinModes, Put, StandardNames
  <1>3. Handler(n, {}) # Unknown
    BY <1>1, KnownHandler
  <1> QED BY <1>2, <1>3 DEF Builtin

LEMMA MasqueradeKept ==
  ASSUME ModesInv, [Next]_vars
  PROVE  ModesInv'
  <1> USE DEF ModesInv, NoMasquerade, registries, store
  <1>1. CASE UNCHANGED modes
    BY <1>1
  <1>2. CASE RegisterExtMode
    <2>1. PICK d \in Descriptors :
             ~RegisterExtensionRefused(modes, d) /\ modes' = RegisterExtension(modes, d)
      BY <1>2 DEF RegisterExtMode
    <2>2. Handler("passthrough", d.message_types \ {"SessionStart"}) # Unknown
      BY KnownHandler
    <2> QED BY <2>1, <2>2 DEF RegisterExtensionRefused, DescriptorErrors, RegisterExtension, Put
  <1>3. CASE UnregisterExtMode
    BY <1>3 DEF UnregisterExtMode, UnregisterExtension, Without
  <1>4. CASE PromoteMode
    <2>1. PICK name \in DOMAIN modes, new \in TargetNames \cup DOMAIN modes :
             ~PromoteRefused(modes, name, new) /\ modes' = Promote(modes, name, new)
      BY <1>4 DEF PromoteMode
    <2> DEFINE entry == [modes[name] EXCEPT !.standards_track = TRUE, !.strict = TRUE]
    <2>2. DOMAIN entry = DOMAIN modes[name] /\ entry.builtin = modes[name].builtin /\ entry.impl = modes[name].impl
      OBVIOUS
    <2>3. new \in ReservedNames => new = name
      BY <2>1 DEF PromoteRefused
    <2>4. modes' = Put(Without(modes, name), new, entry)
      BY <2>1 DEF Promote
    <2> HIDE DEF entry
    <2> QED BY <2>2, <2>3, <2>4 DEF Without, Put
  <1>5. CASE Restart
    <2>1. modes' = BuiltinModes
      BY <1>5 DEF Restart
    <2> QED BY <2>1, BuiltinModesWhole
  <1>6. CASE StartSession \/ Message \/ Checkpoint \/ RegisterPolicy \/ UnregisterPolicy
    BY <1>1, <1>6 DEF StartSession, Message, Checkpoint, RegisterPolicy, UnregisterPolicy
  <1>7. CASE SendChange \/ WatchPolicies \/ WatchNext \/ Crash \/ EditDir \/ WhatIfReplay
    BY <1>1, <1>7 DEF SendChange, WatchPolicies, WatchNext, WatchStep, Crash, EditDir, WhatIfReplay
  <1> QED BY <1>1, <1>2, <1>3, <1>4, <1>5, <1>6, <1>7 DEF Next, vars

-----------------------------------------------------------------------------
(* What an admitted policy means.                                          *)

AnyOf(t) == CHOOSE b \in t : TRUE

AddWeight(h, weights, b, acc) == Weight(weights, b.voter) + acc

IntegerSum(h, weights, base, ballots, sum) == sum \in Int

WeightFold == INSTANCE FoldProofs WITH Pick <- AnyOf, Step <- AddWeight, Holds <- IntegerSum

\* No ballots weigh nothing.
LEMMA NoWeight ==
  ASSUME NEW weights
  PROVE  WeightOf(weights, {}) = 0
  <1>1. WeightFold!Picks({})
    BY DEF WeightFold!Picks, AnyOf
  <1>2. WeightFold!IsFiniteSet({})
    BY FS_EmptySet DEF IsFiniteSet, WeightFold!IsFiniteSet
  <1>3. WeightFold!FoldFcn(0, weights, 0, {})[{}] = WeightFold!Unfold(0, weights, 0, {}, WeightFold!FoldFcn(0, weights, 0, {}))
    BY <1>1, <1>2, WeightFold!FoldUnfolds
  <1>4. WeightOf(weights, {}) = WeightFold!FoldFcn(0, weights, 0, {})[{}]
    BY DEF WeightOf, MapThenSumSet, MapThenFoldSet, WeightFold!FoldFcn, WeightFold!Recursion, WeightFold!Unfold,
           AnyOf, AddWeight
  <1> QED BY <1>3, <1>4 DEF WeightFold!Unfold

LEMMA WeightIsInt ==
  ASSUME NEW weights, \A v \in DOMAIN weights : weights[v] \in Int,
         NEW ballots, IsFiniteSet(ballots)
  PROVE  WeightOf(weights, ballots) \in Int
  <1>1. WeightFold!Picks(ballots)
    BY DEF WeightFold!Picks, AnyOf
  <1>2. WeightFold!IsFiniteSet(ballots)
    BY DEF IsFiniteSet, WeightFold!IsFiniteSet
  <1>3. \A b : Weight(weights, b.voter) \in Int
    BY DEF Weight
  <1>4. \A t \in SUBSET ballots : \A acc :
           t # {} /\ IntegerSum(0, weights, 0, t \ {AnyOf(t)}, acc)
              => IntegerSum(0, weights, 0, t, AddWeight(0, weights, AnyOf(t), acc))
    BY <1>3 DEF IntegerSum, AddWeight
  <1>5. IntegerSum(0, weights, 0, ballots, WeightFold!FoldFcn(0, weights, 0, ballots)[ballots])
    BY <1>1, <1>2, <1>4, WeightFold!FoldInduction DEF IntegerSum
  <1>6. WeightOf(weights, ballots) = WeightFold!FoldFcn(0, weights, 0, ballots)[ballots]
    BY DEF WeightOf, MapThenSumSet, MapThenFoldSet, WeightFold!FoldFcn, WeightFold!Recursion,
           WeightFold!Unfold, AnyOf, AddWeight
  <1> QED BY <1>5, <1>6 DEF IntegerSum

AllReject == [proposal \in {"p1"} |-> [v \in Participants |-> "REJECT"]]

\* A round of rejections passes under no share above zero and no algorithm.
LEMMA RejectionsFail ==
  ASSUME NEW r, r["voting.threshold"] \in Int \X (Nat \ {0}), r["voting.threshold"][1] > 0,
         \A v \in DOMAIN r["voting.weights"] : r["voting.weights"][v] \in Int
  PROVE  VotingResult(r, AllReject, Participants) # "Passed"
  <1> DEFINE rejects == Cast(AllReject, "REJECT")
             reject == Cardinality(rejects)
             against == WeightOf(r["voting.weights"], rejects)
             t1 == r["voting.threshold"][1]
             t2 == r["voting.threshold"][2]
  <1>1. Cast(AllReject, "APPROVE") = {}
    BY DEF Cast, Ballots, AllReject
  <1>2. rejects = {[proposal |-> "p1", voter |-> v, vote |-> "REJECT"] : v \in Participants}
    BY DEF Cast, Ballots, AllReject
  <1>3. IsFiniteSet(rejects)
    <2> DEFINE ballot == [v \in Participants |-> [proposal |-> "p1", voter |-> v, vote |-> "REJECT"]]
    <2>1. ballot \in Surjection(Participants, rejects)
      BY <1>2 DEF Surjection
    <2> QED BY <2>1, RosterAssumption, FS_Surjection
  <1>4. reject \in Nat /\ (reject = 0 <=> rejects = {})
    BY <1>3, FS_CardinalityType, FS_EmptySet
  <1>5. Cardinality(Cast(AllReject, "APPROVE")) = 0 /\ 0 + reject = reject
    BY <1>1, <1>4, FS_EmptySet
  <1>6. WeightOf(r["voting.weights"], Cast(AllReject, "APPROVE")) = 0 /\ against \in Int
    BY <1>1, <1>3, NoWeight, WeightIsInt
  <1>7. t1 \in Int /\ t2 \in Int /\ t1 > 0
    OBVIOUS
  <1>8. ASSUME NEW part \in Int, part > 0
        PROVE  ~Reaches(0, part, r["voting.threshold"]) /\ ~Reaches(0, part, <<2, 3>>)
    <2>1. t1 * part > 0 /\ 2 * part > 0 /\ 0 * t2 = 0
      <3> HIDE DEF t1, t2
      <3> QED BY <1>7, <1>8
    <2> QED BY <2>1 DEF Reaches
  <1>9. reject > 0 => ~UnanimousApproval(AllReject, Participants)
    BY <1>4 DEF UnanimousApproval
  <1> HIDE DEF rejects, reject, against, t1, t2
  <1>10. CASE reject = 0
    BY <1>5, <1>10 DEF VotingResult, reject, rejects
  <1>11. CASE reject > 0
    <2>1. 0 + against = against /\ (against > 0 \/ against = 0 \/ against < 0)
      BY <1>6
    <2> USE DEF VotingResult, reject, rejects, against
    <2>2. CASE r["voting.algorithm"] = "majority"
      BY <1>4, <1>5, <1>8, <1>11, <2>2
    <2>3. CASE r["voting.algorithm"] = "supermajority"
      BY <1>4, <1>5, <1>8, <1>11, <2>3
    <2>4. CASE r["voting.algorithm"] = "unanimous"
      BY <1>5, <1>9, <1>11, <2>4
    <2>5. CASE r["voting.algorithm"] = "weighted"
      BY <1>5, <1>6, <1>8, <1>11, <2>1, <2>5
    <2>6. CASE r["voting.algorithm"] = "plurality"
      BY <1>4, <1>5, <1>11, <2>6
    <2>7. CASE r["voting.algorithm"] \notin {"majority", "supermajority", "unanimous", "weighted",
                                             "plurality"}
      BY <1>5, <1>11, <2>7
    <2> QED BY <2>2, <2>3, <2>4, <2>5, <2>6, <2>7
  <1> QED BY <1>4, <1>10, <1>11

\* Content that every stage of admission passed, or that needs no admission.
Sound(p) ==
    /\ WellTyped(p)
    /\ p.schema_version \in SUPPORTED_SCHEMA_VERSIONS
    /\ ValidateForModes(p) = {}

LEMMA AdmittedIsSound ==
  ASSUME NEW p, WellTyped(p), NEW reserved, ValidateContent(p, reserved) = {}
  PROVE  Sound(p)
  BY DEF ValidateContent, Sound

\* A sound policy means something in each of its modes.
LEMMA SoundMeans ==
  ASSUME NEW p, Sound(p), NEW m \in TargetModes(p.mode)
  PROVE  Meaningful(m, p)
  <1> DEFINE r == ParsedRules(m, p)
  <1>1. m \in StandardModes /\ ModeErrors(m, p) = {} /\ CommitmentErrors(p) = {}
    <2> DEFINE all == UNION {ModeErrors(n, p) : n \in TargetModes(p.mode)}
    <2>1. all \cup CommitmentErrors(p) = {}
      BY DEF Sound, ValidateForModes
    <2>2. ModeErrors(m, p) \subseteq all
      OBVIOUS
    <2>3. m \in StandardModes
      BY DEF TargetModes
    <2> HIDE DEF all
    <2> QED BY <2>1, <2>2, <2>3
  <1>2. ParsesAs(m, p)
    BY <1>1 DEF ModeErrors
  <1>3. Unevaluable(m, p) = {}
    BY <1>2 DEF Unevaluable, Sound
  <1>4. CommitmentPaths \subseteq DOMAIN ModeDefaults[m]
    BY <1>1 DEF ModeDefaults, StandardModes, DecisionDefaults, ProposalDefaults, TaskDefaults,
                HandoffDefaults, QuorumDefaults, WithCommitment
  <1>5. \A path \in CommitmentPaths : ModeDefaults[m][path] = CommitmentDefaults[path]
    BY <1>1 DEF ModeDefaults, StandardModes, DecisionDefaults, ProposalDefaults, TaskDefaults,
                HandoffDefaults, QuorumDefaults, WithCommitment
  <1>6. \A path \in CommitmentPaths : ExtractCommitmentRules(p)[path] = r[path]
    BY <1>2, <1>4, <1>5 DEF ExtractCommitmentRules, CommitmentDefaults, ParsesAs, ParsedRules
  <1>7. \E sender \in {Initiator} \cup Participants \cup r["commitment.designated_roles"] :
           AuthorityAllows(r["commitment.authority"], r["commitment.designated_roles"], sender)
    <2>1. /\ ExtractCommitmentRules(p)["commitment.authority"] = r["commitment.authority"]
          /\ ExtractCommitmentRules(p)["commitment.designated_roles"]
                = r["commitment.designated_roles"]
      BY <1>6 DEF CommitmentPaths
    <2> HIDE DEF r
    <2> QED BY <1>1, <2>1 DEF CommitmentErrors, COMMITMENT_AUTHORITIES, AuthorityAllows,
                              IsDeclaredParticipant
  <1>8. ASSUME m = "decision"
        PROVE  VotingResult(r, AllReject, Participants) # "Passed"
    <2>1. DecisionVotingErrors(r) = {}
      BY <1>1, <1>2, <1>8 DEF ModeErrors, DecisionErrors
    <2>2. {"voting.threshold", "voting.weights"} \subseteq DOMAIN ModeDefaults[m]
      BY <1>8 DEF ModeDefaults, StandardModes, DecisionDefaults, WithCommitment
    <2>3. /\ ModeDefaults[m]["voting.threshold"] = <<1, 2>>
          /\ ModeDefaults[m]["voting.weights"] = <<>>
      BY <1>8 DEF ModeDefaults, StandardModes, DecisionDefaults, WithCommitment, CommitmentPaths
    <2>4. /\ "voting.threshold" \notin p.mistyped /\ "voting.weights" \notin p.mistyped
      BY <1>2, <2>2 DEF ParsesAs
    <2>5. r["voting.threshold"] \in Int \X (Nat \ {0})
      <3>1. CASE "voting.threshold" \in DOMAIN p.rules
        BY <2>2, <2>4, <3>1 DEF Sound, WellTyped, ParsedRules
      <3>2. CASE "voting.threshold" \notin DOMAIN p.rules
        <4>1. r["voting.threshold"] = <<1, 2>>
          BY <2>2, <2>3, <3>2 DEF ParsedRules
        <4> QED BY <4>1
      <3> QED BY <3>1, <3>2
    <2>6. \A v \in DOMAIN r["voting.weights"] : r["voting.weights"][v] \in Int
      <3>1. CASE "voting.weights" \in DOMAIN p.rules
        BY <2>2, <2>4, <3>1 DEF Sound, WellTyped, ParsedRules
      <3>2. CASE "voting.weights" \notin DOMAIN p.rules
        <4>1. r["voting.weights"] = <<>>
          BY <2>2, <2>3, <3>2 DEF ParsedRules
        <4>2. DOMAIN <<>> = {}
          OBVIOUS
        <4> QED BY <4>1, <4>2
      <3> QED BY <3>1, <3>2
    <2>7. r["voting.threshold"][1] > 0
      <3> HIDE DEF r
      <3> QED BY <2>1, <2>5 DEF DecisionVotingErrors
    <2> HIDE DEF r
    <2> QED BY <2>5, <2>6, <2>7, RejectionsFail
  <1>9. ASSUME m = "quorum"
        PROVE  EffectiveThreshold(r["threshold.type"], r["threshold.value"],
                                  Cardinality(Participants)).kind # "Unsatisfiable"
    <2>1. r["threshold.type"] \in QUORUM_THRESHOLD_TYPES
      BY <1>1, <1>2, <1>9 DEF ModeErrors, QuorumErrors
    <2>2. Cardinality(Participants) # 0
      BY RosterAssumption, FS_EmptySet
    <2> HIDE DEF r
    <2> QED BY <2>1, <2>2 DEF QUORUM_THRESHOLD_TYPES, EffectiveThreshold, Inert, Approvals
  <1> QED BY <1>3, <1>7, <1>8, <1>9 DEF Meaningful, AllReject

-----------------------------------------------------------------------------
(* The policy registry.                                                    *)

LEMMA DefaultIsSound == Sound(default_policy)
  <1> DEFINE p == default_policy
  <1>1. p.mistyped = {} /\ p.schema_version = 1 /\ p.mode = "*" /\ p.fractional = {}
    BY DEF default_policy, Document
  <1>2. DOMAIN p.rules = {"voting.algorithm", "voting.quorum.type", "voting.quorum.value",
                   "objection_handling.critical_severity_vetoes",
                   "objection_handling.veto_threshold", "evaluation.required_before_voting",
                   "evaluation.minimum_confidence", "commitment.authority",
                   "commitment.designated_roles", "commitment.require_vote_quorum"}
    BY DEF default_policy, Document
  <1>3. \A path \in DOMAIN p.rules : p.rules[path] = DecisionDefaults[path]
    BY DEF default_policy, Document
  <1> HIDE DEF p
  <1>4. WellTyped(p)
    <2>1. DecisionDefaults["objection_handling.veto_threshold"] = 1
      BY DEF DecisionDefaults, WithCommitment, CommitmentPaths
    <2>2. p.rules["objection_handling.veto_threshold"] = 1
      BY <1>2, <1>3, <2>1
    <2> QED BY <1>2, <2>2 DEF WellTyped
  <1>5. CommitmentErrors(p) = {}
    <2>1. ExtractCommitmentRules(p)["commitment.authority"] = "initiator_only"
      BY <1>1, <1>2, <1>3 DEF ExtractCommitmentRules, CommitmentDefaults, CommitmentPaths,
           DecisionDefaults, WithCommitment
    <2> QED BY <2>1 DEF CommitmentErrors, COMMITMENT_AUTHORITIES
  <1>6. \A m \in StandardModes : ParsesAs(m, p)
    BY <1>1 DEF ParsesAs
  <1>7. DecisionErrors(p) = {}
    <2> DEFINE r == ParsedRules("decision", p)
    <2>1. DOMAIN ModeDefaults["decision"] = DOMAIN DecisionDefaults /\ ModeDefaults["decision"] = DecisionDefaults
      BY DEF ModeDefaults, StandardModes
    <2>2. \A path \in DOMAIN DecisionDefaults : r[path] = DecisionDefaults[path]
      BY <1>2, <1>3, <2>1 DEF ParsedRules
    <2>3. /\ DecisionDefaults["voting.algorithm"] = "none"
          /\ DecisionDefaults["voting.threshold"] = <<1, 2>>
          /\ DecisionDefaults["voting.weights"] = <<>>
          /\ DecisionDefaults["voting.quorum.type"] = "count"
          /\ DecisionDefaults["voting.quorum.value"] = 0
          /\ DecisionDefaults["objection_handling.veto_threshold"] = 1
          /\ DecisionDefaults["evaluation.minimum_confidence"] = 0
      BY DEF DecisionDefaults, WithCommitment, CommitmentPaths
    <2>4. {"voting.algorithm", "voting.threshold", "voting.weights", "voting.quorum.type",
           "voting.quorum.value", "objection_handling.veto_threshold",
           "evaluation.minimum_confidence"} \subseteq DOMAIN DecisionDefaults
      BY DEF DecisionDefaults, WithCommitment
    <2>5. /\ r["voting.algorithm"] = "none" /\ r["voting.threshold"] = <<1, 2>>
          /\ r["voting.weights"] = <<>> /\ r["voting.quorum.type"] = "count"
          /\ r["voting.quorum.value"] = 0 /\ r["objection_handling.veto_threshold"] = 1
          /\ r["evaluation.minimum_confidence"] = 0
      BY <2>2, <2>3, <2>4
    <2> HIDE DEF r
    <2>6. DOMAIN r["voting.weights"] = {}
      BY <2>5
    <2>7. DecisionVotingErrors(r) = {}
      BY <2>5, <2>6 DEF DecisionVotingErrors, DECISION_VOTING_ALGORITHMS
    <2>8. ~DecisionValueDomainError(r)
      BY <2>5 DEF DecisionValueDomainError
    <2>9. "voting.weights" \notin DOMAIN p.rules
      BY <1>2
    <2> QED BY <2>5, <2>6, <2>7, <2>8, <2>9 DEF DecisionErrors, r
  <1>8. QuorumErrors(p) = {}
    <2> DEFINE r == ParsedRules("quorum", p)
    <2>1. /\ r["threshold.type"] = "n_of_m" /\ r["threshold.value"] = 0
          /\ r["abstention.interpretation"] = "neutral"
      BY <1>2 DEF ParsedRules, ModeDefaults, StandardModes, QuorumDefaults, WithCommitment, CommitmentPaths
    <2> HIDE DEF r
    <2> QED BY <1>1, <1>2, <2>1 DEF QuorumErrors, r, QUORUM_THRESHOLD_TYPES, QUORUM_ABSTENTION_INTERPRETATIONS
  <1>9. ProposalErrors(p) = {}
    <2>1. ParsedRules("proposal", p)["acceptance.criterion"] = "all_parties"
      BY <1>2 DEF ParsedRules, ModeDefaults, StandardModes, ProposalDefaults, WithCommitment, CommitmentPaths
    <2> QED BY <2>1 DEF ProposalErrors, PROPOSAL_ACCEPTANCE_CRITERIA
  <1>10. \A m \in StandardModes : ModeErrors(m, p) = {}
    BY <1>6, <1>7, <1>8, <1>9 DEF ModeErrors, StandardModes
  <1>11. ValidateForModes(p) = {}
    BY <1>1, <1>5, <1>10 DEF ValidateForModes, TargetModes
  <1> QED BY <1>1, <1>4, <1>11 DEF Sound, SUPPORTED_SCHEMA_VERSIONS, p

\* What the rules of a standard policy set.
StdShaped(rules) ==
    /\ {"voting.algorithm", "voting.quorum.type", "voting.quorum.value"} \subseteq DOMAIN rules
    /\ DOMAIN rules \subseteq {"voting.algorithm", "voting.quorum.type", "voting.quorum.value",
                               "commitment.require_vote_quorum", "voting.threshold"}
    /\ rules["voting.quorum.type"] = "count"
    /\ rules["voting.quorum.value"] \in Nat
    /\ \/ rules["voting.algorithm"] = "unanimous" /\ "voting.threshold" \notin DOMAIN rules
       \/ /\ rules["voting.algorithm"] = "majority"
          /\ "voting.threshold" \in DOMAIN rules /\ rules["voting.threshold"] = <<1, 2>>
       \/ /\ rules["voting.algorithm"] = "supermajority"
          /\ "voting.threshold" \in DOMAIN rules /\ rules["voting.threshold"] = <<2, 3>>

LEMMA StdIsSound ==
  ASSUME NEW id, NEW rules, StdShaped(rules)
  PROVE  Sound(Document(id, "decision", 1, rules))
  <1> DEFINE p == Document(id, "decision", 1, rules)
             r == ParsedRules("decision", p)
  <1>1. p.mistyped = {} /\ p.schema_version = 1 /\ p.mode = "decision" /\ p.rules = rules
    BY DEF Document
  <1> HIDE DEF p
  <1>2. WellTyped(p)
    BY <1>1 DEF WellTyped, StdShaped
  <1>3. CommitmentErrors(p) = {}
    <2>1. ExtractCommitmentRules(p)["commitment.authority"] = "initiator_only"
      BY <1>1 DEF ExtractCommitmentRules, CommitmentDefaults, CommitmentPaths, StdShaped
    <2> QED BY <2>1 DEF CommitmentErrors, COMMITMENT_AUTHORITIES
  <1>4. ParsesAs("decision", p)
    BY <1>1 DEF ParsesAs
  <1>5. ModeDefaults["decision"] = DecisionDefaults
    BY DEF ModeDefaults, StandardModes
  <1>6. /\ DecisionDefaults["voting.threshold"] = <<1, 2>>
        /\ DecisionDefaults["voting.weights"] = <<>>
        /\ DecisionDefaults["objection_handling.veto_threshold"] = 1
        /\ DecisionDefaults["evaluation.minimum_confidence"] = 0
    BY DEF DecisionDefaults, WithCommitment, CommitmentPaths
  <1>7. {"voting.algorithm", "voting.threshold", "voting.weights", "voting.quorum.type",
         "voting.quorum.value", "objection_handling.veto_threshold",
         "evaluation.minimum_confidence"} \subseteq DOMAIN DecisionDefaults
    BY DEF DecisionDefaults, WithCommitment
  <1>8. /\ r["voting.algorithm"] = rules["voting.algorithm"]
        /\ r["voting.quorum.type"] = "count" /\ r["voting.quorum.value"] \in Nat
        /\ r["voting.weights"] = <<>> /\ r["objection_handling.veto_threshold"] = 1
        /\ r["evaluation.minimum_confidence"] = 0
        /\ "voting.weights" \notin DOMAIN rules
    BY <1>1, <1>5, <1>6, <1>7 DEF ParsedRules, StdShaped
  <1>9. r["voting.threshold"] = IF "voting.threshold" \in DOMAIN rules THEN rules["voting.threshold"] ELSE <<1, 2>>
    BY <1>1, <1>5, <1>6, <1>7 DEF ParsedRules
  <1>10. \/ r["voting.threshold"] = <<1, 2>> /\ r["voting.algorithm"] \in {"unanimous", "majority"}
         \/ r["voting.threshold"] = <<2, 3>> /\ r["voting.algorithm"] = "supermajority"
    BY <1>8, <1>9 DEF StdShaped
  <1> HIDE DEF r
  <1>11. DOMAIN r["voting.weights"] = {}
    BY <1>8
  <1>12. DecisionVotingErrors(r) = {}
    BY <1>8, <1>10, <1>11 DEF DecisionVotingErrors, DECISION_VOTING_ALGORITHMS
  <1>13. ~DecisionValueDomainError(r)
    BY <1>8 DEF DecisionValueDomainError
  <1>14. DecisionErrors(p) = {}
    <2>1. ~\/ r["voting.algorithm"] = "supermajority"
               /\ 2 * r["voting.threshold"][1] <= r["voting.threshold"][2]
           \/ r["voting.algorithm"] = "majority"
               /\ 2 * r["voting.threshold"][1] < r["voting.threshold"][2]
      BY <1>10
    <2>2. ~\/ r["voting.algorithm"] = "weighted" /\ DOMAIN r["voting.weights"] = {}
           \/ "voting.weights" \in DOMAIN p.rules /\ DOMAIN r["voting.weights"] = {}
      BY <1>1, <1>8, <1>10
    <2> QED BY <1>12, <1>13, <2>1, <2>2 DEF DecisionErrors, r
  <1>15. ValidateForModes(p) = {}
    BY <1>1, <1>3, <1>4, <1>14 DEF ValidateForModes, TargetModes, ModeErrors, StandardModes
  <1> QED BY <1>1, <1>2, <1>15 DEF Sound, SUPPORTED_SCHEMA_VERSIONS, p

\* A registry holds each definition under its own name, every one sound, and
\* the built-in ones always.
IsRegistry(ps) ==
    /\ ps = [id \in DOMAIN ps |-> ps[id]]
    /\ \A id \in DOMAIN ps : Sound(ps[id]) /\ ps[id].policy_id = id
    /\ \A id \in DOMAIN BuiltinPolicies : id \in DOMAIN ps /\ ps[id] = BuiltinPolicies[id]

LEMMA BuiltinNames == DOMAIN BuiltinPolicies \subseteq {DEFAULT_POLICY_ID} \cup StdNames
  BY DEF BuiltinPolicies, ById, StdNames, default_policy, Document

LEMMA BuiltinRegistry == IsRegistry(BuiltinPolicies)
  <1>1. Sound(std_majority_policy) /\ Sound(std_supermajority_policy)
    <2>1. StdShaped(Put(StdRules("majority", 1), "voting.threshold", <<1, 2>>))
      BY DEF StdShaped, Put, StdRules
    <2>2. StdShaped(Put(StdRules("supermajority", 2), "voting.threshold", <<2, 3>>))
      BY DEF StdShaped, Put, StdRules
    <2> QED BY <2>1, <2>2, StdIsSound DEF std_majority_policy, std_supermajority_policy
  <1>2. Sound(std_unanimous_policy)
    <2>1. StdShaped(StdRules("unanimous", 1))
      BY DEF StdShaped, StdRules
    <2> QED BY <2>1, StdIsSound DEF std_unanimous_policy
  <1> DEFINE documents == {default_policy} \cup std_policies
  <1>3. \A d \in documents : Sound(d)
    BY <1>1, <1>2, DefaultIsSound DEF std_policies
  <1>4. BuiltinPolicies = [id \in {d.policy_id : d \in documents} |->
                             CHOOSE d \in documents : d.policy_id = id]
    BY DEF BuiltinPolicies, ById
  <1> HIDE DEF documents
  <1>5. \A id \in DOMAIN BuiltinPolicies :
           BuiltinPolicies[id] \in documents /\ BuiltinPolicies[id].policy_id = id
    BY <1>4
  <1> QED BY <1>3, <1>4, <1>5 DEF IsRegistry

LEMMA RegisterKeeps ==
  ASSUME NEW ps, IsRegistry(ps), NEW p, WellTyped(p), RegisterErrors(ps, p) = {}
  PROVE  IsRegistry(Register(ps, p))
  <1>1. p.policy_id \notin DOMAIN ps /\ ValidateDefinition(p) = {}
    BY DEF RegisterErrors
  <1>2. Sound(p)
    BY <1>1, AdmittedIsSound DEF ValidateDefinition
  <1> QED BY <1>1, <1>2 DEF IsRegistry, Register, Put

LEMMA UnregisterKeeps ==
  ASSUME NEW ps, IsRegistry(ps), NEW id, UnregisterErrors(ps, id) = {}
  PROVE  IsRegistry(Unregister(ps, id))
  <1>1. id \notin DOMAIN BuiltinPolicies
    BY BuiltinNames DEF UnregisterErrors, IsRegistry
  <1> QED BY <1>1 DEF IsRegistry, Unregister

-----------------------------------------------------------------------------
(* Startup and the dry run, one file after another.                        *)

LoadBase == [policies |-> BuiltinPolicies, failed |-> FALSE]
DryBase == [policies |-> BuiltinPolicies, outcomes |-> <<>>]

LoadStep(h, files, i, acc) ==
    IF acc.failed \/ RegisterErrors(acc.policies, files[i]) # {}
    THEN [acc EXCEPT !.failed = TRUE]
    ELSE [acc EXCEPT !.policies = Register(@, files[i])]

DryStep(h, files, i, acc) ==
    IF RegisterErrors(acc.policies, files[i]) # {}
    THEN [acc EXCEPT !.outcomes = Append(@, FALSE)]
    ELSE [policies |-> Register(acc.policies, files[i]), outcomes |-> Append(acc.outcomes, TRUE)]

\* A list of documents as the directory holds them.
IsListing(files) ==
    /\ \E n \in Nat : DOMAIN files = 1 .. n
    /\ \A i \in DOMAIN files : WellTyped(files[i])

AnyFile(h, files, base, read, acc) == TRUE

DryFold == INSTANCE FoldProofs WITH Pick <- Max, Step <- DryStep, Holds <- AnyFile

\* The two after the same files: as long as none is refused they hold the same
\* registry, and the dry run has noted a refusal exactly when startup failed.
Abreast(h, files, base, read, acc) ==
    LET dry == DryFold!FoldFcn(0, files, DryBase, DOMAIN files)[read] IN
    /\ DOMAIN acc = {"policies", "failed"} /\ acc.failed \in BOOLEAN
    /\ IsRegistry(acc.policies)
    /\ DOMAIN dry = {"policies", "outcomes"} /\ dry.outcomes \in Seq(BOOLEAN)
    /\ ~acc.failed => dry.policies = acc.policies
    /\ (\A i \in DOMAIN dry.outcomes : dry.outcomes[i]) <=> ~acc.failed

LoadFold == INSTANCE FoldProofs WITH Pick <- Max, Step <- LoadStep, Holds <- Abreast

\* FoldLeft takes the positions from the last one down.
LEMMA LastFirst ==
  ASSUME NEW n \in Nat, NEW t \in SUBSET (1 .. n), t # {}
  PROVE  Max(t) \in t
  <1>1. \E x \in t : \A y \in t : x >= y
    BY LoadFold!GreatestPosition
  <1> QED BY <1>1 DEF Max

\* A verdict more: the outcomes are all good when they were and it is.
LEMMA OutcomeAdded ==
  ASSUME NEW outcomes \in Seq(BOOLEAN), NEW o \in BOOLEAN
  PROVE  /\ Append(outcomes, o) \in Seq(BOOLEAN)
         /\ (\A i \in DOMAIN Append(outcomes, o) : Append(outcomes, o)[i])
               <=> (\A i \in DOMAIN outcomes : outcomes[i]) /\ o
  <1>1. Append(outcomes, o) \in Seq(BOOLEAN)
    OBVIOUS
  <1>2. /\ Len(outcomes) \in Nat /\ DOMAIN outcomes = 1 .. Len(outcomes)
        /\ DOMAIN Append(outcomes, o) = 1 .. Len(outcomes) + 1
        /\ \A i \in 1 .. Len(outcomes) : Append(outcomes, o)[i] = outcomes[i]
        /\ Append(outcomes, o)[Len(outcomes) + 1] = o
    OBVIOUS
  <1> DEFINE after == Append(outcomes, o)
             n == Len(outcomes)
  <1> HIDE DEF after, n
  <1>3. \A i : i \in 1 .. n + 1 <=> i \in 1 .. n \/ i = n + 1
    BY <1>2 DEF n
  <1> QED BY <1>1, <1>2, <1>3 DEF after, n

LEMMA Listed ==
  ASSUME NEW files, IsListing(files)
  PROVE  Abreast(0, files, LoadBase, DOMAIN files,
                 LoadFold!FoldFcn(0, files, LoadBase, DOMAIN files)[DOMAIN files])
  <1> DEFINE D == DOMAIN files
             dry == DryFold!FoldFcn(0, files, DryBase, D)
  <1>1. PICK n \in Nat : D = 1 .. n
    BY DEF IsListing
  <1>2. IsFiniteSet(D)
    BY <1>1, FS_Interval
  <1>3. DryFold!IsFiniteSet(D) /\ LoadFold!IsFiniteSet(D)
    BY <1>2 DEF IsFiniteSet, DryFold!IsFiniteSet, LoadFold!IsFiniteSet
  <1>4. \A t \in SUBSET D : t # {} => Max(t) \in t
    BY <1>1, LastFirst
  <1>5. DryFold!Picks(D) /\ LoadFold!Picks(D)
    BY <1>4 DEF DryFold!Picks, LoadFold!Picks
  <1>6. \A t \in SUBSET D : dry[t] = DryFold!Unfold(0, files, DryBase, t, dry)
    BY <1>3, <1>5, DryFold!FoldUnfolds
  <1>7. Abreast(0, files, LoadBase, {}, LoadBase)
    <2>1. dry[{}] = DryBase
      BY <1>6 DEF DryFold!Unfold
    <2>2. /\ DOMAIN LoadBase = {"policies", "failed"} /\ LoadBase.failed = FALSE
          /\ LoadBase.policies = BuiltinPolicies
          /\ DOMAIN DryBase = {"policies", "outcomes"} /\ DryBase.outcomes = <<>>
          /\ DryBase.policies = BuiltinPolicies
      BY DEF LoadBase, DryBase
    <2>3. <<>> \in Seq(BOOLEAN) /\ DOMAIN <<>> = {}
      OBVIOUS
    <2> QED BY <2>1, <2>2, <2>3, BuiltinRegistry DEF Abreast
  <1>8. ASSUME NEW t \in SUBSET D, NEW acc, t # {},
               Abreast(0, files, LoadBase, t \ {Max(t)}, acc)
        PROVE  Abreast(0, files, LoadBase, t, LoadStep(0, files, Max(t), acc))
    <2> DEFINE p == files[Max(t)]
               was == dry[t \ {Max(t)}]
               new == LoadStep(0, files, Max(t), acc)
    <2>1. WellTyped(p)
      BY <1>4, <1>8 DEF IsListing
    <2>2. dry[t] = DryStep(0, files, Max(t), was)
      BY <1>6, <1>8 DEF DryFold!Unfold
    <2>3. /\ DOMAIN acc = {"policies", "failed"} /\ acc.failed \in BOOLEAN
          /\ IsRegistry(acc.policies)
          /\ DOMAIN was = {"policies", "outcomes"} /\ was.outcomes \in Seq(BOOLEAN)
          /\ ~acc.failed => was.policies = acc.policies
          /\ (\A i \in DOMAIN was.outcomes : was.outcomes[i]) <=> ~acc.failed
      BY <1>8 DEF Abreast
    <2>4. PICK o \in BOOLEAN :
             /\ DOMAIN dry[t] = {"policies", "outcomes"}
             /\ dry[t].outcomes = Append(was.outcomes, o)
             /\ o = (RegisterErrors(was.policies, p) = {})
             /\ o => dry[t].policies = Register(was.policies, p)
      <3> HIDE DEF dry, was, p
      <3>1. CASE RegisterErrors(was.policies, p) = {}
        <4> DEFINE longer == Append(was.outcomes, TRUE)
        <4>1. dry[t] = [policies |-> Register(was.policies, p), outcomes |-> longer]
          BY <2>2, <3>1 DEF DryStep, p
        <4> HIDE DEF longer
        <4>2. /\ DOMAIN dry[t] = {"policies", "outcomes"}
              /\ dry[t].outcomes = longer
              /\ dry[t].policies = Register(was.policies, p)
          BY <4>1
        <4> QED BY <3>1, <4>2 DEF longer
      <3>2. CASE RegisterErrors(was.policies, p) # {}
        BY <2>2, <2>3, <3>2 DEF DryStep, p
      <3> QED BY <3>1, <3>2
    <2>5. /\ DOMAIN new = {"policies", "failed"} /\ new.failed \in BOOLEAN
          /\ new.failed <=> acc.failed \/ RegisterErrors(acc.policies, p) # {}
          /\ new.policies = IF new.failed THEN acc.policies ELSE Register(acc.policies, p)
      <3> HIDE DEF dry, was, p
      <3> QED BY <2>3 DEF LoadStep, p
    <2> HIDE DEF dry, was, p, new
    <2>6. IsRegistry(new.policies)
      BY <2>1, <2>3, <2>5, RegisterKeeps
    <2>7. /\ dry[t].outcomes \in Seq(BOOLEAN)
          /\ (\A i \in DOMAIN dry[t].outcomes : dry[t].outcomes[i])
                <=> (\A i \in DOMAIN was.outcomes : was.outcomes[i]) /\ o
      BY <2>3, <2>4, OutcomeAdded
    <2>8. ~new.failed => dry[t].policies = new.policies
      BY <2>3, <2>4, <2>5
    <2>9. (\A i \in DOMAIN dry[t].outcomes : dry[t].outcomes[i]) <=> ~new.failed
      BY <2>3, <2>4, <2>5, <2>7
    <2> QED BY <2>4, <2>5, <2>6, <2>7, <2>8, <2>9 DEF Abreast, dry, new
  <1> HIDE DEF D
  <1>9. Abreast(0, files, LoadBase, D, LoadFold!FoldFcn(0, files, LoadBase, D)[D])
    BY <1>3, <1>5, <1>7, <1>8, LoadFold!FoldInduction
  <1> QED BY <1>9 DEF D

\* What startup holds after reading a directory is a registry, and it fails
\* exactly when the dry run notes a refusal.
LEMMA DirectoryRead ==
  ASSUME NEW files, IsListing(files)
  PROVE  /\ IsRegistry(LoadFromDir(files).policies)
         /\ (\A i \in DOMAIN ValidateDir(files) : ValidateDir(files)[i])
               <=> ~LoadFromDir(files).failed
  <1>1. LoadFromDir(files) = LoadFold!FoldFcn(0, files, LoadBase, DOMAIN files)[DOMAIN files]
    BY DEF LoadFromDir, FoldLeft, MapThenFoldSet, LoadFold!FoldFcn, LoadFold!Recursion,
           LoadFold!Unfold, LoadBase, LoadStep, Max
  <1>2. ValidateDir(files) = DryFold!FoldFcn(0, files, DryBase, DOMAIN files)[DOMAIN files].outcomes
    BY DEF ValidateDir, FoldLeft, MapThenFoldSet, DryFold!FoldFcn, DryFold!Recursion,
           DryFold!Unfold, DryBase, DryStep, Max
  <1> QED BY <1>1, <1>2, Listed DEF Abreast

\* The directory is a listing, empty where no directory is set.
LEMMA EmptyListing == IsListing(<<>>)
  <1>1. DOMAIN <<>> = 1 .. 0
    OBVIOUS
  <1> QED BY <1>1 DEF IsListing

LEMMA DirIsListing == \A files \in Dirs : IsListing(files)
  <1> SUFFICES ASSUME NEW files \in Dirs PROVE IsListing(files)
    OBVIOUS
  <1>1. files \in Seq(Range(files)) /\ \A p \in Range(files) : WellTyped(p)
    BY DocumentsAssumption
  <1>2. \E n \in Nat : DOMAIN files = 1 .. n
    BY <1>1
  <1>3. \A i \in DOMAIN files : files[i] \in Range(files)
    BY DEF Range
  <1> QED BY <1>1, <1>2, <1>3 DEF IsListing

\* The registry is a registry, and what a restart reads is a directory.
PoliciesInv ==
    /\ IsRegistry(policies)
    /\ IsListing(dir)

LEMMA PoliciesKept ==
  ASSUME PoliciesInv, [Next]_vars
  PROVE  PoliciesInv'
  <1> USE DEF PoliciesInv, registries, store
  <1>1. CASE UNCHANGED <<policies, dir>>
    BY <1>1
  <1>2. CASE RegisterPolicy
    <2>1. PICK p \in Documents : RegisterErrors(policies, p) = {} /\ policies' = Register(policies, p)
      BY <1>2 DEF RegisterPolicy
    <2>2. IsRegistry(policies')
      BY <2>1, RegisterKeeps, DocumentsAssumption
    <2> QED BY <1>2, <2>2 DEF RegisterPolicy
  <1>3. CASE UnregisterPolicy
    <2>1. PICK id \in DOMAIN policies :
             UnregisterErrors(policies, id) = {} /\ policies' = Unregister(policies, id)
      BY <1>3 DEF UnregisterPolicy
    <2>2. IsRegistry(policies')
      BY <2>1, UnregisterKeeps
    <2> QED BY <1>3, <2>2 DEF UnregisterPolicy
  <1>4. CASE Restart
    <2>1. policies' = LoadFromDir(IF readOnly THEN dir ELSE <<>>).policies /\ dir' = dir
      BY <1>4 DEF Restart
    <2>2. IsRegistry(policies')
      BY <2>1, DirectoryRead, EmptyListing
    <2> QED BY <2>1, <2>2
  <1>5. CASE EditDir
    <2>1. dir' \in Dirs /\ policies' = policies
      BY <1>5 DEF EditDir
    <2>2. IsListing(dir')
      BY <2>1, DirIsListing
    <2> QED BY <2>1, <2>2
  <1>6. CASE StartSession \/ Message \/ Checkpoint \/ RegisterExtMode \/ UnregisterExtMode \/ PromoteMode
    BY <1>1, <1>6 DEF StartSession, Message, Checkpoint, RegisterExtMode, UnregisterExtMode,
                      PromoteMode
  <1>7. CASE SendChange \/ WatchPolicies \/ WatchNext \/ Crash \/ WhatIfReplay
    BY <1>1, <1>7 DEF SendChange, WatchPolicies, WatchNext, WatchStep, Crash, WhatIfReplay
  <1> QED BY <1>1, <1>2, <1>3, <1>4, <1>5, <1>6, <1>7 DEF Next, vars

\* What the registries admit can be served (validate_definition,
\* register_extension and promote_mode, load_from_dir against validate_dir):
\* every admitted policy means something in each of its modes, no handler
\* answers under a reserved name, and the dry run foretells the startup.
THEOREM AdmissionsTheorem == Spec => []AdmissionsSound
  <1>1. Init => ModesInv /\ PoliciesInv
    <2> SUFFICES ASSUME Init PROVE ModesInv /\ PoliciesInv
      OBVIOUS
    <2>1. modes = BuiltinModes /\ policies = BuiltinPolicies /\ (dir \in Dirs \/ dir = <<>>)
      BY DEF Init
    <2>2. ModesInv
      BY <2>1, BuiltinModesWhole DEF ModesInv, NoMasquerade
    <2>3. IsListing(dir)
      BY <2>1, DirIsListing, EmptyListing
    <2> QED BY <2>1, <2>2, <2>3, BuiltinRegistry DEF PoliciesInv
  <1>2. ModesInv /\ PoliciesInv /\ [Next]_vars => (ModesInv /\ PoliciesInv)'
    BY MasqueradeKept, PoliciesKept
  <1>3. ModesInv /\ PoliciesInv => AdmissionsSound
    <2> SUFFICES ASSUME ModesInv, PoliciesInv PROVE AdmissionsSound
      OBVIOUS
    <2>1. NoMasquerade
      BY DEF ModesInv
    <2>2. AdmittedMeaningful
      BY SoundMeans DEF AdmittedMeaningful, PoliciesInv, IsRegistry
    <2>3. DryRunAgrees
      BY DirectoryRead DEF DryRunAgrees, PoliciesInv
    <2> QED BY <2>1, <2>2, <2>3 DEF AdmissionsSound
  <1> QED BY <1>1, <1>2, <1>3, PTL DEF Spec

-----------------------------------------------------------------------------
(* What a replay leaves of a session.                                      *)

SessionFields ==
    {"mode", "mode_version", "policy", "policy_version", "semantics_rev", "mode_state", "state"}

\* s is a session of the mode, the version and the policy that b was bound to.
BoundAs(s, b) ==
    /\ DOMAIN s = SessionFields
    /\ s.mode = b.mode /\ s.mode_version = b.mode_version /\ s.policy = b.policy

LEMMA StartBinds ==
  ASSUME NEW req, NEW version, NEW policy, NEW impl
  PROVE  LET s == NewSession(req, version, policy, impl)
         IN  /\ DOMAIN s = SessionFields
             /\ s.mode = req.mode /\ s.mode_version = version /\ s.policy = policy
  <1> DEFINE resp == OnSessionStartOf(impl)
             name == IF req.policy = "" /\ policy # NoPolicy THEN policy.policy_id ELSE req.policy
             fresh == [mode |-> req.mode, mode_version |-> version, policy |-> policy,
                       policy_version |-> name, semantics_rev |-> 4,
                       mode_state |-> PassthroughEmpty, state |-> "Open"]
  <1>1. NewSession(req, version, policy, impl) = ApplyModeResponse(fresh, resp)
    BY DEF NewSession
  <1> HIDE DEF resp, name
  <1>2. /\ DOMAIN fresh = SessionFields
        /\ fresh.mode = req.mode /\ fresh.mode_version = version /\ fresh.policy = policy
    BY DEF SessionFields
  <1> HIDE DEF fresh
  <1> QED BY <1>1, <1>2 DEF ApplyModeResponse, SessionFields

LEMMA ApplyBinds ==
  ASSUME NEW s, DOMAIN s = SessionFields, NEW resp
  PROVE  BoundAs(ApplyModeResponse(s, resp), s)
  BY DEF ApplyModeResponse, SessionFields, BoundAs

\* replay_entry at position i of the entries.
ReplayStep(impl, entries, i, acc) ==
    IF acc = Unrecoverable \/ acc.state # "Open" THEN acc
    ELSE LET resp == OnMessageOf(impl, acc, entries[i])
         IN  IF resp = Rejected THEN Unrecoverable ELSE ApplyModeResponse(acc, resp)

\* Nothing but the mode state and the state moves.
SameBinding(impl, entries, base, read, acc) == acc = Unrecoverable \/ BoundAs(acc, base)

ReplayFold == INSTANCE FoldProofs WITH Pick <- Max, Step <- ReplayStep, Holds <- SameBinding

LEMMA LastPicked ==
  ASSUME NEW n \in Nat
  PROVE  ReplayFold!PicksLast(n)
  <1>1. ReplayFold!Picks(1 .. n)
    BY LastFirst DEF ReplayFold!Picks
  <1>2. ASSUME NEW j \in 1 .. n
        PROVE  Max(1 .. j) = j
    <2>1. j \in 1 .. j /\ \A x \in 1 .. j : j >= x
      OBVIOUS
    <2>2. \A x \in 1 .. j : (\A y \in 1 .. j : x >= y) => x = j
      BY <2>1
    <2> QED BY <2>1, <2>2 DEF Max
  <1> QED BY <1>1, <1>2 DEF ReplayFold!PicksLast

\* The entries from position k + 1 on.
LEMMA RestOf ==
  ASSUME NEW entries \in Seq(Envelopes), NEW k \in 0 .. Len(entries)
  PROVE  /\ SubSeq(entries, k + 1, Len(entries)) \in Seq(Envelopes)
         /\ Len(SubSeq(entries, k + 1, Len(entries))) = Len(entries) - k
         /\ Len(entries) - k \in Nat
         /\ DOMAIN SubSeq(entries, k + 1, Len(entries)) = 1 .. (Len(entries) - k)
         /\ \A i \in 1 .. (Len(entries) - k) :
               SubSeq(entries, k + 1, Len(entries))[i] = entries[k + i]
  OBVIOUS

LEMMA ReplayAsFold ==
  ASSUME NEW s, NEW impl, NEW entries, NEW n
  PROVE  LET rest == SubSeq(entries, n, Len(entries))
         IN  ReplayEntries(s, impl, entries, n)
               = ReplayFold!FoldFcn(impl, rest, s, DOMAIN rest)[DOMAIN rest]
  BY DEF ReplayEntries, FoldLeft, MapThenFoldSet, ReplayFold!FoldFcn, ReplayFold!Recursion,
         ReplayFold!Unfold, ReplayStep, Max

LEMMA ReplayBinds ==
  ASSUME NEW s, DOMAIN s = SessionFields, NEW impl,
         NEW entries \in Seq(Envelopes), NEW k \in 0 .. Len(entries)
  PROVE  LET got == ReplayEntries(s, impl, entries, k + 1)
         IN  got = Unrecoverable \/ BoundAs(got, s)
  <1> DEFINE rest == SubSeq(entries, k + 1, Len(entries))
             D == DOMAIN rest
             m == Len(entries) - k
  <1>1. m \in Nat /\ D = 1 .. m
    BY RestOf
  <1> HIDE DEF rest, D, m
  <1>2. ReplayFold!Picks(D)
    BY <1>1, LastPicked DEF ReplayFold!PicksLast
  <1>3. ReplayFold!IsFiniteSet(D)
    <2>1. IsFiniteSet(D)
      BY <1>1, FS_Interval
    <2> QED BY <2>1 DEF IsFiniteSet, ReplayFold!IsFiniteSet
  <1>4. SameBinding(impl, rest, s, {}, s)
    BY DEF SameBinding, BoundAs
  <1>5. ASSUME NEW t \in SUBSET D, NEW acc, SameBinding(impl, rest, s, t \ {Max(t)}, acc)
        PROVE  SameBinding(impl, rest, s, t, ReplayStep(impl, rest, Max(t), acc))
    <2> DEFINE resp == OnMessageOf(impl, acc, rest[Max(t)])
    <2>1. ReplayStep(impl, rest, Max(t), acc) \in {acc, Unrecoverable, ApplyModeResponse(acc, resp)}
      BY DEF ReplayStep
    <2>2. acc = Unrecoverable => ReplayStep(impl, rest, Max(t), acc) = Unrecoverable
      BY DEF ReplayStep
    <2>3. acc # Unrecoverable => BoundAs(ApplyModeResponse(acc, resp), s)
      <3> HIDE DEF resp
      <3> QED BY <1>5, ApplyBinds DEF SameBinding, BoundAs
    <2> HIDE DEF resp
    <2> QED BY <1>5, <2>1, <2>2, <2>3 DEF SameBinding
  <1>6. SameBinding(impl, rest, s, D, ReplayFold!FoldFcn(impl, rest, s, D)[D])
    BY <1>2, <1>3, <1>4, <1>5, ReplayFold!FoldInduction
  <1>7. ReplayEntries(s, impl, entries, k + 1) = ReplayFold!FoldFcn(impl, rest, s, D)[D]
    BY ReplayAsFold DEF D, rest
  <1> QED BY <1>6, <1>7 DEF SameBinding

-----------------------------------------------------------------------------
(* The accepted history of a session, and where it stands in it.           *)

\* Replayed by impl from its start under the policy s holds, the session is s
\* after k entries.
Reached(l, impl, s, k) ==
    \E R : /\ ReplayFold!IsRun(impl, l.entries, NewSession(l.start, l.version, s.policy, impl), k, R)
          /\ R[k] = s

LEMMA ReachedAtStart ==
  ASSUME NEW l, NEW impl, NEW policy
  PROVE  Reached(l, impl, NewSession(l.start, l.version, policy, impl), 0)
  <1> DEFINE s == NewSession(l.start, l.version, policy, impl)
             R == [j \in {0} |-> s]
  <1>1. s.policy = policy
    BY StartBinds
  <1>2. ReplayFold!IsRun(impl, l.entries, s, 0, R) /\ R[0] = s
    <2>1. 1 .. 0 = {}
      OBVIOUS
    <2> HIDE DEF s
    <2> QED BY <2>1 DEF ReplayFold!IsRun
  <1> QED BY <1>1, <1>2 DEF Reached

\* The entries that follow change nothing of what was reached before them.
LEMMA ReachedLonger ==
  ASSUME NEW l, NEW m, NEW impl, NEW s, NEW k \in Nat, Reached(l, impl, s, k),
         m.start = l.start, m.version = l.version,
         \A j \in 1 .. k : m.entries[j] = l.entries[j]
  PROVE  Reached(m, impl, s, k)
  <1> DEFINE base == NewSession(l.start, l.version, s.policy, impl)
  <1>1. PICK R : ReplayFold!IsRun(impl, l.entries, base, k, R) /\ R[k] = s
    BY DEF Reached
  <1>2. ReplayFold!IsRun(impl, m.entries, base, k, R)
    <2> HIDE DEF base
    <2> QED BY <1>1 DEF ReplayFold!IsRun, ReplayStep
  <1> QED BY <1>1, <1>2 DEF Reached

\* One more entry.
LEMMA ReachedNext ==
  ASSUME NEW l, NEW impl, NEW s, NEW k \in Nat, Reached(l, impl, s, k),
         NEW t, t = ReplayStep(impl, l.entries, k + 1, s), t.policy = s.policy
  PROVE  Reached(l, impl, t, k + 1)
  <1> DEFINE base == NewSession(l.start, l.version, s.policy, impl)
  <1>1. PICK R : ReplayFold!IsRun(impl, l.entries, base, k, R) /\ R[k] = s
    BY DEF Reached
  <1> DEFINE Q == [j \in 0 .. k + 1 |-> IF j = k + 1 THEN t ELSE R[j]]
  <1> HIDE DEF base
  <1>2. Q[0] = base
    BY <1>1 DEF ReplayFold!IsRun
  <1>3. ASSUME NEW j \in 1 .. k + 1
        PROVE  Q[j] = ReplayStep(impl, l.entries, j, Q[j - 1])
    <2>1. CASE j = k + 1
      <3>1. Q[j] = t /\ Q[j - 1] = R[k]
        BY <2>1
      <3> HIDE DEF Q
      <3> QED BY <1>1, <2>1, <3>1
    <2>2. CASE j # k + 1
      <3>1. Q[j] = R[j] /\ Q[j - 1] = R[j - 1] /\ j \in 1 .. k
        BY <2>2
      <3>2. R[j] = ReplayStep(impl, l.entries, j, R[j - 1])
        BY <1>1, <3>1 DEF ReplayFold!IsRun
      <3> HIDE DEF Q
      <3> QED BY <3>1, <3>2
    <2> QED BY <2>1, <2>2
  <1>4. ReplayFold!IsRun(impl, l.entries, base, k + 1, Q)
    <2> HIDE DEF Q
    <2> QED BY <1>2, <1>3 DEF ReplayFold!IsRun
  <1>5. Q[k + 1] = t
    OBVIOUS
  <1> HIDE DEF Q
  <1> QED BY <1>4, <1>5 DEF Reached, base

\* All the entries from there on: what a recovery replays after a checkpoint.
LEMMA ReachedRest ==
  ASSUME NEW l, l.entries \in Seq(Envelopes), NEW impl, NEW s, NEW k \in 0 .. Len(l.entries),
         Reached(l, impl, s, k),
         NEW t, t = ReplayEntries(s, impl, l.entries, k + 1), t.policy = s.policy
  PROVE  Reached(l, impl, t, Len(l.entries))
  <1> DEFINE n == Len(l.entries)
             m == n - k
             rest == SubSeq(l.entries, k + 1, n)
             base == NewSession(l.start, l.version, s.policy, impl)
  <1>1. PICK R : ReplayFold!IsRun(impl, l.entries, base, k, R) /\ R[k] = s
    BY DEF Reached
  <1>2. n \in Nat /\ m \in Nat /\ k \in Nat /\ k + m = n /\ DOMAIN rest = 1 .. m
        /\ \A i \in 1 .. m : rest[i] = l.entries[k + i]
    BY RestOf
  <1> HIDE DEF n, m, rest, base
  <1> DEFINE Q == [j \in 0 .. m |-> ReplayFold!FoldFcn(impl, rest, s, 1 .. m)[1 .. j]]
  <1>3. ReplayFold!IsRun(impl, rest, s, m, Q)
    BY <1>2, LastPicked, ReplayFold!RunExists
  <1>4. Q[m] = t
    <2>1. t = ReplayFold!FoldFcn(impl, rest, s, DOMAIN rest)[DOMAIN rest]
      BY ReplayAsFold DEF rest, n
    <2>2. m \in 0 .. m
      BY <1>2
    <2> QED BY <1>2, <2>1, <2>2
  <1> HIDE DEF Q
  <1> DEFINE T == [j \in 0 .. n |-> IF j <= k THEN R[j] ELSE Q[j - k]]
  <1>5. T[0] = base
    BY <1>1, <1>2 DEF ReplayFold!IsRun
  <1>6. ASSUME NEW j \in 1 .. n
        PROVE  T[j] = ReplayStep(impl, l.entries, j, T[j - 1])
    <2>1. CASE j <= k
      <3>1. T[j] = R[j] /\ T[j - 1] = R[j - 1] /\ j \in 1 .. k
        BY <1>2, <2>1
      <3>2. R[j] = ReplayStep(impl, l.entries, j, R[j - 1])
        BY <1>1, <3>1 DEF ReplayFold!IsRun
      <3> HIDE DEF T
      <3> QED BY <3>1, <3>2
    <2>2. CASE ~(j <= k)
      <3>1. j - k \in 1 .. m /\ k + (j - k) = j /\ T[j] = Q[j - k]
        BY <1>2, <2>2
      <3>2. Q[j - k] = ReplayStep(impl, rest, j - k, Q[j - k - 1])
        BY <1>3, <3>1 DEF ReplayFold!IsRun
      <3>3. rest[j - k] = l.entries[j]
        BY <1>2, <3>1
      <3>4. T[j - 1] = Q[j - k - 1]
        <4>1. CASE j - 1 <= k
          <5>1. j - 1 = k /\ j - k - 1 = 0 /\ k \in 0 .. n /\ k <= k
            <6> HIDE DEF T
            <6> QED BY <1>2, <2>2, <4>1
          <5>2. T[k] = R[k]
            BY <5>1
          <5> HIDE DEF T
          <5> QED BY <1>1, <1>3, <5>1, <5>2 DEF ReplayFold!IsRun
        <4>2. CASE ~(j - 1 <= k)
          <5>1. j - 1 - k = j - k - 1 /\ j - 1 \in 0 .. n
            BY <1>2, <4>2
          <5> QED BY <4>2, <5>1
        <4> QED BY <4>1, <4>2
      <3> HIDE DEF T
      <3> QED BY <3>1, <3>2, <3>3, <3>4 DEF ReplayStep
    <2> QED BY <2>1, <2>2
  <1>7. T[n] = t
    <2>1. CASE n <= k
      <3>1. n = k /\ m = 0 /\ T[n] = R[k]
        BY <1>2, <2>1
      <3> HIDE DEF T
      <3> QED BY <1>1, <1>3, <1>4, <3>1 DEF ReplayFold!IsRun
    <2>2. CASE ~(n <= k)
      <3>1. n - k = m /\ n \in 0 .. n
        BY <1>2
      <3>2. T[n] = Q[m]
        BY <2>2, <3>1
      <3> HIDE DEF T
      <3> QED BY <1>4, <3>2
    <2> QED BY <2>1, <2>2
  <1>8. ReplayFold!IsRun(impl, l.entries, base, n, T)
    <2> HIDE DEF T
    <2> QED BY <1>5, <1>6 DEF ReplayFold!IsRun
  <1> HIDE DEF T
  <1> QED BY <1>7, <1>8 DEF Reached, base, n

\* What was reached is what a replay of the whole log finds.
LEMMA ReachedIsReplay ==
  ASSUME NEW l, l.entries \in Seq(Envelopes), NEW impl, NEW s,
         Reached(l, impl, s, Len(l.entries))
  PROVE  ReplayEntries(NewSession(l.start, l.version, s.policy, impl), impl, l.entries, 1) = s
  <1> DEFINE n == Len(l.entries)
             rest == SubSeq(l.entries, 1, n)
             base == NewSession(l.start, l.version, s.policy, impl)
  <1>1. PICK R : ReplayFold!IsRun(impl, l.entries, base, n, R) /\ R[n] = s
    BY DEF Reached
  <1>2. n \in Nat /\ DOMAIN rest = 1 .. n /\ \A i \in 1 .. n : rest[i] = l.entries[i]
    OBVIOUS
  <1>3. ReplayEntries(base, impl, l.entries, 1)
          = ReplayFold!FoldFcn(impl, rest, base, DOMAIN rest)[DOMAIN rest]
    BY ReplayAsFold
  <1> HIDE DEF n, rest, base
  <1>4. ReplayFold!IsRun(impl, rest, base, n, R)
    BY <1>1, <1>2 DEF ReplayFold!IsRun, ReplayStep
  <1>5. ReplayFold!FoldFcn(impl, rest, base, 1 .. n)[1 .. n] = R[n]
    <2>1. n \in 0 .. n
      BY <1>2
    <2> QED BY <1>2, <1>4, <2>1, LastPicked, ReplayFold!RunIsFold
  <1> QED BY <1>1, <1>2, <1>3, <1>5 DEF base

-----------------------------------------------------------------------------
(* What a session and its log keep of the start.                           *)

\* The name a request asks for.
NameOf(req) == IF req.policy = "" THEN DEFAULT_POLICY_ID ELSE req.policy

\* A recovery finds the definition again under its name.
Governed(b, fixed) == b.policy.policy_id \in DOMAIN BuiltinPolicies \/ fixed

\* One handler took every message, and its replay reaches s.
Unmixed(l, b, s, k) ==
    \A impl : b.handlers = {impl} /\ l.start # NoStart /\ s.policy # NoPolicy
                => Reached(l, impl, s, k)

StartKept(l, b, fixed, files) ==
    /\ l.start.mode = b.mode
    /\ b.strict => Canonical(l.start)
    /\ b.policy.policy_id = NameOf(l.start)
    /\ b.policy.policy_id \in DOMAIN BuiltinPolicies
          => b.policy = BuiltinPolicies[b.policy.policy_id]
    /\ fixed => b.policy = Resolve(LoadFromDir(files).policies, l.start.policy)

IsBoundTo(s, b) ==
    DOMAIN s = SessionFields /\ s.mode = b.mode /\ s.mode_version = b.mode_version

CkptKept(l, b, fixed) ==
    /\ IsBoundTo(l.ckpt.session, b)
    /\ Governed(b, fixed) => l.ckpt.session.policy = b.policy
    /\ \E k \in 0 .. Len(l.entries) : l.ckpt.at = k + 1 /\ Unmixed(l, b, l.ckpt.session, k)

LogKept(l, b, fixed, files) ==
    /\ DOMAIN l = {"start", "version", "entries", "ckpt"}
    /\ DOMAIN b = {"mode", "policy", "mode_version", "handlers", "strict"}
    /\ l.version = b.mode_version /\ l.entries \in Seq(Envelopes)
    /\ b.policy # NoPolicy
    /\ \E impl \in b.handlers : impl # Unknown
    /\ l.start # NoStart => StartKept(l, b, fixed, files)
    /\ l.start = NoStart => l.ckpt # NoCkpt
    /\ l.ckpt # NoCkpt => CkptKept(l, b, fixed)

SessionKept(s, l, b, fixed) ==
    /\ IsBoundTo(s, b)
    /\ Governed(b, fixed) \/ (l.ckpt # NoCkpt /\ l.ckpt.session.policy = b.policy)
          => s.policy = b.policy
    /\ Unmixed(l, b, s, Len(l.entries))

\* Another handler may only mix.
LEMMA HandledOnce ==
  ASSUME NEW b, DOMAIN b = {"mode", "policy", "mode_version", "handlers", "strict"}, b.handlers # {},
         NEW impl, NEW c, c = HandledBy(b, impl)
  PROVE  /\ DOMAIN c = DOMAIN b /\ c.mode = b.mode /\ c.policy = b.policy
         /\ c.mode_version = b.mode_version /\ c.strict = b.strict /\ c.handlers = b.handlers \cup {impl}
         /\ \A h : c.handlers = {h} => b.handlers = {h} /\ impl = h
  <1>1. /\ DOMAIN c = DOMAIN b /\ c.mode = b.mode /\ c.policy = b.policy
        /\ c.mode_version = b.mode_version /\ c.strict = b.strict /\ c.handlers = b.handlers \cup {impl}
    BY DEF HandledBy
  <1>2. ASSUME NEW h, c.handlers = {h}
        PROVE  b.handlers = {h} /\ impl = h
    <2>1. \A x : x \in b.handlers \/ x = impl <=> x = h
      BY <1>1, <1>2
    <2> QED BY <2>1
  <1> QED BY <1>1, <1>2

\* A message taken by impl.
LEMMA MessageKeeps ==
  ASSUME NEW l, NEW b, NEW fixed, NEW files, LogKept(l, b, fixed, files),
         NEW s, SessionKept(s, l, b, fixed), s.state = "Open",
         NEW env \in Envelopes, NEW impl,
         NEW resp, resp = OnMessageOf(impl, s, env), resp # Rejected,
         NEW t, t = ApplyModeResponse(s, resp),
         NEW m, m = LogAfter(l, t, env),
         NEW c, c = HandledBy(b, impl)
  PROVE  LogKept(m, c, fixed, files) /\ SessionKept(t, m, c, fixed)
  <1>1. /\ DOMAIN c = DOMAIN b /\ c.mode = b.mode /\ c.policy = b.policy
        /\ c.mode_version = b.mode_version /\ c.strict = b.strict /\ c.handlers = b.handlers \cup {impl}
    BY DEF LogKept, HandledBy
  <1>2. BoundAs(t, s)
    BY ApplyBinds DEF SessionKept, IsBoundTo
  <1>3. IsBoundTo(t, c) /\ t.policy = s.policy
    BY <1>1, <1>2 DEF BoundAs, IsBoundTo, SessionKept
  <1> DEFINE n == Len(l.entries)
             longer == Append(l.entries, env)
  <1>4. /\ n \in Nat /\ longer \in Seq(Envelopes) /\ Len(longer) = n + 1
        /\ longer[n + 1] = env /\ \A j \in 1 .. n : longer[j] = l.entries[j]
    BY DEF LogKept
  <1>5. DOMAIN m = DOMAIN l /\ m.version = l.version
    BY DEF LogAfter, LogKept
  <1>6. \A h : c.handlers = {h} => b.handlers = {h} /\ impl = h
    <2>1. DOMAIN b = {"mode", "policy", "mode_version", "handlers", "strict"} /\ b.handlers # {}
      BY DEF LogKept
    <2> QED BY <2>1, HandledOnce
  <1>7. Governed(c, fixed) <=> Governed(b, fixed)
    BY <1>1 DEF Governed
  <1>8. Governed(c, fixed) => t.policy = c.policy
    BY <1>1, <1>3, <1>7 DEF SessionKept
  <1>9. \E h \in c.handlers : h # Unknown
    BY <1>1 DEF LogKept
  <1>10. CASE t.state # "Open" /\ CompactTerminalLogs
    <2>1. m = [l EXCEPT !.start = NoStart, !.entries = <<>>, !.ckpt = CkptOf(t, <<>>)]
      BY <1>10 DEF LogAfter
    <2>2. m.start = NoStart /\ m.entries = <<>> /\ m.ckpt = CkptOf(t, <<>>)
      BY <2>1 DEF LogKept
    <2>3. DOMAIN m.ckpt = {"at", "session"} /\ m.ckpt.at = 1 /\ m.ckpt.session = t /\ m.ckpt # NoCkpt
      BY <2>2 DEF CkptOf, NoCkpt
    <2>4. m.entries \in Seq(Envelopes) /\ 0 \in 0 .. Len(m.entries) /\ 1 = 0 + 1
      BY <2>2
    <2>5. CkptKept(m, c, fixed)
      BY <1>3, <1>8, <2>2, <2>3, <2>4 DEF CkptKept, Unmixed
    <2>6. LogKept(m, c, fixed, files)
      BY <1>1, <1>5, <1>9, <2>2, <2>3, <2>4, <2>5 DEF LogKept
    <2>7. SessionKept(t, m, c, fixed)
      BY <1>3, <1>8, <2>2, <2>3 DEF SessionKept, Unmixed
    <2> QED BY <2>6, <2>7
  <1>11. CASE ~(t.state # "Open" /\ CompactTerminalLogs)
    <2>1. /\ m.start = l.start /\ m.entries = longer
          /\ m.ckpt = IF t.state = "Open" THEN l.ckpt ELSE CkptOf(t, longer)
      BY <1>11 DEF LogAfter, LogKept
    <2> HIDE DEF n, longer
    <2>2. s # Unrecoverable
      BY DEF SessionKept, IsBoundTo, SessionFields, Unrecoverable
    <2>3. t = ReplayStep(impl, m.entries, n + 1, s)
      BY <1>4, <2>1, <2>2 DEF ReplayStep
    <2>4. Unmixed(m, c, t, n + 1)
      <3> SUFFICES ASSUME NEW h, c.handlers = {h}, m.start # NoStart, t.policy # NoPolicy
                   PROVE  Reached(m, h, t, n + 1)
        BY DEF Unmixed
      <3>1. Reached(l, h, s, n)
        BY <1>3, <1>6, <2>1 DEF SessionKept, Unmixed, n
      <3>2. Reached(m, h, s, n)
        BY <1>4, <1>5, <2>1, <3>1, ReachedLonger
      <3> QED BY <1>3, <1>4, <1>6, <2>3, <3>2, ReachedNext
    <2>5. ASSUME l.ckpt # NoCkpt
          PROVE  \E k \in 0 .. n + 1 : l.ckpt.at = k + 1 /\ Unmixed(m, c, l.ckpt.session, k)
      <3>1. PICK k \in 0 .. n : l.ckpt.at = k + 1 /\ Unmixed(l, b, l.ckpt.session, k)
        BY <2>5 DEF LogKept, CkptKept, n
      <3>2. k \in Nat /\ k \in 0 .. n + 1 /\ \A j \in 1 .. k : j \in 1 .. n
        BY <1>4
      <3>3. Unmixed(m, c, l.ckpt.session, k)
        <4> SUFFICES ASSUME NEW h, c.handlers = {h}, m.start # NoStart,
                            l.ckpt.session.policy # NoPolicy
                     PROVE  Reached(m, h, l.ckpt.session, k)
          BY DEF Unmixed
        <4>1. Reached(l, h, l.ckpt.session, k)
          BY <1>6, <2>1, <3>1 DEF Unmixed
        <4>2. \A j \in 1 .. k : m.entries[j] = l.entries[j]
          BY <1>4, <2>1, <3>2
        <4> QED BY <1>5, <2>1, <3>2, <4>1, <4>2, ReachedLonger
      <3> QED BY <3>1, <3>2, <3>3
    <2>6. n + 1 \in 0 .. n + 1 /\ Len(m.entries) = n + 1
      BY <1>4, <2>1
    <2>7. ASSUME m.ckpt # NoCkpt
          PROVE  CkptKept(m, c, fixed)
      <3>1. CASE t.state = "Open"
        <4>1. CkptKept(l, b, fixed) /\ m.ckpt = l.ckpt
          BY <2>1, <2>7, <3>1 DEF LogKept
        <4> QED BY <1>1, <1>7, <2>5, <2>6, <2>7, <4>1 DEF CkptKept, IsBoundTo
      <3>2. CASE t.state # "Open"
        <4>1. m.ckpt.session = t /\ m.ckpt.at = n + 1 + 1
          BY <1>4, <2>1, <3>2 DEF CkptOf
        <4> QED BY <1>3, <1>8, <2>4, <2>6, <4>1 DEF CkptKept
      <3> QED BY <3>1, <3>2
    <2>8. m.start # NoStart => StartKept(m, c, fixed, files)
      BY <1>1, <2>1 DEF LogKept, StartKept
    <2>9. m.start = NoStart => m.ckpt # NoCkpt
      <3>1. DOMAIN CkptOf(t, longer) = {"at", "session"} /\ DOMAIN NoCkpt = {"at"}
        BY DEF CkptOf, NoCkpt
      <3>2. CkptOf(t, longer) # NoCkpt
        BY <3>1
      <3> QED BY <2>1, <3>2 DEF LogKept
    <2>10. LogKept(m, c, fixed, files)
      BY <1>1, <1>4, <1>5, <1>9, <2>1, <2>7, <2>8, <2>9 DEF LogKept
    <2>11. m.ckpt # NoCkpt /\ m.ckpt.session.policy = c.policy => t.policy = c.policy
      <3>1. CASE t.state = "Open"
        BY <1>1, <1>3, <2>1, <3>1 DEF SessionKept
      <3>2. CASE t.state # "Open"
        <4>1. m.ckpt.session = t
          BY <2>1, <3>2 DEF CkptOf
        <4> QED BY <4>1
      <3> QED BY <3>1, <3>2
    <2> QED BY <1>3, <1>8, <2>4, <2>6, <2>10, <2>11 DEF SessionKept
  <1> QED BY <1>10, <1>11

\* A start binds what it resolved.
LEMMA StartKeeps ==
  ASSUME NEW req \in Requests, NEW ps, IsRegistry(ps), NEW version, NEW impl, impl # Unknown,
         NEW fixed, NEW files, fixed => ps = LoadFromDir(files).policies,
         NEW policy, policy = Resolve(ps, req.policy), policy # NoPolicy,
         NEW l, l = [start |-> req, version |-> version, entries |-> <<>>, ckpt |-> NoCkpt],
         NEW strict, strict => Canonical(req),
         NEW b, b = [mode |-> req.mode, policy |-> policy, mode_version |-> version,
                     handlers |-> {impl}, strict |-> strict]
  PROVE  LogKept(l, b, fixed, files)
         /\ SessionKept(NewSession(req, version, policy, impl), l, b, fixed)
  <1> DEFINE s == NewSession(req, version, policy, impl)
  <1>1. /\ DOMAIN l = {"start", "version", "entries", "ckpt"} /\ l.start = req
        /\ l.version = version /\ l.entries = <<>> /\ l.ckpt = NoCkpt
    OBVIOUS
  <1>2. /\ DOMAIN b = {"mode", "policy", "mode_version", "handlers", "strict"} /\ b.mode = req.mode
        /\ b.policy = policy /\ b.mode_version = version /\ b.handlers = {impl}
        /\ b.strict = strict
    OBVIOUS
  <1>3. req # NoStart
    <2>1. DOMAIN req # DOMAIN NoStart
      BY RequestsAssumption DEF NoStart
    <2> QED BY <2>1
  <1>4. policy.policy_id = NameOf(req) /\ NameOf(req) \in DOMAIN ps /\ policy = ps[NameOf(req)]
    BY DEF Resolve, NameOf, IsRegistry
  <1>5. StartKept(l, b, fixed, files)
    BY <1>1, <1>2, <1>4 DEF StartKept, IsRegistry
  <1>6. IsBoundTo(s, b) /\ s.policy = policy
    BY <1>2, StartBinds DEF IsBoundTo
  <1>7. Unmixed(l, b, s, 0)
    <2>1. \A h : b.handlers = {h} => h = impl
      BY <1>2
    <2>2. Reached(l, impl, s, 0)
      BY <1>1, ReachedAtStart
    <2> HIDE DEF s
    <2> QED BY <2>1, <2>2 DEF Unmixed
  <1> HIDE DEF s
  <1>8. l.entries \in Seq(Envelopes) /\ Len(l.entries) = 0
    BY <1>1
  <1>9. LogKept(l, b, fixed, files)
    BY <1>1, <1>2, <1>3, <1>5, <1>8 DEF LogKept
  <1>10. SessionKept(s, l, b, fixed)
    BY <1>2, <1>6, <1>7, <1>8 DEF SessionKept
  <1> QED BY <1>9, <1>10 DEF s

\* A checkpoint of what is in memory.
LEMMA CheckpointKeeps ==
  ASSUME NEW l, NEW b, NEW fixed, NEW files, LogKept(l, b, fixed, files),
         NEW s, SessionKept(s, l, b, fixed),
         NEW m, m = [l EXCEPT !.ckpt = CkptOf(s, l.entries)]
  PROVE  LogKept(m, b, fixed, files) /\ SessionKept(s, m, b, fixed)
  <1>1. /\ DOMAIN m = DOMAIN l /\ m.start = l.start /\ m.version = l.version
        /\ m.entries = l.entries /\ m.ckpt = CkptOf(s, l.entries)
    BY DEF LogKept
  <1>2. m.ckpt.session = s /\ m.ckpt.at = Len(l.entries) + 1 /\ DOMAIN m.ckpt = {"at", "session"}
    BY <1>1 DEF CkptOf
  <1>3. m.ckpt # NoCkpt
    BY <1>2 DEF NoCkpt
  <1>4. Len(l.entries) \in 0 .. Len(l.entries)
    BY DEF LogKept
  <1>5. \A h, x, k : Reached(m, h, x, k) <=> Reached(l, h, x, k)
    BY <1>1 DEF Reached
  <1>6. Unmixed(m, b, s, Len(l.entries))
    BY <1>1, <1>5 DEF SessionKept, Unmixed
  <1>7. CkptKept(m, b, fixed)
    BY <1>1, <1>2, <1>4, <1>6 DEF CkptKept, SessionKept
  <1>8. m.start # NoStart => StartKept(m, b, fixed, files)
    BY <1>1 DEF LogKept, StartKept
  <1>9. LogKept(m, b, fixed, files)
    BY <1>1, <1>3, <1>7, <1>8 DEF LogKept
  <1>10. SessionKept(s, m, b, fixed)
    BY <1>1, <1>2, <1>6 DEF SessionKept
  <1> QED BY <1>9, <1>10

LEMMA HandledKeeps ==
  ASSUME NEW l, NEW b, NEW fixed, NEW files, LogKept(l, b, fixed, files),
         NEW impl, NEW c, c = HandledBy(b, impl)
  PROVE  LogKept(l, c, fixed, files)
  <1>0. DOMAIN b = {"mode", "policy", "mode_version", "handlers", "strict"} /\ b.handlers # {}
    BY DEF LogKept
  <1>1. /\ DOMAIN c = DOMAIN b /\ c.mode = b.mode /\ c.policy = b.policy
        /\ c.mode_version = b.mode_version /\ c.strict = b.strict /\ c.handlers = b.handlers \cup {impl}
        /\ \A h : c.handlers = {h} => b.handlers = {h} /\ impl = h
    BY <1>0, HandledOnce
  <1>2. \A s, k : Unmixed(l, b, s, k) => Unmixed(l, c, s, k)
    BY <1>1 DEF Unmixed
  <1>3. CkptKept(l, b, fixed) => CkptKept(l, c, fixed)
    BY <1>1, <1>2 DEF CkptKept, IsBoundTo, Governed
  <1>4. StartKept(l, b, fixed, files) => StartKept(l, c, fixed, files)
    BY <1>1 DEF StartKept
  <1>5. \E h \in c.handlers : h # Unknown
    BY <1>1 DEF LogKept
  <1> QED BY <1>1, <1>3, <1>4, <1>5 DEF LogKept

\* What a recovery rebuilds.
LEMMA RecoveryKeeps ==
  ASSUME NEW l, NEW b, NEW fixed, NEW files, LogKept(l, b, fixed, files),
         NEW ps, IsRegistry(ps), fixed = TRUE => ps = LoadFromDir(files).policies,
         NEW c, c = HandledBy(b, GetMode(BuiltinModes, b.mode)),
         NEW s, s = ReplaySession(l, BuiltinModes, ps), s # Unrecoverable
  PROVE  SessionKept(s, l, c, fixed)
  <1> DEFINE impl == GetMode(BuiltinModes, b.mode)
  <1>1. /\ c.mode = b.mode /\ c.policy = b.policy /\ c.mode_version = b.mode_version
        /\ \A h : c.handlers = {h} => b.handlers = {h} /\ impl = h
    <2>1. DOMAIN b = {"mode", "policy", "mode_version", "handlers", "strict"} /\ b.handlers # {}
      BY DEF LogKept
    <2> QED BY <2>1, HandledOnce
  <1>2. l.entries \in Seq(Envelopes) /\ b.policy # NoPolicy
    BY DEF LogKept
  <1>3. Governed(c, fixed) <=> Governed(b, fixed)
    BY <1>1 DEF Governed
  <1>4. CASE CkptUsable(l)
    <2> DEFINE k0 == l.ckpt.session
    <2>1. l.ckpt # NoCkpt /\ CkptKept(l, b, fixed)
      BY <1>4 DEF CkptUsable, LogKept
    <2>2. PICK k \in 0 .. Len(l.entries) : l.ckpt.at = k + 1 /\ Unmixed(l, b, k0, k)
      BY <2>1 DEF CkptKept
    <2>3. s = ReplayEntries(k0, impl, l.entries, k + 1)
      BY <1>4, <2>1, <2>2 DEF ReplaySession, CkptKept, IsBoundTo
    <2>4. BoundAs(s, k0)
      BY <1>2, <2>1, <2>3, ReplayBinds DEF CkptKept, IsBoundTo
    <2>5. IsBoundTo(s, c) /\ s.policy = k0.policy
      BY <1>1, <2>1, <2>4 DEF BoundAs, IsBoundTo, CkptKept
    <2>6. Governed(c, fixed) \/ (l.ckpt # NoCkpt /\ l.ckpt.session.policy = c.policy)
             => s.policy = c.policy
      BY <1>1, <1>3, <2>1, <2>5 DEF CkptKept
    <2> HIDE DEF impl, k0
    <2>7. Unmixed(l, c, s, Len(l.entries))
      <3> SUFFICES ASSUME NEW h, c.handlers = {h}, l.start # NoStart, s.policy # NoPolicy
                   PROVE  Reached(l, h, s, Len(l.entries))
        BY DEF Unmixed
      <3>1. b.handlers = {h} /\ impl = h
        BY <1>1
      <3>2. Reached(l, h, k0, k)
        BY <2>2, <2>5, <3>1 DEF Unmixed
      <3> QED BY <1>2, <2>3, <2>5, <3>1, <3>2, ReachedRest
    <2> QED BY <2>5, <2>6, <2>7 DEF SessionKept
  <1>5. CASE ~CkptUsable(l)
    <2> DEFINE policy == Resolve(ps, l.start.policy)
               k0 == NewSession(l.start, l.version, policy, impl)
    <2>1. l.start # NoStart /\ s = ReplayFromStart(l, BuiltinModes, ps)
      BY <1>5 DEF ReplaySession, ReplayFromStart
    <2>2. StartKept(l, b, fixed, files)
      BY <2>1 DEF LogKept
    <2>3. s = ReplayEntries(k0, impl, l.entries, 0 + 1)
      BY <2>1, <2>2 DEF ReplayFromStart, StartKept
    <2>4. /\ DOMAIN k0 = SessionFields /\ k0.mode = l.start.mode /\ k0.mode_version = l.version
          /\ k0.policy = policy
      BY StartBinds
    <2>5. 0 \in 0 .. Len(l.entries)
      BY <1>2
    <2>6. Reached(l, impl, k0, 0)
      BY ReachedAtStart
    <2> HIDE DEF k0, impl
    <2>7. BoundAs(s, k0)
      BY <1>2, <2>3, <2>4, <2>5, ReplayBinds
    <2>8. IsBoundTo(s, c) /\ s.policy = policy
      BY <1>1, <2>2, <2>4, <2>7 DEF BoundAs, IsBoundTo, StartKept, LogKept
    <2>9. Governed(b, fixed) => policy = b.policy
      BY <2>2 DEF Governed, StartKept, Resolve, NameOf, IsRegistry
    <2>10. l.ckpt # NoCkpt /\ l.ckpt.session.policy = c.policy => s.policy = c.policy
      BY <1>1, <1>2, <1>5 DEF CkptUsable
    <2>11. Unmixed(l, c, s, Len(l.entries))
      <3> SUFFICES ASSUME NEW h, c.handlers = {h}
                   PROVE  Reached(l, h, s, Len(l.entries))
        BY DEF Unmixed
      <3>1. impl = h
        BY <1>1
      <3> HIDE DEF policy
      <3>2. s.policy = k0.policy
        BY <2>4, <2>8
      <3> QED BY <1>2, <2>3, <2>5, <2>6, <3>1, <3>2, ReachedRest
    <2> HIDE DEF policy
    <2> QED BY <1>1, <1>3, <2>8, <2>9, <2>10, <2>11 DEF SessionKept
  <1> QED BY <1>4, <1>5

-----------------------------------------------------------------------------
(* The sessions' rules.                                                    *)

\* The policies come from a directory nobody edited.
FixedDir(fromFiles, edited) == fromFiles /\ edited = 0

LifeInv ==
    /\ DOMAIN bound = DOMAIN log /\ DOMAIN sessions \subseteq DOMAIN log
    /\ edits \in Nat
    /\ up /\ readOnly /\ edits = 0 => policies = LoadFromDir(dir).policies
    /\ \A id \in DOMAIN log : LogKept(log[id], bound[id], FixedDir(readOnly, edits), dir)
    /\ \A id \in DOMAIN sessions :
          SessionKept(sessions[id], log[id], bound[id], FixedDir(readOnly, edits))
    /\ WhatIfAgrees

\* Looser claims follow from tighter ones: an edit of the directory.
LEMMA EditKeeps ==
  ASSUME NEW l, NEW b, NEW fixed, NEW files, NEW later
  PROVE  /\ LogKept(l, b, fixed, files) => LogKept(l, b, FALSE, later)
         /\ \A s : SessionKept(s, l, b, fixed) => SessionKept(s, l, b, FALSE)
  <1>1. Governed(b, FALSE) => Governed(b, fixed)
    BY DEF Governed
  <1>2. CkptKept(l, b, fixed) => CkptKept(l, b, FALSE)
    BY <1>1 DEF CkptKept
  <1>3. StartKept(l, b, fixed, files) => StartKept(l, b, FALSE, later)
    BY DEF StartKept
  <1> QED BY <1>1, <1>2, <1>3 DEF LogKept, SessionKept

\* What the replay of a session answers.
LEMMA WhatIfKept ==
  ASSUME LifeInv, ModesInv, WhatIfReplay
  PROVE  WhatIfAgrees'
  <1>1. PICK id \in DOMAIN sessions, candidate \in Documents :
           answer' = [verdict |-> WhatIfVerdict(id, candidate), session |-> sessions[id],
                      served |-> bound[id].handlers = {GetMode(modes, sessions[id].mode)},
                      tightened |-> RequiresStrictSessionStart(modes, sessions[id].mode)
                                       /\ ~bound[id].strict]
    BY DEF WhatIfReplay
  <1> DEFINE s == sessions[id]
             l == log[id]
             impl == GetMode(modes, s.mode)
             served == bound[id].handlers = {impl}
  <1>2. answer'.verdict = WhatIfVerdict(id, candidate) /\ answer'.session = s
        /\ (answer'.served <=> served)
        /\ (answer'.tightened <=> RequiresStrictSessionStart(modes, s.mode) /\ ~bound[id].strict)
    BY <1>1
  <1> SUFFICES ASSUME served, s.policy # NoPolicy,
                      RequiresStrictSessionStart(modes, s.mode) => bound[id].strict,
                      WhatIfVerdict(id, candidate) = "integrity"
               PROVE  FALSE
    BY <1>2 DEF WhatIfAgrees
  <1>3. LogKept(l, bound[id], FixedDir(readOnly, edits), dir)
        /\ SessionKept(s, l, bound[id], FixedDir(readOnly, edits))
    BY DEF LifeInv
  <1>4. l.start # NoStart
    BY DEF WhatIfVerdict
  <1>5. s.mode \in DOMAIN modes
    <2>1. impl # Unknown
      BY <1>3 DEF LogKept
    <2> QED BY <2>1 DEF GetMode
  <1>6. Reached(l, impl, s, Len(l.entries)) /\ l.entries \in Seq(Envelopes)
    BY <1>3, <1>4 DEF SessionKept, Unmixed, LogKept
  <1>7. ReplayEntries(NewSession(l.start, l.version, s.policy, impl), impl, l.entries, 1) = s
    <2> HIDE DEF s, l, impl
    <2> QED BY <1>6, ReachedIsReplay
  <1>8. s # Unrecoverable
    BY <1>3 DEF SessionKept, IsBoundTo, SessionFields, Unrecoverable
  <1>9. RecordedPolicy(s) = s.policy
    BY DEF RecordedPolicy
  <1> DEFINE recorded == ReplayEntries(NewSession(l.start, l.version, RecordedPolicy(s), impl),
                                       impl, l.entries, 1)
  <1>10. recorded = s
    <2> HIDE DEF s, l, impl
    <2> QED BY <1>7, <1>9
  <1>11. \/ s.mode \notin DOMAIN modes \/ StrictlyRefused(modes, l.start)
         \/ recorded = Unrecoverable \/ recorded.state # s.state
    BY <1>4 DEF WhatIfVerdict
  <1>12. ~StrictlyRefused(modes, l.start)
    <2>1. l.start.mode = s.mode /\ (bound[id].strict => Canonical(l.start))
      BY <1>3, <1>4 DEF LogKept, StartKept, SessionKept, IsBoundTo
    <2> HIDE DEF s, l
    <2> QED BY <2>1 DEF StrictlyRefused
  <1> HIDE DEF recorded, s
  <1> QED BY <1>5, <1>8, <1>10, <1>11, <1>12

LEMMA LifeKept ==
  ASSUME LifeInv, ModesInv, PoliciesInv, [Next]_vars
  PROVE  LifeInv'
  <1> USE DEF registries, store
  <1>1. CASE /\ UNCHANGED <<log, bound, readOnly, edits, dir, answer>>
             /\ sessions' = sessions \/ sessions' = <<>>
             /\ up' => up /\ (policies' = policies \/ ~readOnly)
    <2>1. DOMAIN <<>> = {}
      OBVIOUS
    <2> QED BY <1>1, <2>1 DEF LifeInv, WhatIfAgrees
  <1>2. CASE StartSession
    <2>1. PICK id \in Sessions \ DOMAIN log, req \in Requests :
             LET policy  == Resolve(policies, req.policy)
                 version == GetModeVersion(modes, req.mode)
                 s       == NewSession(req, version, policy, GetMode(modes, req.mode))
             IN  /\ req.mode \in DOMAIN modes
                 /\ StartValid(req)
                 /\ policy # NoPolicy
                 /\ sessions' = Put(sessions, id, s)
                 /\ bound' = Put(bound, id, [mode |-> req.mode, policy |-> policy,
                                            mode_version |-> version,
                                            handlers |-> {GetMode(modes, req.mode)},
                                            strict |-> RequiresStrictSessionStart(modes, req.mode)])
                 /\ log' = Put(log, id, [start |-> req, version |-> version, entries |-> <<>>,
                                        ckpt |-> NoCkpt])
      BY <1>2 DEF StartSession
    <2>2. up /\ UNCHANGED <<up, readOnly, dir, policies, answer, edits>>
      BY <1>2 DEF StartSession
    <2> DEFINE policy == Resolve(policies, req.policy)
               version == GetModeVersion(modes, req.mode)
               impl == GetMode(modes, req.mode)
               strict == RequiresStrictSessionStart(modes, req.mode)
               s == NewSession(req, version, policy, impl)
               l == [start |-> req, version |-> version, entries |-> <<>>, ckpt |-> NoCkpt]
               b == [mode |-> req.mode, policy |-> policy, mode_version |-> version,
                     handlers |-> {impl}, strict |-> strict]
    <2>3. impl # Unknown
      BY <2>1 DEF ModesInv, GetMode
    <2>4. sessions' = Put(sessions, id, s) /\ bound' = Put(bound, id, b) /\ log' = Put(log, id, l)
          /\ policy # NoPolicy /\ (strict => Canonical(req))
      BY <2>1 DEF StartValid, StrictlyRefused
    <2>5. FixedDir(readOnly, edits) => policies = LoadFromDir(dir).policies
      BY <2>2 DEF LifeInv, FixedDir
    <2>6. /\ LogKept(l, b, FixedDir(readOnly, edits), dir)
          /\ SessionKept(s, l, b, FixedDir(readOnly, edits))
      <3>1. IsRegistry(policies)
        BY DEF PoliciesInv
      <3> HIDE DEF impl, version, policy, strict
      <3> QED BY <2>3, <2>4, <2>5, <3>1, StartKeeps DEF policy
    <2> HIDE DEF s, l, b
    <2> QED BY <2>2, <2>4, <2>6 DEF LifeInv, Put, WhatIfAgrees
  <1>3. CASE Message
    <2>1. PICK id \in DOMAIN sessions, env \in Envelopes :
             LET impl == GetMode(modes, sessions[id].mode)
                 resp == OnMessageOf(impl, sessions[id], env)
                 s    == ApplyModeResponse(sessions[id], resp)
             IN  /\ sessions[id].state = "Open"
                 /\ resp # Rejected
                 /\ sessions' = [sessions EXCEPT ![id] = s]
                 /\ log' = [log EXCEPT ![id] = LogAfter(@, s, env)]
                 /\ bound' = [bound EXCEPT ![id] = HandledBy(@, impl)]
      BY <1>3 DEF Message
    <2>2. UNCHANGED <<up, readOnly, dir, policies, answer, edits>>
      BY <1>3 DEF Message
    <2> DEFINE impl == GetMode(modes, sessions[id].mode)
               resp == OnMessageOf(impl, sessions[id], env)
               t == ApplyModeResponse(sessions[id], resp)
               m == LogAfter(log[id], t, env)
               c == HandledBy(bound[id], impl)
    <2>3. /\ sessions[id].state = "Open" /\ resp # Rejected
          /\ sessions' = [sessions EXCEPT ![id] = t]
          /\ log' = [log EXCEPT ![id] = m] /\ bound' = [bound EXCEPT ![id] = c]
      BY <2>1
    <2>4. /\ id \in DOMAIN log
          /\ LogKept(log[id], bound[id], FixedDir(readOnly, edits), dir)
          /\ SessionKept(sessions[id], log[id], bound[id], FixedDir(readOnly, edits))
      BY DEF LifeInv
    <2>5. /\ LogKept(m, c, FixedDir(readOnly, edits), dir)
          /\ SessionKept(t, m, c, FixedDir(readOnly, edits))
      <3> HIDE DEF impl
      <3> QED BY <2>3, <2>4, MessageKeeps
    <2> HIDE DEF t, m, c
    <2> QED BY <2>2, <2>3, <2>4, <2>5 DEF LifeInv, WhatIfAgrees
  <1>4. CASE Checkpoint
    <2>1. PICK id \in DOMAIN sessions :
             log' = [log EXCEPT ![id].ckpt = CkptOf(sessions[id], log[id].entries)]
      BY <1>4 DEF Checkpoint
    <2>2. UNCHANGED <<up, readOnly, dir, policies, answer, edits, sessions, bound>>
      BY <1>4 DEF Checkpoint
    <2> DEFINE m == [log[id] EXCEPT !.ckpt = CkptOf(sessions[id], log[id].entries)]
    <2>3. log' = [log EXCEPT ![id] = m]
      BY <2>1
    <2>4. /\ id \in DOMAIN log
          /\ LogKept(log[id], bound[id], FixedDir(readOnly, edits), dir)
          /\ SessionKept(sessions[id], log[id], bound[id], FixedDir(readOnly, edits))
      BY DEF LifeInv
    <2>5. /\ LogKept(m, bound[id], FixedDir(readOnly, edits), dir)
          /\ SessionKept(sessions[id], m, bound[id], FixedDir(readOnly, edits))
      BY <2>4, CheckpointKeeps
    <2> HIDE DEF m
    <2> QED BY <2>2, <2>3, <2>4, <2>5 DEF LifeInv, WhatIfAgrees
  <1>5. CASE Restart
    <2> DEFINE loaded == LoadFromDir(IF readOnly THEN dir ELSE <<>>)
               got(id) == ReplaySession(log[id], BuiltinModes, loaded.policies)
               c(id) == HandledBy(bound[id], GetMode(BuiltinModes, bound[id].mode))
    <2>1. /\ UNCHANGED <<readOnly, dir, log, answer, edits>> /\ policies' = loaded.policies
          /\ bound' = [id \in DOMAIN bound |-> c(id)]
          /\ sessions' = [id \in {x \in DOMAIN log : got(x) # Unrecoverable} |-> got(id)]
      BY <1>5 DEF Restart
    <2>2. IsRegistry(loaded.policies)
      BY DirectoryRead, EmptyListing DEF PoliciesInv
    <2>3. FixedDir(readOnly, edits) = TRUE => loaded.policies = LoadFromDir(dir).policies
      BY DEF FixedDir
    <2>4. ASSUME NEW id \in DOMAIN log
          PROVE  /\ LogKept(log[id], c(id), FixedDir(readOnly, edits), dir)
                 /\ got(id) # Unrecoverable =>
                       SessionKept(got(id), log[id], c(id), FixedDir(readOnly, edits))
      <3>1. LogKept(log[id], bound[id], FixedDir(readOnly, edits), dir)
        BY DEF LifeInv
      <3>2. LogKept(log[id], c(id), FixedDir(readOnly, edits), dir)
        BY <3>1, HandledKeeps
      <3> HIDE DEF loaded
      <3>3. ASSUME got(id) # Unrecoverable
            PROVE  SessionKept(got(id), log[id], c(id), FixedDir(readOnly, edits))
        BY <2>2, <2>3, <3>1, <3>3, RecoveryKeeps
      <3> QED BY <3>2, <3>3
    <2>5. readOnly /\ edits = 0 => loaded.policies = LoadFromDir(dir).policies
      OBVIOUS
    <2> HIDE DEF loaded, got, c
    <2>6. DOMAIN bound = DOMAIN log /\ edits \in Nat /\ WhatIfAgrees
      BY DEF LifeInv
    <2>7. WhatIfAgrees'
      BY <2>1, <2>6 DEF WhatIfAgrees
    <2> QED BY <2>1, <2>4, <2>5, <2>6, <2>7 DEF LifeInv
  <1>6. CASE EditDir
    <2>1. edits' = edits + 1 /\ UNCHANGED <<up, readOnly, policies, sessions, log, bound, answer>>
      BY <1>6 DEF EditDir
    <2>2. edits' \in Nat /\ edits' # 0
      BY <2>1 DEF LifeInv
    <2>3. FixedDir(readOnly', edits') = FALSE
      BY <2>2 DEF FixedDir
    <2>4. \A id \in DOMAIN log : LogKept(log[id], bound[id], FALSE, dir')
      BY EditKeeps DEF LifeInv
    <2>5. \A id \in DOMAIN sessions : SessionKept(sessions[id], log[id], bound[id], FALSE)
      BY EditKeeps DEF LifeInv
    <2> QED BY <2>1, <2>2, <2>3, <2>4, <2>5 DEF LifeInv, WhatIfAgrees
  <1>7. CASE WhatIfReplay
    <2>1. WhatIfAgrees'
      BY <1>7, WhatIfKept
    <2> QED BY <1>7, <2>1 DEF LifeInv, WhatIfReplay
  <1>8. CASE RegisterPolicy \/ UnregisterPolicy \/ RegisterExtMode \/ UnregisterExtMode \/ PromoteMode
    BY <1>1, <1>8 DEF RegisterPolicy, UnregisterPolicy, RegisterExtMode, UnregisterExtMode,
                      PromoteMode
  <1>9. CASE SendChange \/ WatchPolicies \/ WatchNext \/ Crash \/ UNCHANGED vars
    BY <1>1, <1>9 DEF SendChange, WatchPolicies, WatchNext, WatchStep, Crash, vars
  <1> QED BY <1>2, <1>3, <1>4, <1>5, <1>6, <1>7, <1>8, <1>9 DEF Next

\* A session is governed, and asked about, under the definition it bound at
\* its start (process_session_start, replay_session, what_if_over_log),
\* whatever the registries, the directory and the process went through since.
THEOREM BoundForLifeTheorem == Spec => []BoundForLife
  <1> DEFINE Inv == ModesInv /\ PoliciesInv /\ LifeInv
  <1>1. Init => Inv
    <2> SUFFICES ASSUME Init PROVE Inv
      OBVIOUS
    <2>1. /\ modes = BuiltinModes /\ policies = BuiltinPolicies /\ (dir \in Dirs \/ dir = <<>>)
          /\ sessions = <<>> /\ log = <<>> /\ bound = <<>> /\ edits = 0 /\ answer = NoAnswer
          /\ up = FALSE
      BY DEF Init
    <2>2. ModesInv
      BY <2>1, BuiltinModesWhole DEF ModesInv, NoMasquerade
    <2>3. IsListing(dir)
      BY <2>1, DirIsListing, EmptyListing
    <2>4. PoliciesInv
      BY <2>1, <2>3, BuiltinRegistry DEF PoliciesInv
    <2>5. DOMAIN <<>> = {} /\ NoAnswer.verdict = "none"
      BY DEF NoAnswer
    <2>6. LifeInv
      BY <2>1, <2>5 DEF LifeInv, WhatIfAgrees
    <2> QED BY <2>2, <2>4, <2>6
  <1>2. Inv /\ [Next]_vars => Inv'
    BY MasqueradeKept, PoliciesKept, LifeKept
  <1>3. Inv => BoundForLife
    <2> SUFFICES ASSUME Inv PROVE BoundForLife
      OBVIOUS
    <2>1. ASSUME NEW id \in DOMAIN sessions
          PROVE  /\ Durable(id) => sessions[id].policy = bound[id].policy
                 /\ sessions[id].mode_version = bound[id].mode_version
      <3>1. SessionKept(sessions[id], log[id], bound[id], FixedDir(readOnly, edits))
        BY DEF LifeInv
      <3> QED BY <3>1 DEF SessionKept, Governed, FixedDir, Durable, IsBoundTo
    <2> QED BY <2>1 DEF BoundForLife, GovernanceKept, LifeInv
  <1> QED BY <1>1, <1>2, <1>3, PTL DEF Spec
=============================================================================
