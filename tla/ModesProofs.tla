---------------------------- MODULE ModesProofs ----------------------------
(***************************************************************************)
(* What the modes guarantee for every roster, policy and set of messages.  *)
(*                                                                         *)
(* The theorems are about WhatIfSpec, the session of Modes with its        *)
(* history kept or not, and about the contract that the handoff mode meets *)
(* towards the kernel.  ModesInv is the inductive invariant: what each     *)
(* mode keeps of its own state, and that a commitment, once there, is one  *)
(* its policy let through on the very tally the session still holds.       *)
(***************************************************************************)
EXTENDS WhatIf, Handoff, FiniteSetTheorems, TLAPS

-----------------------------------------------------------------------------
(* The invariant.                                                          *)

SessionFields == {"mode", "policy", "semantics_rev", "mode_state", "state"}

IsSession(s) == SessionFields \subseteq DOMAIN s

\* What SessionsAssumption says of a policy.
Bindable(p) ==
    p # NoPolicy =>
        /\ WellTyped(p)
        /\ ParsesAs("decision", p) => ParsedRules("decision", p)["voting.threshold"][1] > 0

\* Nobody objects to nothing, and a committed phase is of a resolved session.
DecisionKept(s) ==
    LET st == s.mode_state
    IN  /\ DOMAIN st = {"proposals", "evaluations", "objections", "votes", "phase"}
        /\ IsFiniteSet(Ballots(st.votes))
        /\ st.proposals = {} => st.objections = <<>>
        /\ st.phase = "Committed" => s.state = "Resolved"

Converges(s, st, p) ==
    CheckAcceptanceCriterion(ProposalRules(s)["acceptance.criterion"], st, p)

ProposalKept(s) ==
    LET st == s.mode_state
    IN  /\ DOMAIN st = {"proposals", "accepts", "rejections", "terminal_rejections", "phase"}
        /\ \A p \in DOMAIN st.accepts : st.accepts[p] \in Live(st)
        /\ st.phase = "Converged" => \E p \in Live(st) : Converges(s, st, p)

TaskKept(s) ==
    LET st == s.mode_state
    IN  /\ DOMAIN st = {"task", "active_assignee", "rejections", "updates", "report", "decodes"}
        /\ ~HasRejected(st, None)
        /\ s.semantics_rev >= PERSONAL_DECLINE_REV => ~HasRejected(st, st.active_assignee)

QuorumKept(s) ==
    LET st == s.mode_state
    IN  /\ DOMAIN st = {"request", "ballots"}
        /\ DOMAIN st.ballots \subseteq Participants
        /\ st.request # NoRequest => st.request.required_approvals \in Nat

MultiRoundKept(s) ==
    LET st == s.mode_state
    IN  /\ DOMAIN st = {"round", "contributions", "converged"}
        /\ Participants # {} /\ DOMAIN st.contributions \subseteq Participants
        /\ st.converged = CheckConvergence(st.contributions)

\* The policy let the commitment through, and asked about the session as it
\* stands it would again.
Sealed(s, c) ==
    /\ s.state = "Resolved"
    /\ c.outcome_positive \in BOOLEAN
    /\ s.mode = "decision" /\ s.policy # NoPolicy => DecisionReasons(s, s.mode_state, c) = {}
    /\ s.mode = "quorum" /\ s.policy # NoPolicy => QuorumReasons(s, s.mode_state, c) = {}

ModeKept(s) ==
    /\ s.mode = "decision" => DecisionKept(s)
    /\ s.mode = "proposal" => ProposalKept(s)
    /\ s.mode = "task" => TaskKept(s)
    /\ s.mode = "quorum" => QuorumKept(s)
    /\ s.mode = "multi_round" => MultiRoundKept(s)

SessionInv(s, c) ==
    /\ IsSession(s)
    /\ s.mode \in SessionModes
    /\ Bindable(s.policy)
    /\ ModeKept(s)
    /\ c # NoCommit => Sealed(s, c)

ModesInv ==
    /\ session = NoSession => commit = NoCommit
    /\ session # NoSession => SessionInv(session, commit)
    /\ recording /\ session # NoSession => session.mode \in DOMAIN Candidates

-----------------------------------------------------------------------------
(* An answer of a mode, applied.                                           *)

LEMMA NoSessionIsNone == ASSUME NEW s, IsSession(s) PROVE s # NoSession
  <1>1. DOMAIN NoSession = {"state"}
    BY DEF NoSession
  <1> QED BY <1>1 DEF IsSession, SessionFields

\* Only the mode state changes, or the session also resolves.
LEMMA PersistApplies ==
  ASSUME NEW s, IsSession(s), NEW st, NEW t, t = ApplyModeResponse(s, PersistState(st))
  PROVE  /\ IsSession(t) /\ t.mode_state = st /\ t.state = s.state
         /\ t.mode = s.mode /\ t.policy = s.policy /\ t.semantics_rev = s.semantics_rev
  <1>1. t = [s EXCEPT !.mode_state = st]
    BY DEF ApplyModeResponse, PersistState
  <1> QED BY <1>1 DEF IsSession, SessionFields

LEMMA ResolveApplies ==
  ASSUME NEW s, IsSession(s), NEW st, NEW t, t = ApplyModeResponse(s, PersistAndResolve(st))
  PROVE  /\ IsSession(t) /\ t.mode_state = st /\ t.state = "Resolved"
         /\ t.mode = s.mode /\ t.policy = s.policy /\ t.semantics_rev = s.semantics_rev
  <1>1. t = [s EXCEPT !.mode_state = st, !.state = "Resolved"]
    BY DEF ApplyModeResponse, PersistAndResolve
  <1> QED BY <1>1 DEF IsSession, SessionFields

\* Every answer but a refusal carries a mode state.
Carries(resp, st) == resp = PersistState(st) \/ resp = PersistAndResolve(st)

LEMMA CarriedApplies ==
  ASSUME NEW s, IsSession(s), NEW resp, NEW st, Carries(resp, st),
         NEW t, t = ApplyModeResponse(s, resp)
  PROVE  /\ IsSession(t) /\ t.mode_state = st /\ t.state \in {s.state, "Resolved"}
         /\ t.mode = s.mode /\ t.policy = s.policy /\ t.semantics_rev = s.semantics_rev
  BY PersistApplies, ResolveApplies DEF Carries

LEMMA KindsDiffer == \A st : PersistState(st) # Rejected /\ PersistAndResolve(st) # Rejected
  BY DEF PersistState, PersistAndResolve, Rejected

-----------------------------------------------------------------------------
(* HashMap::insert.                                                        *)

LEMMA PutDomain == \A f, k, v : DOMAIN Put(f, k, v) = DOMAIN f \cup {k}
  BY DEF Put

LEMMA PutValue ==
  \A f, k, v : /\ Put(f, k, v)[k] = v
               /\ \A x \in DOMAIN f : x # k => Put(f, k, v)[x] = f[x]
  BY DEF Put

-----------------------------------------------------------------------------
(* The task mode.                                                          *)

\* What DeclinedNeverHolds says of one step.
DeclineStands(s, t) ==
    LET st == s.mode_state
        nx == t.mode_state
    IN  /\ st.active_assignee \notin {None, nx.active_assignee} =>
               /\ nx.active_assignee = None
               /\ [assignee |-> st.active_assignee, while_assigned |-> TRUE] \in nx.rejections
        /\ s.semantics_rev >= PERSONAL_DECLINE_REV => ~HasRejected(nx, nx.active_assignee)

\* Who holds the task and who declined it, after a message.
TaskMoved(s, env, nx) ==
    LET st == s.mode_state
        holds == st.active_assignee = env.sender
    IN  /\ DOMAIN nx = DOMAIN st
        /\ \/ nx.active_assignee = st.active_assignee /\ nx.rejections = st.rejections
           \/ /\ env.type = "TaskAccept" /\ st.active_assignee = None
              /\ nx.active_assignee = env.sender /\ nx.rejections = st.rejections
              /\ s.semantics_rev >= PERSONAL_DECLINE_REV => ~HasRejected(st, env.sender)
           \/ /\ env.type = "TaskReject" /\ (holds \/ st.active_assignee = None)
              /\ nx.active_assignee = None
              /\ nx.rejections = st.rejections \cup
                     {[assignee |-> env.sender, while_assigned |-> holds]}

LEMMA TaskAnswers ==
  ASSUME NEW s, TaskKept(s), NEW env, TaskOnMessage(s, env) # Rejected
  PROVE  \E nx : Carries(TaskOnMessage(s, env), nx) /\ TaskMoved(s, env, nx)
  <1> DEFINE st == s.mode_state
             resp == TaskOnMessage(s, env)
             holds == st.active_assignee = env.sender
  <1>1. DOMAIN st = {"task", "active_assignee", "rejections", "updates", "report", "decodes"}
    BY DEF TaskKept
  <1>2. CASE env.type = "TaskRequest"
    <2> DEFINE nx == [st EXCEPT !.task = env.assignee]
    <2>1. resp = HandleTaskRequest(st, env)
      BY <1>2 DEF TaskOnMessage
    <2>2. resp = PersistState(nx)
      BY <2>1 DEF HandleTaskRequest
    <2>3. TaskMoved(s, env, nx)
      BY <1>1 DEF TaskMoved
    <2> QED BY <2>2, <2>3 DEF Carries
  <1>3. CASE env.type = "TaskAccept"
    <2> DEFINE nx == [st EXCEPT !.active_assignee = env.sender]
    <2>1. resp = HandleTaskAccept(s, st, env)
      BY <1>3 DEF TaskOnMessage
    <2>2. /\ resp = PersistState(nx) /\ st.active_assignee = None
          /\ s.semantics_rev >= PERSONAL_DECLINE_REV => ~HasRejected(st, env.sender)
      BY <2>1 DEF HandleTaskAccept
    <2>3. TaskMoved(s, env, nx)
      BY <1>1, <1>3, <2>2 DEF TaskMoved
    <2> QED BY <2>2, <2>3 DEF Carries
  <1>4. CASE env.type = "TaskReject"
    <2> DEFINE nx == [st EXCEPT !.active_assignee = IF holds THEN None ELSE @,
                         !.rejections = @ \cup {[assignee |-> env.sender, while_assigned |-> holds]}]
    <2>1. resp = HandleTaskReject(s, st, env)
      BY <1>4 DEF TaskOnMessage
    <2>2. resp = PersistState(nx) /\ (holds \/ st.active_assignee = None)
      BY <2>1, Zenon DEF HandleTaskReject
    <2>3. TaskMoved(s, env, nx)
      BY <1>1, <1>4, <2>2 DEF TaskMoved
    <2> QED BY <2>2, <2>3 DEF Carries
  <1>5. CASE env.type = "TaskUpdate"
    <2> DEFINE nx == [st EXCEPT !.updates = @ + 1, !.decodes = env.finite]
    <2>1. resp = HandleTaskUpdate(st, env)
      BY <1>5 DEF TaskOnMessage
    <2>2. resp = PersistState(nx)
      BY <2>1 DEF HandleTaskUpdate
    <2>3. TaskMoved(s, env, nx)
      BY <1>1 DEF TaskMoved
    <2> QED BY <2>2, <2>3 DEF Carries
  <1>6. CASE env.type \in {"TaskComplete", "TaskFail"}
    <2>1. PICK kind : resp = HandleTaskReport(st, env, kind)
      BY <1>6 DEF TaskOnMessage
    <2> DEFINE nx == [st EXCEPT !.report =
                 [by |-> env.sender, kind |-> kind, output |-> kind = "Complete" /\ env.output]]
    <2>2. resp = PersistState(nx)
      BY <2>1, Zenon DEF HandleTaskReport
    <2>3. TaskMoved(s, env, nx)
      BY <1>1 DEF TaskMoved
    <2> QED BY <2>2, <2>3 DEF Carries
  <1>7. CASE env.type = "Commitment"
    <2>1. resp = TaskCommitment(s, st, env)
      BY <1>7 DEF TaskOnMessage
    <2>2. resp = PersistAndResolve(st)
      BY <2>1 DEF TaskCommitment
    <2>3. TaskMoved(s, env, st)
      BY <1>1 DEF TaskMoved
    <2> QED BY <2>2, <2>3 DEF Carries
  <1>8. CASE env.type \notin {"TaskRequest", "TaskAccept", "TaskReject", "TaskUpdate",
                              "TaskComplete", "TaskFail", "Commitment"}
    BY <1>8 DEF TaskOnMessage
  <1> QED BY <1>2, <1>3, <1>4, <1>5, <1>6, <1>7, <1>8

\* Only a holder's own reject frees the task, and no decliner gets it.
LEMMA TaskStep ==
  ASSUME NEW s, TaskKept(s), NEW env, TaskAuthorizeSender(s, env),
         NEW t, t.semantics_rev = s.semantics_rev, TaskMoved(s, env, t.mode_state)
  PROVE  TaskKept(t) /\ DeclineStands(s, t)
  <1> DEFINE st == s.mode_state
             nx == t.mode_state
  <1>1. env.type \in {"TaskAccept", "TaskReject"} => env.sender # None
    BY RosterAssumption DEF TaskAuthorizeSender, IsDeclaredParticipant
  <1>2. CASE nx.active_assignee = st.active_assignee /\ nx.rejections = st.rejections
    BY <1>2 DEF TaskKept, TaskMoved, DeclineStands, HasRejected
  <1>3. CASE /\ env.type = "TaskAccept" /\ st.active_assignee = None
             /\ nx.active_assignee = env.sender /\ nx.rejections = st.rejections
             /\ s.semantics_rev >= PERSONAL_DECLINE_REV => ~HasRejected(st, env.sender)
    BY <1>3 DEF TaskKept, TaskMoved, DeclineStands, HasRejected
  <1>4. CASE /\ env.type = "TaskReject"
             /\ st.active_assignee = env.sender \/ st.active_assignee = None
             /\ nx.active_assignee = None
             /\ nx.rejections = st.rejections \cup
                    {[assignee |-> env.sender, while_assigned |-> st.active_assignee = env.sender]}
    <2>1. ~HasRejected(nx, None)
      BY <1>1, <1>4 DEF TaskKept, HasRejected
    <2>2. st.active_assignee # None =>
             [assignee |-> st.active_assignee, while_assigned |-> TRUE] \in nx.rejections
      <3> SUFFICES ASSUME st.active_assignee # None
                   PROVE  [assignee |-> st.active_assignee, while_assigned |-> TRUE] \in nx.rejections
        OBVIOUS
      <3>1. (st.active_assignee = env.sender) = TRUE
        BY <1>4, Zenon
      <3>2. [assignee |-> env.sender, while_assigned |-> st.active_assignee = env.sender]
               = [assignee |-> st.active_assignee, while_assigned |-> TRUE]
        BY <1>4, <3>1, Zenon
      <3> QED BY <1>4, <3>2, Zenon
    <2>3. DOMAIN nx = DOMAIN st
      BY DEF TaskMoved
    <2> QED BY <1>4, <2>1, <2>2, <2>3 DEF TaskKept, DeclineStands
  <1> QED BY <1>2, <1>3, <1>4 DEF TaskMoved

-----------------------------------------------------------------------------
(* The quorum mode.                                                        *)

\* What VerdictFinal says of one step.
VerdictStands(s, t) ==
    QuorumReady(s, s.mode_state) =>
        QuorumReady(t, t.mode_state) /\ BarMet(t) = BarMet(s)

QuorumMoved(s, env, nx) ==
    LET st == s.mode_state
    IN  /\ DOMAIN nx = DOMAIN st
        /\ \/ nx.request = st.request /\ nx.ballots = st.ballots
           \/ /\ st.request = NoRequest /\ nx.ballots = st.ballots
              /\ nx.request.required_approvals \in Nat
           \/ /\ nx.request = st.request /\ env.type \notin {"ApprovalRequest", "Commitment"}
              /\ env.sender \notin DOMAIN st.ballots
              /\ nx.ballots = Put(st.ballots, env.sender, env.type)

LEMMA QuorumAnswers ==
  ASSUME NEW s, QuorumKept(s), NEW env, QuorumOnMessage(s, env) # Rejected
  PROVE  \E nx : /\ QuorumMoved(s, env, nx)
                 /\ \/ QuorumOnMessage(s, env) = PersistState(nx) /\ env.type # "Commitment"
                    \/ /\ QuorumOnMessage(s, env) = PersistAndResolve(nx) /\ nx = s.mode_state
                       /\ s.policy # NoPolicy => QuorumReasons(s, nx, env) = {}
  <1> DEFINE st == s.mode_state
             resp == QuorumOnMessage(s, env)
  <1>1. DOMAIN st = {"request", "ballots"}
    BY DEF QuorumKept
  <1>2. CASE env.type = "ApprovalRequest"
    <2> DEFINE request == [id |-> env.rid, required_approvals |-> env.required]
               nx == [st EXCEPT !.request = request]
    <2>1. resp = HandleApprovalRequest(s, st, env)
      BY <1>2 DEF QuorumOnMessage
    <2>2. resp = PersistState(nx) /\ st.request = NoRequest /\ env.required \in 1 .. Cardinality(Participants)
      BY <2>1 DEF HandleApprovalRequest
    <2>3. env.required \in Nat
      BY <2>2, RosterAssumption, FS_CardinalityType
    <2>4. QuorumMoved(s, env, nx)
      BY <1>1, <2>2, <2>3 DEF QuorumMoved
    <2> QED BY <1>2, <2>2, <2>4
  <1>3. CASE env.type \in {"Approve", "Reject", "Abstain"}
    <2> DEFINE nx == [st EXCEPT !.ballots = Put(@, env.sender, env.type)]
    <2>1. resp = HandleBallot(st, env)
      BY <1>3 DEF QuorumOnMessage
    <2>2. resp = PersistState(nx) /\ env.sender \notin DOMAIN st.ballots
      BY <2>1 DEF HandleBallot
    <2>3. QuorumMoved(s, env, nx)
      BY <1>1, <1>3, <2>2 DEF QuorumMoved
    <2> QED BY <1>3, <2>2, <2>3
  <1>4. CASE env.type = "Commitment"
    <2>1. resp = QuorumCommitment(s, st, env)
      BY <1>4 DEF QuorumOnMessage
    <2>2. resp = PersistAndResolve(st) /\ PolicyAllows(s, QuorumReasons(s, st, env))
      BY <2>1 DEF QuorumCommitment
    <2>3. QuorumMoved(s, env, st)
      BY DEF QuorumMoved
    <2> QED BY <2>2, <2>3 DEF PolicyAllows
  <1>5. CASE env.type \notin {"ApprovalRequest", "Approve", "Reject", "Abstain", "Commitment"}
    BY <1>5 DEF QuorumOnMessage
  <1> QED BY <1>2, <1>3, <1>4, <1>5

\* The threshold a policy sets for a quorum is a number.
LEMMA QuorumThresholdType ==
  ASSUME NEW p, Bindable(p)
  PROVE  /\ RulesOrDefault("quorum", p)["threshold.value"] \in Int
         /\ p # NoPolicy /\ ParsesAs("quorum", p) =>
                ParsedRules("quorum", p)["threshold.value"] \in Int
  <1>1. "threshold.value" \in DOMAIN ModeDefaults["quorum"]
    BY DEF ModeDefaults, StandardModes, QuorumDefaults, WithCommitment
  <1>2. ModeDefaults["quorum"]["threshold.value"] = 0
    BY DEF ModeDefaults, StandardModes, QuorumDefaults, WithCommitment, CommitmentPaths
  <1>3. ASSUME p # NoPolicy, ParsesAs("quorum", p)
        PROVE  ParsedRules("quorum", p)["threshold.value"] \in Int
    <2>1. "threshold.value" \notin p.mistyped
      BY <1>1, <1>3 DEF ParsesAs
    <2>2. CASE "threshold.value" \in DOMAIN p.rules
      BY <1>1, <1>3, <2>1, <2>2 DEF Bindable, WellTyped, ParsedRules
    <2>3. CASE "threshold.value" \notin DOMAIN p.rules
      BY <1>1, <1>2, <2>3 DEF ParsedRules
    <2> QED BY <2>2, <2>3
  <1> QED BY <1>2, <1>3 DEF RulesOrDefault

LEMMA BarType ==
  ASSUME NEW s, Bindable(s.policy), NEW request, request.required_approvals \in Nat,
         EffectiveBar(s, request).kind = "Approvals"
  PROVE  EffectiveBar(s, request).required \in Int
  <1> DEFINE r == RulesOrDefault("quorum", s.policy)
             n == Cardinality(Participants)
             v == r["threshold.value"]
  <1>1. v \in Int /\ n \in Nat /\ v * n \in Int
    <2>1. v \in Int
      BY QuorumThresholdType
    <2>2. n \in Nat
      BY RosterAssumption, FS_CardinalityType
    <2> HIDE DEF v, n
    <2> QED BY <2>1, <2>2
  <1>2. AtLeastOne(CeilDiv(v * n, 100)) \in Int /\ AtLeastOne(v) \in Int
    <2> HIDE DEF v, n
    <2> QED BY <1>1 DEF AtLeastOne, CeilDiv
  <1> DEFINE bar == EffectiveThreshold(r["threshold.type"], v, n)
  <1>3. bar.kind = "Approvals" => bar.required \in Int
    <2> HIDE DEF v, n, r
    <2> QED BY <1>2 DEF bar, EffectiveThreshold, Inert, Unsatisfiable, Approvals
  <1>4. EffectiveBar(s, request) = IF bar.kind = "Inert" THEN Approvals(request.required_approvals) ELSE bar
    BY DEF EffectiveBar
  <1> HIDE DEF bar
  <1> QED BY <1>3, <1>4 DEF Approvals

\* A ballot adds to the approvals at most what it takes from the ones to come.
LEMMA BallotCounts ==
  ASSUME NEW st, DOMAIN st.ballots \subseteq Participants,
         NEW sender \in Participants, sender \notin DOMAIN st.ballots, NEW choice,
         NEW nx, nx.ballots = Put(st.ballots, sender, choice)
  PROVE  /\ Count(st, "Approve") \in Nat /\ Count(nx, "Approve") \in Nat
         /\ Remaining(st) \in Nat /\ Remaining(nx) \in Nat
         /\ Count(st, "Approve") <= Count(nx, "Approve")
         /\ Count(nx, "Approve") + Remaining(nx) <= Count(st, "Approve") + Remaining(st)
  <1> DEFINE voted == DOMAIN st.ballots
             yes == {p \in voted : st.ballots[p] = "Approve"}
             yesAfter == {p \in DOMAIN nx.ballots : nx.ballots[p] = "Approve"}
  <1>1. DOMAIN nx.ballots = voted \cup {sender}
    BY PutDomain
  <1>2. /\ nx.ballots[sender] = choice
        /\ \A p \in voted : nx.ballots[p] = st.ballots[p]
    BY PutValue
  <1>3. yesAfter = IF choice = "Approve" THEN yes \cup {sender} ELSE yes
    BY <1>1, <1>2
  <1>4. IsFiniteSet(Participants) /\ IsFiniteSet(voted) /\ IsFiniteSet(yes)
    BY RosterAssumption, FS_Subset
  <1>5. IsFiniteSet(voted \cup {sender}) /\ voted \cup {sender} \subseteq Participants
    BY <1>4, FS_AddElement
  <1>6. /\ Cardinality(voted) \in Nat /\ Cardinality(yes) \in Nat /\ Cardinality(Participants) \in Nat
        /\ Cardinality(voted \cup {sender}) = Cardinality(voted) + 1
        /\ Cardinality(yes \cup {sender}) = Cardinality(yes) + 1
        /\ Cardinality(voted \cup {sender}) <= Cardinality(Participants)
    BY <1>4, <1>5, FS_CardinalityType, FS_AddElement, FS_Subset
  <1>7. /\ Count(st, "Approve") = Cardinality(yes)
        /\ Count(nx, "Approve") = Cardinality(yesAfter)
    BY DEF Count
  <1> HIDE DEF voted, yes, yesAfter
  <1>8. /\ Remaining(st) = Cardinality(Participants) - Cardinality(voted)
        /\ Remaining(nx) = Cardinality(Participants) - (Cardinality(voted) + 1)
    BY <1>1, <1>6 DEF Remaining, voted
  <1>9. Cardinality(yesAfter) \in {Cardinality(yes), Cardinality(yes) + 1}
    BY <1>3, <1>6
  <1> QED BY <1>6, <1>7, <1>8, <1>9

\* A verdict that no ballot can change is not changed.
LEMMA QuorumStep ==
  ASSUME NEW s, QuorumKept(s), Bindable(s.policy), NEW env, QuorumAuthorizeSender(s, env),
         NEW t, t.policy = s.policy, QuorumMoved(s, env, t.mode_state)
  PROVE  QuorumKept(t) /\ VerdictStands(s, t)
  <1> DEFINE st == s.mode_state
             nx == t.mode_state
             bar == EffectiveBar(s, st.request)
  <1>1. \A request : EffectiveBar(t, request) = EffectiveBar(s, request)
    BY DEF EffectiveBar
  <1>2. CASE nx.request = st.request /\ nx.ballots = st.ballots
    <2>1. QuorumKept(t)
      BY <1>2 DEF QuorumKept, QuorumMoved
    <2>2. Count(nx, "Approve") = Count(st, "Approve") /\ Remaining(nx) = Remaining(st)
      BY <1>2 DEF Count, Remaining
    <2>3. (QuorumReady(t, nx) <=> QuorumReady(s, st)) /\ (BarMet(t) <=> BarMet(s))
      BY <1>1, <1>2, <2>2 DEF QuorumReady, BarMet
    <2>4. BarMet(t) = BarMet(s)
      BY <2>3 DEF BarMet
    <2> QED BY <2>1, <2>3, <2>4 DEF VerdictStands
  <1>3. CASE /\ st.request = NoRequest /\ nx.ballots = st.ballots
             /\ nx.request.required_approvals \in Nat
    <2>1. QuorumKept(t)
      BY <1>3 DEF QuorumKept, QuorumMoved
    <2>2. ~QuorumReady(s, st)
      BY <1>3 DEF QuorumReady
    <2> QED BY <2>1, <2>2 DEF VerdictStands
  <1>4. CASE /\ nx.request = st.request /\ env.type \notin {"ApprovalRequest", "Commitment"}
             /\ env.sender \notin DOMAIN st.ballots
             /\ nx.ballots = Put(st.ballots, env.sender, env.type)
    <2>1. env.sender \in Participants
      BY <1>4 DEF QuorumAuthorizeSender, IsDeclaredParticipant
    <2>2. QuorumKept(t)
      <3>1. DOMAIN nx.ballots = DOMAIN st.ballots \cup {env.sender}
        BY <1>4 DEF Put
      <3>2. DOMAIN nx.ballots \subseteq Participants
        BY <2>1, <3>1 DEF QuorumKept
      <3> QED BY <1>4, <3>2 DEF QuorumKept, QuorumMoved
    <2>3. /\ Count(st, "Approve") \in Nat /\ Count(nx, "Approve") \in Nat
          /\ Remaining(st) \in Nat /\ Remaining(nx) \in Nat
          /\ Count(st, "Approve") <= Count(nx, "Approve")
          /\ Count(nx, "Approve") + Remaining(nx) <= Count(st, "Approve") + Remaining(st)
      BY <1>4, <2>1, BallotCounts DEF QuorumKept
    <2>4. ASSUME QuorumReady(s, st)
          PROVE  QuorumReady(t, nx) /\ (BarMet(t) <=> BarMet(s))
      <3>1. st.request # NoRequest /\ bar.kind = "Approvals"
        BY <2>4 DEF QuorumReady
      <3>2. bar.required \in Int
        BY <3>1, BarType DEF QuorumKept
      <3>3. EffectiveBar(t, nx.request) = bar
        BY <1>1, <1>4
      <3>4. \/ Count(st, "Approve") >= bar.required
            \/ Count(st, "Approve") + Remaining(st) < bar.required
        BY <2>4 DEF QuorumReady
      <3> HIDE DEF bar
      <3>5. CASE Count(st, "Approve") >= bar.required
        <4>1. Count(nx, "Approve") >= bar.required
          BY <2>3, <3>2, <3>5
        <4> QED BY <1>4, <3>1, <3>3, <3>5, <4>1 DEF QuorumReady, BarMet, bar
      <3>6. CASE Count(st, "Approve") + Remaining(st) < bar.required
        <4>1. /\ Count(nx, "Approve") + Remaining(nx) < bar.required
              /\ ~(Count(nx, "Approve") >= bar.required) /\ ~(Count(st, "Approve") >= bar.required)
          BY <2>3, <3>2, <3>6
        <4> QED BY <1>4, <3>1, <3>3, <4>1 DEF QuorumReady, BarMet, bar
      <3> QED BY <3>4, <3>5, <3>6
    <2>5. QuorumReady(s, st) => BarMet(t) = BarMet(s)
      BY <2>4 DEF BarMet
    <2> QED BY <2>2, <2>4, <2>5 DEF VerdictStands
  <1> QED BY <1>2, <1>3, <1>4 DEF QuorumMoved

-----------------------------------------------------------------------------
(* The proposal mode.                                                      *)

ProposalFields == {"proposals", "accepts", "rejections", "terminal_rejections", "phase"}

OnTheTable(st) == \A p \in DOMAIN st.accepts : st.accepts[p] \in Live(st)

\* ProposalKept of a session that holds st.
Negotiated(s, st) ==
    /\ DOMAIN st = ProposalFields
    /\ OnTheTable(st)
    /\ st.phase = "Converged" => \E p \in Live(st) : Converges(s, st, p)

LEMMA CriterionReads ==
  ASSUME NEW s, NEW t, t.policy = s.policy,
         NEW st, NEW nx, nx.proposals = st.proposals, nx.accepts = st.accepts
  PROVE  /\ Live(nx) = Live(st)
         /\ OnTheTable(nx) <=> OnTheTable(st)
         /\ \A p : Converges(t, nx, p) <=> Converges(s, st, p)
  <1>1. ProposalRules(t) = ProposalRules(s)
    BY DEF ProposalRules
  <1>2. \A voter, p : AcceptedBy(nx, voter, p) <=> AcceptedBy(st, voter, p)
    BY DEF AcceptedBy
  <1>3. \A p : Converges(t, nx, p) <=> Converges(s, st, p)
    BY <1>1, <1>2 DEF Converges, CheckAcceptanceCriterion
  <1> QED BY <1>3 DEF Live, OnTheTable

\* refresh_phase leaves a phase that holds of the acceptances.
LEMMA Refreshed ==
  ASSUME NEW s, NEW st, DOMAIN st = ProposalFields, OnTheTable(st)
  PROVE  Negotiated(s, RefreshPhase(s, st))
  <1> DEFINE nx == RefreshPhase(s, st)
             found == \E p \in Live(st) : Converges(s, st, p)
  <1>1. /\ DOMAIN nx = ProposalFields /\ nx.proposals = st.proposals /\ nx.accepts = st.accepts
        /\ nx.phase = "Converged" => found
    BY DEF RefreshPhase, ProposalFields, Converges
  <1> HIDE DEF nx
  <1>2. /\ Live(nx) = Live(st) /\ OnTheTable(nx) /\ \A p : Converges(s, nx, p) <=> Converges(s, st, p)
    BY <1>1, CriterionReads
  <1> QED BY <1>1, <1>2 DEF Negotiated, nx

LEMMA ProposalAnswers ==
  ASSUME NEW s, ProposalKept(s), NEW env, ProposalOnMessage(s, env) # Rejected
  PROVE  \E nx : Carries(ProposalOnMessage(s, env), nx) /\ Negotiated(s, nx)
  <1> DEFINE st == s.mode_state
             resp == ProposalOnMessage(s, env)
  <1>1. DOMAIN st = ProposalFields /\ OnTheTable(st)
    BY DEF ProposalKept, ProposalFields, OnTheTable
  <1>2. ASSUME NEW by, resp = NewProposal(s, st, env, by), env.pid \notin DOMAIN st.proposals
        PROVE  \E nx : Carries(resp, nx) /\ Negotiated(s, nx)
    <2> DEFINE offer == [proposer |-> env.sender, supersedes |-> by, disposition |-> "Live"]
               st0 == [st EXCEPT !.proposals = Put(@, env.pid, offer)]
    <2>1. resp = PersistState(RefreshPhase(s, st0))
      BY <1>2 DEF NewProposal
    <2>2. /\ DOMAIN st0 = ProposalFields /\ st0.accepts = st.accepts
          /\ st0.proposals = Put(st.proposals, env.pid, offer)
      BY <1>1 DEF ProposalFields
    <2>3. Live(st) \subseteq Live(st0)
      BY <1>2, <2>2 DEF Live, Put
    <2>4. OnTheTable(st0)
      BY <1>1, <2>2, <2>3 DEF OnTheTable
    <2> HIDE DEF st0
    <2> QED BY <2>1, <2>2, <2>4, Refreshed DEF Carries
  <1>3. CASE env.type = "Proposal"
    <2>1. resp = HandleNewProposal(s, st, env)
      BY <1>3 DEF ProposalOnMessage
    <2> QED BY <1>2, <2>1 DEF HandleNewProposal
  <1>4. CASE env.type = "CounterProposal"
    <2>1. resp = HandleCounterProposal(s, st, env)
      BY <1>4 DEF ProposalOnMessage
    <2>2. resp = NewProposal(s, st, env, env.supersedes) /\ env.pid \notin DOMAIN st.proposals
      BY <2>1 DEF HandleCounterProposal
    <2> QED BY <1>2, <2>2
  <1>5. CASE env.type = "Accept"
    <2> DEFINE st0 == [st EXCEPT !.accepts = Put(@, env.sender, env.pid)]
    <2>1. resp = HandleAccept(s, st, env)
      BY <1>5 DEF ProposalOnMessage
    <2>2. resp = PersistState(RefreshPhase(s, st0)) /\ env.pid \in Live(st)
      BY <2>1 DEF HandleAccept
    <2>3. /\ DOMAIN st0 = ProposalFields /\ st0.proposals = st.proposals
          /\ st0.accepts = Put(st.accepts, env.sender, env.pid)
      BY <1>1 DEF ProposalFields
    <2>4. OnTheTable(st0)
      BY <1>1, <2>2, <2>3 DEF OnTheTable, Live, Put
    <2> HIDE DEF st0
    <2> QED BY <2>2, <2>3, <2>4, Refreshed DEF Carries
  <1>6. CASE env.type = "Reject"
    <2>1. resp = HandleReject(s, st, env)
      BY <1>6 DEF ProposalOnMessage
    <2> DEFINE terminal == env.terminal \/ ProposalRules(s)["rejection.terminal_on_any_reject"]
               record == [pid |-> env.pid, sender |-> env.sender]
               st0 == [st EXCEPT !.rejections = @ \cup {record},
                            !.terminal_rejections = IF terminal THEN @ \cup {record} ELSE @]
    <2>2. resp = PersistState(RefreshPhase(s, st0))
      BY <2>1, Zenon DEF HandleReject
    <2>3. DOMAIN st0 = ProposalFields /\ st0.proposals = st.proposals /\ st0.accepts = st.accepts
      BY <1>1 DEF ProposalFields
    <2> HIDE DEF st0
    <2>4. OnTheTable(st0)
      BY <1>1, <2>3 DEF OnTheTable, Live
    <2> QED BY <2>2, <2>3, <2>4, Refreshed DEF Carries
  <1>7. CASE env.type = "Withdraw"
    <2>1. resp = HandleWithdraw(s, st, env)
      BY <1>7 DEF ProposalOnMessage
    <2> DEFINE st0 == [st EXCEPT !.proposals[env.pid].disposition = "Withdrawn",
                        !.accepts = [p \in {q \in DOMAIN @ : @[q] # env.pid} |-> @[p]],
                        !.terminal_rejections = {r \in @ : r.pid # env.pid}]
    <2>2. resp = PersistState(RefreshPhase(s, st0))
      BY <2>1, Zenon DEF HandleWithdraw
    <2>3. /\ DOMAIN st0 = ProposalFields
          /\ DOMAIN st0.proposals = DOMAIN st.proposals
          /\ \A p \in DOMAIN st.proposals : p # env.pid => st0.proposals[p] = st.proposals[p]
          /\ st0.accepts = [p \in {q \in DOMAIN st.accepts : st.accepts[q] # env.pid} |-> st.accepts[p]]
      BY <1>1 DEF ProposalFields
    <2> HIDE DEF st0
    <2>4. OnTheTable(st0)
      BY <1>1, <2>3 DEF OnTheTable, Live
    <2> QED BY <2>2, <2>3, <2>4, Refreshed DEF Carries
  <1>8. CASE env.type = "Commitment"
    <2> DEFINE nx == [st EXCEPT !.phase = "Committed"]
    <2>1. resp = ProposalCommitment(s, st, env)
      BY <1>8 DEF ProposalOnMessage
    <2>2. resp = PersistAndResolve(nx)
      BY <2>1 DEF ProposalCommitment
    <2>3. /\ DOMAIN nx = ProposalFields /\ nx.proposals = st.proposals
          /\ nx.accepts = st.accepts /\ nx.phase = "Committed"
      BY <1>1 DEF ProposalFields
    <2> HIDE DEF nx
    <2>4. Negotiated(s, nx)
      BY <1>1, <2>3 DEF Negotiated, OnTheTable, Live
    <2> QED BY <2>2, <2>4 DEF Carries
  <1>9. CASE env.type \notin {"Proposal", "CounterProposal", "Accept", "Reject", "Withdraw", "Commitment"}
    BY <1>9 DEF ProposalOnMessage
  <1> QED BY <1>3, <1>4, <1>5, <1>6, <1>7, <1>8, <1>9

LEMMA ProposalStep ==
  ASSUME NEW s, NEW t, t.policy = s.policy, Negotiated(s, t.mode_state)
  PROVE  ProposalKept(t)
  <1>1. \A p : Converges(t, t.mode_state, p) <=> Converges(s, t.mode_state, p)
    BY CriterionReads
  <1> QED BY <1>1 DEF ProposalKept, Negotiated, ProposalFields, OnTheTable

-----------------------------------------------------------------------------
(* The extension modes.                                                    *)

MultiRoundFields == {"round", "contributions", "converged"}

Converging(st) ==
    /\ DOMAIN st = MultiRoundFields
    /\ Participants # {} /\ DOMAIN st.contributions \subseteq Participants
    /\ st.converged = CheckConvergence(st.contributions)

LEMMA MultiRoundAnswers ==
  ASSUME NEW s, MultiRoundKept(s), NEW env, ExtensionAuthorizeSender(s, env),
         MultiRoundOnMessage(s, env) # Rejected
  PROVE  \E nx : Carries(MultiRoundOnMessage(s, env), nx) /\ Converging(nx)
  <1> DEFINE st == s.mode_state
             resp == MultiRoundOnMessage(s, env)
  <1>1. Converging(st)
    BY DEF MultiRoundKept, Converging, MultiRoundFields
  <1>2. CASE env.type = "Contribute"
    <2> DEFINE value == ParseContributeValue(s, env)
               after == Put(st.contributions, env.sender, value)
               changed == env.sender \notin DOMAIN st.contributions \/ st.contributions[env.sender] # value
               nx == [round |-> IF changed THEN st.round + 1 ELSE st.round,
                      contributions |-> after, converged |-> CheckConvergence(after)]
    <2>1. resp = HandleContribute(s, st, env)
      BY <1>2 DEF MultiRoundOnMessage
    <2>2. resp = PersistState(nx)
      BY <2>1, Zenon DEF HandleContribute
    <2>3. env.sender \in Participants
      BY <1>1, <1>2 DEF ExtensionAuthorizeSender, IsDeclaredParticipant, Converging
    <2>4. DOMAIN after \subseteq Participants
      BY <1>1, <2>3 DEF Converging, Put
    <2> HIDE DEF after, changed
    <2>5. DOMAIN nx = MultiRoundFields /\ nx.contributions = after
      BY DEF MultiRoundFields
    <2>6. nx.converged = CheckConvergence(after)
      BY Zenon
    <2> HIDE DEF nx
    <2>7. Converging(nx)
      BY <1>1, <2>4, <2>5, <2>6 DEF Converging
    <2> QED BY <2>2, <2>7 DEF Carries
  <1>3. CASE env.type = "Commitment"
    BY <1>1, <1>3 DEF MultiRoundOnMessage, Carries
  <1>4. CASE env.type \notin {"Contribute", "Commitment"}
    BY <1>4 DEF MultiRoundOnMessage
  <1> QED BY <1>2, <1>3, <1>4

LEMMA PassthroughAnswers ==
  ASSUME NEW s, NEW env, PassthroughOnMessage(PassthroughTypes, s, env) # Rejected
  PROVE  \E nx : Carries(PassthroughOnMessage(PassthroughTypes, s, env), nx)
  BY DEF PassthroughOnMessage, Carries

-----------------------------------------------------------------------------
(* The decision mode.                                                      *)

DecisionFields == {"proposals", "evaluations", "objections", "votes", "phase"}

Ballot(p, v, vote) == [proposal |-> p, voter |-> v, vote |-> vote]

LEMMA BallotsAre ==
  \A votes, b : b \in Ballots(votes) <=>
      \E p \in DOMAIN votes : \E v \in DOMAIN votes[p] : b = Ballot(p, v, votes[p][v])
  BY DEF Ballots, Ballot

\* A first vote of a voter on a proposal adds that ballot and no other.
LEMMA VoteAdds ==
  ASSUME NEW st, NEW pid, NEW voter, NEW vote, voter \notin DOMAIN VotesFor(st, pid),
         NEW after, after = Put(st.votes, pid, Put(VotesFor(st, pid), voter, vote))
  PROVE  Ballots(after) = Ballots(st.votes) \cup {Ballot(pid, voter, vote)}
  <1> DEFINE mine == Put(VotesFor(st, pid), voter, vote)
  <1>1. DOMAIN after = DOMAIN st.votes \cup {pid}
    BY DEF Put
  <1>2. after[pid] = mine /\ \A p \in DOMAIN st.votes : p # pid => after[p] = st.votes[p]
    BY DEF Put
  <1>3. /\ DOMAIN mine = DOMAIN VotesFor(st, pid) \cup {voter}
        /\ mine[voter] = vote
        /\ \A v \in DOMAIN VotesFor(st, pid) : mine[v] = VotesFor(st, pid)[v]
    BY DEF Put
  <1> HIDE DEF mine
  <1>4. IF pid \in DOMAIN st.votes THEN VotesFor(st, pid) = st.votes[pid]
        ELSE DOMAIN VotesFor(st, pid) = {}
    <2>1. DOMAIN <<>> = {}
      OBVIOUS
    <2> QED BY <2>1 DEF VotesFor
  <1>5. ASSUME NEW b \in Ballots(after)
        PROVE  b \in Ballots(st.votes) \cup {Ballot(pid, voter, vote)}
    <2>1. PICK p \in DOMAIN after : \E v \in DOMAIN after[p] : b = Ballot(p, v, after[p][v])
      BY BallotsAre
    <2>2. PICK v \in DOMAIN after[p] : b = Ballot(p, v, after[p][v])
      BY <2>1
    <2>3. CASE p # pid
      BY <1>1, <1>2, <2>2, <2>3, BallotsAre
    <2>4. CASE p = pid /\ v = voter
      BY <1>2, <1>3, <2>2, <2>4
    <2>5. CASE p = pid /\ v # voter
      <3>1. v \in DOMAIN VotesFor(st, pid)
        BY <1>2, <1>3, <2>2, <2>5
      <3>2. pid \in DOMAIN st.votes /\ v \in DOMAIN st.votes[pid] /\ b = Ballot(pid, v, st.votes[pid][v])
        BY <1>2, <1>3, <1>4, <2>2, <2>5, <3>1
      <3> QED BY <3>2, BallotsAre
    <2> QED BY <2>3, <2>4, <2>5
  <1>6. ASSUME NEW b \in Ballots(st.votes)
        PROVE  b \in Ballots(after)
    <2>1. PICK p \in DOMAIN st.votes : \E v \in DOMAIN st.votes[p] : b = Ballot(p, v, st.votes[p][v])
      BY BallotsAre
    <2>2. PICK v \in DOMAIN st.votes[p] : b = Ballot(p, v, st.votes[p][v])
      BY <2>1
    <2>3. p \in DOMAIN after /\ v \in DOMAIN after[p] /\ after[p][v] = st.votes[p][v]
      BY <1>1, <1>2, <1>3, <1>4, <2>2
    <2> QED BY <2>2, <2>3, BallotsAre
  <1>7. Ballot(pid, voter, vote) \in Ballots(after)
    <2>1. pid \in DOMAIN after /\ voter \in DOMAIN after[pid] /\ after[pid][voter] = vote
      BY <1>1, <1>2, <1>3
    <2> QED BY <2>1, BallotsAre
  <1> QED BY <1>5, <1>6, <1>7

\* What a decision keeps of its state, whatever the session around it.
Deliberated(st) ==
    /\ DOMAIN st = DecisionFields
    /\ IsFiniteSet(Ballots(st.votes))
    /\ st.proposals = {} => st.objections = <<>>

\* The evaluator does not look at the phase.
LEMMA DenyReads ==
  ASSUME NEW st, NEW nx, nx.evaluations = st.evaluations, nx.objections = st.objections,
         nx.votes = st.votes, NEW p, NEW positive
  PROVE  DecisionDeny(p, nx, Participants, positive) = DecisionDeny(p, st, Participants, positive)
  <1>1. \A r : CriticalVeto(r, nx) = CriticalVeto(r, st)
    BY DEF CriticalVeto, CriticalObjections
  <1>2. \A r : /\ EvaluationDeny(r, nx) = EvaluationDeny(r, st)
               /\ QuorumDeny(r, nx, Participants) = QuorumDeny(r, st, Participants)
    BY DEF EvaluationDeny, QuorumDeny
  <1>3. \A r, v : VotingDeny(r, v, nx, Participants, positive) = VotingDeny(r, v, st, Participants, positive)
    BY DEF VotingDeny
  <1>4. \A r : /\ VetoDeny(r, nx, positive) = VetoDeny(r, st, positive)
               /\ ObjectionAuthorizedDecline(r, nx, positive) = ObjectionAuthorizedDecline(r, st, positive)
    BY <1>1 DEF VetoDeny, ObjectionAuthorizedDecline
  <1> QED BY <1>2, <1>3, <1>4, Zenon DEF DecisionDeny

DecisionMoved(s, env, nx) ==
    /\ Deliberated(nx)
    /\ Ballots(s.mode_state.votes) \subseteq Ballots(nx.votes)
    /\ \/ /\ DecisionOnMessage(s, env) = PersistState(nx)
          /\ env.type # "Commitment" /\ nx.phase # "Committed"
       \/ /\ DecisionOnMessage(s, env) = PersistAndResolve(nx)
          /\ s.policy # NoPolicy => DecisionReasons(s, nx, env) = {}

LEMMA DecisionAnswers ==
  ASSUME NEW s, DecisionKept(s), NEW env, DecisionOnMessage(s, env) # Rejected
  PROVE  \E nx : DecisionMoved(s, env, nx)
  <1> DEFINE st == s.mode_state
             resp == DecisionOnMessage(s, env)
  <1>1. Deliberated(st) /\ DOMAIN st = DecisionFields
    BY DEF DecisionKept, Deliberated, DecisionFields
  <1>2. st.phase # "Committed"
    BY DEF DecisionOnMessage
  <1>3. CASE env.type = "Proposal"
    <2> DEFINE nx == [st EXCEPT !.proposals = @ \cup {env.pid}, !.phase = "Evaluation"]
    <2>1. resp = HandleProposal(st, env)
      BY <1>3 DEF DecisionOnMessage
    <2>2. resp = PersistState(nx)
      BY <2>1 DEF HandleProposal
    <2>3. /\ DOMAIN nx = DecisionFields /\ nx.votes = st.votes /\ nx.phase = "Evaluation"
          /\ nx.proposals # {}
      BY <1>1 DEF DecisionFields
    <2> HIDE DEF nx
    <2> QED BY <1>1, <1>3, <2>2, <2>3 DEF DecisionMoved, Deliberated
  <1>4. CASE env.type = "Evaluation"
    <2>1. resp = HandleEvaluation(s, st, env)
      BY <1>4 DEF DecisionOnMessage
    <2> DEFINE record == [recommendation |-> WireEnum(s, env, env.value, ""), confidence |-> env.confidence]
               nx == [st EXCEPT !.evaluations = @ \cup {record}]
    <2>2. resp = PersistState(nx)
      BY <2>1, Zenon DEF HandleEvaluation
    <2>3. /\ DOMAIN nx = DecisionFields /\ nx.votes = st.votes /\ nx.phase = st.phase
          /\ nx.proposals = st.proposals /\ nx.objections = st.objections
      BY <1>1 DEF DecisionFields
    <2> HIDE DEF nx
    <2> QED BY <1>1, <1>2, <1>4, <2>2, <2>3 DEF DecisionMoved, Deliberated
  <1>5. CASE env.type = "Objection"
    <2>1. resp = HandleObjection(s, st, env)
      BY <1>5 DEF DecisionOnMessage
    <2> DEFINE record == [severity |-> WireEnum(s, env, env.value, "medium"), sender |-> env.sender]
               nx == [st EXCEPT !.objections = Append(@, record)]
    <2>2. resp = PersistState(nx) /\ env.pid \in st.proposals
      BY <2>1, Zenon DEF HandleObjection
    <2>3. /\ DOMAIN nx = DecisionFields /\ nx.votes = st.votes /\ nx.phase = st.phase
          /\ nx.proposals = st.proposals
      <3> HIDE DEF record
      <3> QED BY <1>1 DEF DecisionFields
    <2> HIDE DEF nx
    <2> QED BY <1>1, <1>2, <1>5, <2>2, <2>3 DEF DecisionMoved, Deliberated
  <1>6. CASE env.type = "Vote"
    <2>1. resp = HandleVote(s, st, env)
      BY <1>6 DEF DecisionOnMessage
    <2> DEFINE vote == WireEnum(s, env, env.value, "")
               after == Put(st.votes, env.pid, Put(VotesFor(st, env.pid), env.sender, vote))
               nx == [st EXCEPT !.phase = "Voting", !.votes = after]
    <2>2. /\ resp = PersistState(nx) /\ env.pid \in st.proposals
          /\ env.sender \notin DOMAIN VotesFor(st, env.pid)
      BY <2>1, Zenon DEF HandleVote
    <2>3. Ballots(after) = Ballots(st.votes) \cup {Ballot(env.pid, env.sender, vote)}
      <3>1. after = Put(st.votes, env.pid, Put(VotesFor(st, env.pid), env.sender, vote))
        OBVIOUS
      <3> HIDE DEF after, vote
      <3> QED BY <2>2, <3>1, VoteAdds
    <2> HIDE DEF after
    <2>4. /\ DOMAIN nx = DecisionFields /\ nx.votes = after /\ nx.phase = "Voting"
          /\ nx.proposals = st.proposals
      BY <1>1 DEF DecisionFields
    <2>5. IsFiniteSet(Ballots(after))
      BY <1>1, <2>3, FS_AddElement DEF Deliberated
    <2> HIDE DEF nx
    <2> QED BY <1>1, <1>6, <2>2, <2>3, <2>4, <2>5 DEF DecisionMoved, Deliberated
  <1>7. CASE env.type = "Commitment"
    <2> DEFINE nx == [st EXCEPT !.phase = "Committed"]
    <2>1. resp = DecisionCommitment(s, st, env)
      BY <1>7 DEF DecisionOnMessage
    <2>2. resp = PersistAndResolve(nx) /\ PolicyAllows(s, DecisionReasons(s, st, env))
      BY <2>1 DEF DecisionCommitment
    <2>3. /\ DOMAIN nx = DecisionFields /\ nx.votes = st.votes /\ nx.evaluations = st.evaluations
          /\ nx.proposals = st.proposals /\ nx.objections = st.objections
      BY <1>1 DEF DecisionFields
    <2> HIDE DEF nx
    <2>4. DecisionReasons(s, nx, env) = DecisionReasons(s, st, env)
      BY <2>3, DenyReads DEF DecisionReasons
    <2> QED BY <1>1, <2>2, <2>3, <2>4 DEF DecisionMoved, Deliberated, PolicyAllows
  <1>8. CASE env.type \notin {"Proposal", "Evaluation", "Objection", "Vote", "Commitment"}
    BY <1>8 DEF DecisionOnMessage
  <1> QED BY <1>3, <1>4, <1>5, <1>6, <1>7, <1>8

-----------------------------------------------------------------------------
(* What a commitment that was let through rests on.                        *)

AnyOf(t) == CHOOSE b \in t : TRUE

AddWeight(h, weights, b, acc) == Weight(weights, b.voter) + acc

\* A sum of weights is a number, and above zero only by a weight above zero.
WeighedBy(h, weights, base, ballots, sum) ==
    /\ sum \in Int
    /\ sum > 0 => \E b \in ballots : Weight(weights, b.voter) > 0

WeightFold == INSTANCE FoldProofs WITH Pick <- AnyOf, Step <- AddWeight, Holds <- WeighedBy

LEMMA WeightSum ==
  ASSUME NEW weights, \A v \in DOMAIN weights : weights[v] \in Int,
         NEW ballots, IsFiniteSet(ballots)
  PROVE  WeighedBy(0, weights, 0, ballots, WeightOf(weights, ballots))
  <1>1. WeightFold!Picks(ballots)
    BY DEF WeightFold!Picks, AnyOf
  <1>2. WeightFold!IsFiniteSet(ballots)
    BY DEF IsFiniteSet, WeightFold!IsFiniteSet
  <1>3. \A b : Weight(weights, b.voter) \in Int
    BY DEF Weight
  <1>4. ASSUME NEW t \in SUBSET ballots, NEW acc, t # {},
               WeighedBy(0, weights, 0, t \ {AnyOf(t)}, acc)
        PROVE  WeighedBy(0, weights, 0, t, AddWeight(0, weights, AnyOf(t), acc))
    <2>1. AnyOf(t) \in t
      BY <1>4 DEF AnyOf
    <2>2. Weight(weights, AnyOf(t).voter) \in Int
      BY <1>3
    <2> QED BY <1>4, <2>1, <2>2 DEF WeighedBy, AddWeight
  <1>5. WeighedBy(0, weights, 0, {}, 0)
    BY DEF WeighedBy
  <1>6. WeighedBy(0, weights, 0, ballots, WeightFold!FoldFcn(0, weights, 0, ballots)[ballots])
    BY <1>1, <1>2, <1>4, <1>5, WeightFold!FoldInduction
  <1>7. WeightOf(weights, ballots) = WeightFold!FoldFcn(0, weights, 0, ballots)[ballots]
    BY DEF WeightOf, MapThenSumSet, MapThenFoldSet, WeightFold!FoldFcn, WeightFold!Recursion,
           WeightFold!Unfold, AnyOf, AddWeight
  <1> QED BY <1>6, <1>7

\* The values a decision's vote is computed from.
VoteTyped(r) ==
    /\ r["voting.threshold"] \in Int \X (Nat \ {0}) /\ r["voting.threshold"][1] > 0
    /\ \A v \in DOMAIN r["voting.weights"] : r["voting.weights"][v] \in Int

LEMMA DecisionRulesType ==
  ASSUME NEW p, Bindable(p), p # NoPolicy, ParsesAs("decision", p)
  PROVE  VoteTyped(ParsedRules("decision", p))
         /\ ParsedRules("decision", p)["objection_handling.veto_threshold"] \in Int
  <1> DEFINE r == ParsedRules("decision", p)
             d == ModeDefaults["decision"]
             read == {"voting.threshold", "voting.weights", "objection_handling.veto_threshold"}
  <1>1. read \subseteq DOMAIN d
    BY DEF ModeDefaults, StandardModes, DecisionDefaults, WithCommitment
  <1>2. /\ d["voting.threshold"] = <<1, 2>> /\ d["voting.weights"] = <<>>
        /\ d["objection_handling.veto_threshold"] = 1
    BY DEF ModeDefaults, StandardModes, DecisionDefaults, WithCommitment, CommitmentPaths
  <1>3. \A path \in read : path \notin p.mistyped
    BY <1>1 DEF ParsesAs
  <1>4. \A path \in read : r[path] = IF path \in DOMAIN p.rules THEN p.rules[path] ELSE d[path]
    BY <1>1 DEF ParsedRules
  <1> HIDE DEF r, d
  <1>5. WellTyped(p) /\ r["voting.threshold"][1] > 0
    BY DEF Bindable, r
  <1>6. r["voting.threshold"] \in Int \X (Nat \ {0})
    <2>1. <<1, 2>> \in Int \X (Nat \ {0})
      OBVIOUS
    <2> QED BY <1>2, <1>3, <1>4, <1>5, <2>1 DEF WellTyped
  <1>7. \A v \in DOMAIN r["voting.weights"] : r["voting.weights"][v] \in Int
    <2>1. DOMAIN <<>> = {}
      OBVIOUS
    <2>2. CASE "voting.weights" \in DOMAIN p.rules
      BY <1>3, <1>4, <1>5, <2>2 DEF WellTyped
    <2>3. CASE "voting.weights" \notin DOMAIN p.rules
      BY <1>2, <1>4, <2>1, <2>3
    <2> QED BY <2>2, <2>3
  <1>8. r["objection_handling.veto_threshold"] \in Int
    BY <1>2, <1>3, <1>4, <1>5 DEF WellTyped
  <1> QED BY <1>5, <1>6, <1>7, <1>8 DEF VoteTyped, r

\* No share above zero is reached by nothing.
LEMMA NothingReaches ==
  ASSUME NEW share, share \in Int \X (Nat \ {0}), share[1] > 0,
         NEW part \in Int, part <= 0, NEW total \in Int, total > 0
  PROVE  ~Reaches(part, total, share)
  <1> DEFINE t1 == share[1]
             t2 == share[2]
  <1>1. t1 \in Int /\ t2 \in Int /\ t1 > 0 /\ t2 > 0
    OBVIOUS
  <1>2. t1 * total > 0 /\ part * t2 <= 0 /\ t1 * total \in Int /\ part * t2 \in Int
    <2> HIDE DEF t1, t2
    <2> QED BY <1>1
  <1>3. ~(part * t2 >= t1 * total)
    <2> HIDE DEF t1, t2
    <2> QED BY <1>2
  <1> QED BY <1>3 DEF Reaches

Counting(r, votes) ==
    \E b \in Cast(votes, "APPROVE") :
        r["voting.algorithm"] # "weighted" \/ Weight(r["voting.weights"], b.voter) > 0

\* A vote that passed has an approval that counts, by every algorithm.
LEMMA PassedCounts ==
  ASSUME NEW r, VoteTyped(r), NEW votes, IsFiniteSet(Ballots(votes)),
         VotingResult(r, votes, Participants) = "Passed"
  PROVE  Counting(r, votes)
  <1> DEFINE yes == Cast(votes, "APPROVE")
             no == Cast(votes, "REJECT")
             weights == r["voting.weights"]
             for == WeightOf(weights, yes)
             against == WeightOf(weights, no)
             share == r["voting.threshold"]
             super == IF 2 * share[1] > share[2] THEN share ELSE <<2, 3>>
  <1>1. IsFiniteSet(yes) /\ IsFiniteSet(no)
    BY FS_Subset DEF Cast
  <1>2. /\ Cardinality(yes) \in Nat /\ Cardinality(no) \in Nat
        /\ (Cardinality(yes) = 0 <=> yes = {}) /\ (Cardinality(no) = 0 <=> no = {})
    BY <1>1, FS_CardinalityType, FS_EmptySet
  <1>3. /\ for \in Int /\ against \in Int
        /\ for > 0 => \E b \in yes : Weight(weights, b.voter) > 0
    BY <1>1, WeightSum DEF VoteTyped, WeighedBy
  <1>4. /\ share \in Int \X (Nat \ {0}) /\ share[1] > 0
        /\ super \in Int \X (Nat \ {0}) /\ super[1] > 0
    <2>1. <<2, 3>> \in Int \X (Nat \ {0}) /\ <<2, 3>>[1] > 0
      OBVIOUS
    <2> QED BY <2>1 DEF VoteTyped
  <1> HIDE DEF yes, no, weights, for, against, share, super
  <1>5. Cardinality(yes) + Cardinality(no) # 0
    BY DEF VotingResult, yes, no
  <1> DEFINE cast == Cardinality(yes) + Cardinality(no)
  <1>6. CASE r["voting.algorithm"] = "majority"
    <2>1. Reaches(Cardinality(yes), cast, share)
      BY <1>5, <1>6 DEF VotingResult, yes, no, share
    <2>2. Cardinality(yes) # 0
      <3>1. cast \in Int /\ cast > 0 /\ 0 <= 0 /\ 0 \in Int
        BY <1>2, <1>5
      <3> HIDE DEF cast
      <3> QED BY <1>4, <2>1, <3>1, NothingReaches
    <2> QED BY <1>2, <1>6, <2>2 DEF Counting, yes
  <1>7. CASE r["voting.algorithm"] = "supermajority"
    <2>1. Reaches(Cardinality(yes), cast, super)
      BY <1>5, <1>7 DEF VotingResult, yes, no, super, share
    <2>2. Cardinality(yes) # 0
      <3>1. cast \in Int /\ cast > 0 /\ 0 <= 0 /\ 0 \in Int
        BY <1>2, <1>5
      <3> HIDE DEF cast
      <3> QED BY <1>4, <2>1, <3>1, NothingReaches
    <2> QED BY <1>2, <1>7, <2>2 DEF Counting, yes
  <1>8. CASE r["voting.algorithm"] = "unanimous"
    <2>1. no = {}
      BY <1>5, <1>8 DEF VotingResult, UnanimousApproval, yes, no
    <2> QED BY <1>2, <1>5, <1>8, <2>1 DEF Counting, yes
  <1>9. CASE r["voting.algorithm"] = "weighted"
    <2>1. ~(for + against < 0) /\ for + against # 0 /\ Reaches(for, for + against, share)
      BY <1>5, <1>9 DEF VotingResult, yes, no, weights, for, against, share
    <2>2. for + against \in Int /\ for + against > 0
      BY <1>3, <2>1
    <2>3. for > 0
      BY <1>3, <1>4, <2>1, <2>2, NothingReaches
    <2> QED BY <1>3, <2>3 DEF Counting, yes, weights
  <1>10. CASE r["voting.algorithm"] = "plurality"
    <2>1. Cardinality(yes) > Cardinality(no)
      BY <1>5, <1>10 DEF VotingResult, yes, no
    <2>2. Cardinality(yes) # 0
      BY <1>2, <2>1
    <2> QED BY <1>2, <1>10, <2>2 DEF Counting, yes
  <1>11. CASE r["voting.algorithm"] \notin {"majority", "supermajority", "unanimous", "weighted",
                                            "plurality"}
    BY <1>5, <1>11 DEF VotingResult, yes, no
  <1> QED BY <1>6, <1>7, <1>8, <1>9, <1>10, <1>11

LEMMA VotingResults ==
  \A r, votes, participants : VotingResult(r, votes, participants) \in {"Passed", "Failed", "NoVotes"}
  <1> SUFFICES ASSUME NEW r, NEW votes, NEW participants
               PROVE  VotingResult(r, votes, participants) \in {"Passed", "Failed", "NoVotes"}
    OBVIOUS
  <1>1. CASE r["voting.algorithm"] = "weighted"
    BY <1>1 DEF VotingResult
  <1>2. CASE r["voting.algorithm"] = "unanimous"
    BY <1>2 DEF VotingResult
  <1>3. CASE r["voting.algorithm"] \notin {"weighted", "unanimous"}
    BY <1>3 DEF VotingResult
  <1> QED BY <1>1, <1>2, <1>3

\* What an empty list of denials says of a decision.
LEMMA DecisionAllowed ==
  ASSUME NEW p, p # NoPolicy, Bindable(p), NEW st, IsFiniteSet(Ballots(st.votes)),
         NEW positive \in BOOLEAN, DecisionDeny(p, st, Participants, positive) = {},
         NEW r, r = ParsedRules("decision", p), r["voting.algorithm"] # "none"
  PROVE  /\ positive => /\ ~CriticalVeto(r, st)
                        /\ p.schema_version = 3 => Counting(r, st.votes)
         /\ ~positive => DecisiveRejects(r, st.votes) # {} \/ CriticalVeto(r, st)
  <1> DEFINE waived == ObjectionAuthorizedDecline(r, st, positive)
             voting == VotingDeny(r, p.schema_version, st, Participants, positive)
  <1>1. ParsesAs("decision", p)
    BY DEF DecisionDeny
  <1>2. VoteTyped(r)
    BY <1>1, DecisionRulesType
  <1>3. VetoDeny(r, st, positive) = {} /\ (waived \/ voting = {})
    <2>1. ~(p.schema_version \notin SUPPORTED_SCHEMA_VERSIONS) /\ ~DecisionValueDomainError(r)
      BY DEF DecisionDeny
    <2> DEFINE rest == IF waived THEN {} ELSE EvaluationDeny(r, st) \cup QuorumDeny(r, st, Participants)
               last == IF waived \/ r["voting.algorithm"] = "none" THEN {} ELSE voting
    <2>2. VetoDeny(r, st, positive) \cup rest \cup last = {}
      BY <1>1, <2>1, Zenon DEF DecisionDeny
    <2>3. VetoDeny(r, st, positive) = {} /\ last = {}
      <3> HIDE DEF rest, last
      <3> QED BY <2>2
    <2> QED BY <2>3
  <1>4. ASSUME positive
        PROVE  ~CriticalVeto(r, st) /\ (p.schema_version = 3 => Counting(r, st.votes))
    <2>1. ~CriticalVeto(r, st)
      BY <1>3, <1>4 DEF VetoDeny
    <2>2. ASSUME p.schema_version = 3
          PROVE  VotingResult(r, st.votes, Participants) = "Passed"
      <3>1. voting = {}
        BY <1>3, <2>1 DEF ObjectionAuthorizedDecline
      <3> QED BY <1>4, <2>2, <3>1, VotingResults DEF VotingDeny
    <2> QED BY <1>2, <2>1, <2>2, PassedCounts
  <1>5. ASSUME ~positive, ~CriticalVeto(r, st)
        PROVE  DecisiveRejects(r, st.votes) # {}
    <2>1. voting = {}
      BY <1>3, <1>5 DEF ObjectionAuthorizedDecline
    <2> QED BY <1>5, <2>1, VotingResults DEF VotingDeny
  <1> QED BY <1>4, <1>5

\* What an empty list of denials says of a positive quorum commitment.
LEMMA QuorumAllowed ==
  ASSUME NEW p, p # NoPolicy, Bindable(p), NEW n \in Nat,
         QuorumModeDeny(p, n, Cardinality(Participants), TRUE) = {},
         NEW r, r = ParsedRules("quorum", p)
  PROVE  IF r["threshold.type"] = "percentage"
         THEN n * 100 >= r["threshold.value"] * Cardinality(Participants)
         ELSE n >= r["threshold.value"]
  <1> DEFINE value == r["threshold.value"]
             total == Cardinality(Participants)
             bar == EffectiveThreshold(r["threshold.type"], value, total)
  <1>1. ParsesAs("quorum", p)
    BY DEF QuorumModeDeny, Unevaluable
  <1>2. value \in Int /\ total \in Nat
    BY <1>1, QuorumThresholdType, RosterAssumption, FS_CardinalityType
  <1>3. bar.kind # "Unsatisfiable" /\ ~(bar.kind = "Approvals" /\ n < bar.required)
    BY DEF QuorumModeDeny
  <1> HIDE DEF value, total
  <1> DEFINE product == value * total
  <1>4. product \in Int /\ (value <= 0 => product <= 0)
    BY <1>2
  <1>5. CASE value <= 0
    <2>1. n * 100 >= product /\ n >= value
      <3> HIDE DEF product
      <3> QED BY <1>2, <1>4, <1>5
    <2> QED BY <2>1 DEF value, total
  <1>6. CASE value > 0 /\ r["threshold.type"] = "percentage"
    <2>1. bar = Approvals(AtLeastOne(CeilDiv(product, 100)))
      BY <1>2, <1>3, <1>6 DEF EffectiveThreshold, Unsatisfiable
    <2>2. AtLeastOne(CeilDiv(product, 100)) \in Int
      <3> HIDE DEF product
      <3> QED BY <1>4 DEF AtLeastOne, CeilDiv
    <2>3. n >= AtLeastOne(CeilDiv(product, 100))
      <3> HIDE DEF product
      <3> QED BY <1>3, <2>1, <2>2 DEF Approvals
    <2>4. n * 100 >= product
      <3> HIDE DEF product
      <3> QED BY <1>4, <2>3 DEF AtLeastOne, CeilDiv
    <2> QED BY <1>6, <2>4 DEF value, total
  <1>7. CASE value > 0 /\ r["threshold.type"] # "percentage"
    <2>1. bar = Approvals(AtLeastOne(value))
      BY <1>2, <1>3, <1>7 DEF EffectiveThreshold, Unsatisfiable
    <2>2. n >= value
      BY <1>2, <1>3, <1>7, <2>1 DEF Approvals, AtLeastOne
    <2> QED BY <1>7, <2>2 DEF value
  <1> QED BY <1>2, <1>5, <1>6, <1>7

LEMMA InvBacked == ModesInv => OutcomeBacked
  <1> SUFFICES ASSUME ModesInv, session # NoSession, commit # NoCommit
               PROVE  OutcomeBacked
    BY DEF OutcomeBacked, PositiveBacked, DeclineBacked, QuorumBacked, VotedDecision, Committed, InMode
  <1>1. /\ SessionInv(session, commit) /\ Sealed(session, commit) /\ Bindable(session.policy)
        /\ commit.outcome_positive \in BOOLEAN
    BY DEF ModesInv, SessionInv, Sealed
  <1>2. ASSUME VotedDecision
        PROVE  /\ commit.outcome_positive =>
                      /\ ~CriticalVeto(DecisionRules, session.mode_state)
                      /\ session.policy.schema_version = 3 =>
                             Counting(DecisionRules, session.mode_state.votes)
               /\ ~commit.outcome_positive =>
                      \/ DecisiveRejects(DecisionRules, session.mode_state.votes) # {}
                      \/ CriticalVeto(DecisionRules, session.mode_state)
    <2>1. session.mode = "decision" /\ session.policy # NoPolicy /\ DecisionRules["voting.algorithm"] # "none"
      BY <1>2 DEF VotedDecision, Committed, InMode
    <2>2. IsFiniteSet(Ballots(session.mode_state.votes))
      BY <1>1, <2>1 DEF SessionInv, ModeKept, DecisionKept
    <2>3. DecisionDeny(session.policy, session.mode_state, Participants, commit.outcome_positive) = {}
      BY <1>1, <2>1 DEF Sealed, DecisionReasons
    <2>4. DecisionRules = ParsedRules("decision", session.policy)
      BY DEF DecisionRules
    <2> QED BY <1>1, <2>1, <2>2, <2>3, <2>4, DecisionAllowed
  <1>3. PositiveBacked /\ DeclineBacked
    BY <1>2 DEF PositiveBacked, DeclineBacked, Counting
  <1>4. QuorumBacked
    <2> SUFFICES ASSUME Committed("quorum"), session.policy # NoPolicy, commit.outcome_positive
                 PROVE  LET r == ParsedRules("quorum", session.policy)
                            n == Count(session.mode_state, "Approve")
                        IN  IF r["threshold.type"] = "percentage"
                            THEN n * 100 >= r["threshold.value"] * Cardinality(Participants)
                            ELSE n >= r["threshold.value"]
      BY DEF QuorumBacked
    <2>1. session.mode = "quorum"
      BY DEF Committed, InMode
    <2>2. Count(session.mode_state, "Approve") \in Nat
      <3>1. DOMAIN session.mode_state.ballots \subseteq Participants
        BY <1>1, <2>1 DEF SessionInv, ModeKept, QuorumKept
      <3>2. IsFiniteSet({p \in DOMAIN session.mode_state.ballots : session.mode_state.ballots[p] = "Approve"})
        BY <3>1, RosterAssumption, FS_Subset
      <3> QED BY <3>2, FS_CardinalityType DEF Count
    <2>3. commit.outcome_positive = TRUE
      BY <1>1
    <2>4. QuorumModeDeny(session.policy, Count(session.mode_state, "Approve"),
                         Cardinality(Participants), TRUE) = {}
      BY <1>1, <2>1, <2>3 DEF Sealed, QuorumReasons
    <2> QED BY <1>1, <2>2, <2>4, QuorumAllowed
  <1> QED BY <1>3, <1>4 DEF OutcomeBacked

LEMMA InvExit == ModesInv => VetoHasExit
  <1> DEFINE st == session.mode_state
             r == DecisionRules
  <1> SUFFICES ASSUME ModesInv, InMode("decision"), session.state = "Open", DecisionDecodes(st),
                      session.policy # NoPolicy, Unevaluable("decision", session.policy) = {},
                      ~DecisionValueDomainError(r),
                      r["objection_handling.critical_objection_action"] = "finalize_decline",
                      CriticalVeto(r, st)
               PROVE  DecisionOnMessage(session, Decline) # Rejected
    BY DEF VetoHasExit
  <1>1. DecisionKept(session) /\ Bindable(session.policy)
    BY DEF ModesInv, InMode, SessionInv, ModeKept
  <1>2. st.phase # "Committed"
    BY <1>1 DEF DecisionKept
  <1>3. /\ session.policy.schema_version \in SUPPORTED_SCHEMA_VERSIONS
        /\ ParsesAs("decision", session.policy)
    BY DEF Unevaluable
  <1>4. st.proposals # {}
    <2> SUFFICES ASSUME st.proposals = {}
                 PROVE  FALSE
      OBVIOUS
    <2>1. st.objections = <<>>
      BY <1>1 DEF DecisionKept
    <2>2. DOMAIN <<>> = {}
      OBVIOUS
    <2>3. CriticalObjections(st) = {}
      BY <2>1, <2>2 DEF CriticalObjections
    <2>4. r["objection_handling.veto_threshold"] \in Int
      BY <1>1, <1>3, DecisionRulesType DEF DecisionRules
    <2>5. 0 >= r["objection_handling.veto_threshold"]
      BY <2>3, FS_EmptySet DEF CriticalVeto
    <2> QED BY <2>4, <2>5 DEF DecisionValueDomainError
  <1>5. Decline.type = "Commitment" /\ ValidateCommitmentPayload(Decline) /\ ~Decline.outcome_positive
    BY DEF Decline, ValidateCommitmentPayload
  <1>6. DecisionReady(st, Decline)
    BY <1>4, <1>5 DEF DecisionReady
  <1>7. Decline.outcome_positive = FALSE
    BY DEF Decline
  <1>8. DecisionDeny(session.policy, st, Participants, FALSE) = {}
    <2>1. ObjectionAuthorizedDecline(r, st, FALSE)
      BY DEF ObjectionAuthorizedDecline
    <2>2. VetoDeny(r, st, FALSE) = {}
      BY DEF VetoDeny
    <2> QED BY <1>3, <2>1, <2>2 DEF DecisionDeny, DecisionRules
  <1>9. PolicyAllows(session, DecisionReasons(session, st, Decline))
    BY <1>7, <1>8 DEF PolicyAllows, DecisionReasons
  <1>10. DecisionOnMessage(session, Decline) = DecisionCommitment(session, st, Decline)
    BY <1>2, <1>5 DEF DecisionOnMessage
  <1> QED BY <1>6, <1>9, <1>10, KindsDiffer DEF DecisionCommitment

LEMMA InvConverged == ModesInv => ConvergenceCurrent
  <1> SUFFICES ASSUME ModesInv
               PROVE  AgreementLive /\ ConvergedTogether
    BY DEF ConvergenceCurrent
  <1>1. AgreementLive
    BY DEF AgreementLive, InMode, ModesInv, SessionInv, ModeKept, ProposalKept, Converges
  <1>2. ASSUME InMode("multi_round")
        PROVE  LET c == session.mode_state.contributions
               IN  session.mode_state.converged <=>
                       \E v \in {c[p] : p \in DOMAIN c} :
                           \A p \in Participants : p \in DOMAIN c /\ c[p] = v
    <2> DEFINE c == session.mode_state.contributions
    <2>1. MultiRoundKept(session)
      BY <1>2 DEF InMode, ModesInv, SessionInv, ModeKept
    <2>2. /\ Participants # {} /\ DOMAIN c \subseteq Participants
          /\ session.mode_state.converged = CheckConvergence(c)
      BY <2>1 DEF MultiRoundKept
    <2> HIDE DEF c
    <2>3. ASSUME CheckConvergence(c)
          PROVE  \E v \in {c[p] : p \in DOMAIN c} : \A p \in Participants : p \in DOMAIN c /\ c[p] = v
      <3>1. PICK q \in Participants : TRUE
        BY <2>2
      <3>2. \A p \in Participants : p \in DOMAIN c /\ c[p] = c[q]
        BY <2>3 DEF CheckConvergence
      <3> QED BY <3>2
    <2>4. ASSUME \E v \in {c[p] : p \in DOMAIN c} : \A p \in Participants : p \in DOMAIN c /\ c[p] = v
          PROVE  CheckConvergence(c)
      BY <2>2, <2>4 DEF CheckConvergence
    <2> QED BY <2>2, <2>3, <2>4 DEF c
  <1> QED BY <1>1, <1>2 DEF ConvergedTogether

-----------------------------------------------------------------------------
(* One message of a session of any mode.                                   *)

Stands(s, t) ==
    /\ s.mode = "decision" => Ballots(s.mode_state.votes) \subseteq Ballots(t.mode_state.votes)
    /\ s.mode = "quorum" => VerdictStands(s, t)
    /\ s.mode = "task" => DeclineStands(s, t)

\* The messages an open session takes, with the answer of its mode.
Taken(s, env, t) ==
    /\ s.state = "Open"
    /\ env.type = "Commitment" => env.outcome_positive \in BOOLEAN
    /\ AuthorizeSender(s, env)
    /\ OnMessage(s, env) # Rejected
    /\ t = ApplyModeResponse(s, OnMessage(s, env))

LEMMA CommitmentResolves ==
  ASSUME NEW s, NEW env, env.type = "Commitment", OnMessage(s, env) # Rejected
  PROVE  \E nx : OnMessage(s, env) = PersistAndResolve(nx)
  <1>1. CASE s.mode = "decision"
    BY <1>1 DEF OnMessage, DecisionOnMessage, DecisionCommitment
  <1>2. CASE s.mode = "proposal"
    BY <1>2 DEF OnMessage, ProposalOnMessage, ProposalCommitment
  <1>3. CASE s.mode = "task"
    BY <1>3 DEF OnMessage, TaskOnMessage, TaskCommitment
  <1>4. CASE s.mode = "quorum"
    BY <1>4 DEF OnMessage, QuorumOnMessage, QuorumCommitment
  <1>5. CASE s.mode = "multi_round"
    BY <1>5 DEF OnMessage, MultiRoundOnMessage
  <1>6. CASE s.mode \notin {"decision", "proposal", "task", "quorum", "multi_round"}
    BY <1>6 DEF OnMessage, PassthroughOnMessage
  <1> QED BY <1>1, <1>2, <1>3, <1>4, <1>5, <1>6

LEMMA MessageStep ==
  ASSUME NEW s, NEW c, SessionInv(s, c), NEW env, NEW t, Taken(s, env, t),
         NEW d, d = IF env.type = "Commitment" THEN env ELSE c
  PROVE  SessionInv(t, d) /\ t.mode = s.mode /\ Stands(s, t)
  <1> DEFINE resp == OnMessage(s, env)
  <1>1. IsSession(s) /\ s.mode \in SessionModes /\ Bindable(s.policy) /\ ModeKept(s) /\ s.state = "Open"
    BY DEF SessionInv, Taken
  <1>2. c = NoCommit
    BY <1>1 DEF SessionInv, Sealed
  <1>3. AuthorizeSender(s, env) /\ resp # Rejected /\ t = ApplyModeResponse(s, resp)
    BY DEF Taken
  <1>4. env.type = "Commitment" => t.state = "Resolved"
    BY <1>1, <1>3, CommitmentResolves, ResolveApplies
  <1>5. ASSUME NEW nx, Carries(resp, nx)
        PROVE  /\ IsSession(t) /\ t.mode_state = nx /\ t.mode = s.mode /\ t.policy = s.policy
               /\ t.semantics_rev = s.semantics_rev
    BY <1>1, <1>3, <1>5, CarriedApplies
  <1>6. ASSUME ModeKept(t), IsSession(t), t.mode = s.mode, t.policy = s.policy,
               s.mode \notin {"decision", "quorum"}
        PROVE  SessionInv(t, d)
    BY <1>1, <1>2, <1>4, <1>6 DEF SessionInv, Sealed, Taken
  <1>7. CASE s.mode = "decision"
    <2>1. resp = DecisionOnMessage(s, env) /\ DecisionKept(s)
      BY <1>1, <1>7 DEF OnMessage, ModeKept
    <2>2. PICK nx : DecisionMoved(s, env, nx)
      BY <1>3, <2>1, DecisionAnswers
    <2>3. Carries(resp, nx)
      BY <2>1, <2>2 DEF DecisionMoved, Carries
    <2>4. /\ IsSession(t) /\ t.mode_state = nx /\ t.mode = s.mode /\ t.policy = s.policy
      BY <1>5, <2>3
    <2>5. Stands(s, t)
      BY <1>7, <2>2, <2>4 DEF Stands, DecisionMoved
    <2>6. CASE /\ DecisionOnMessage(s, env) = PersistState(nx)
               /\ env.type # "Commitment" /\ nx.phase # "Committed"
      <3>1. DecisionKept(t)
        BY <2>2, <2>4, <2>6 DEF DecisionKept, DecisionMoved, Deliberated, DecisionFields
      <3> QED BY <1>1, <1>2, <1>7, <2>4, <2>5, <2>6, <3>1 DEF SessionInv, ModeKept
    <2>7. CASE /\ DecisionOnMessage(s, env) = PersistAndResolve(nx)
               /\ s.policy # NoPolicy => DecisionReasons(s, nx, env) = {}
      <3>1. t.state = "Resolved"
        BY <1>1, <1>3, <2>1, <2>7, ResolveApplies
      <3>2. DecisionKept(t)
        BY <2>2, <2>4, <3>1 DEF DecisionKept, DecisionMoved, Deliberated, DecisionFields
      <3>3. env.type = "Commitment" => Sealed(t, env)
        BY <1>7, <2>4, <2>7, <3>1 DEF Sealed, DecisionReasons, Taken
      <3> QED BY <1>1, <1>2, <1>7, <2>4, <2>5, <3>2, <3>3 DEF SessionInv, ModeKept
    <2> QED BY <2>2, <2>6, <2>7 DEF DecisionMoved
  <1>8. CASE s.mode = "quorum"
    <2>1. resp = QuorumOnMessage(s, env) /\ QuorumKept(s) /\ QuorumAuthorizeSender(s, env)
      BY <1>1, <1>3, <1>8 DEF OnMessage, ModeKept, AuthorizeSender
    <2>2. PICK nx : /\ QuorumMoved(s, env, nx)
                    /\ \/ resp = PersistState(nx) /\ env.type # "Commitment"
                       \/ /\ resp = PersistAndResolve(nx) /\ nx = s.mode_state
                          /\ s.policy # NoPolicy => QuorumReasons(s, nx, env) = {}
      BY <1>3, <2>1, QuorumAnswers
    <2>3. Carries(resp, nx)
      BY <2>2 DEF Carries
    <2>4. /\ IsSession(t) /\ t.mode_state = nx /\ t.mode = s.mode /\ t.policy = s.policy
      BY <1>5, <2>3
    <2>5. QuorumKept(t) /\ VerdictStands(s, t)
      BY <1>1, <2>1, <2>2, <2>4, QuorumStep
    <2>6. env.type = "Commitment" => Sealed(t, env)
      BY <1>4, <1>8, <2>2, <2>4 DEF Sealed, QuorumReasons, Taken
    <2> QED BY <1>1, <1>2, <1>8, <2>4, <2>5, <2>6 DEF SessionInv, ModeKept, Stands
  <1>9. CASE s.mode = "task"
    <2>1. resp = TaskOnMessage(s, env) /\ TaskKept(s) /\ TaskAuthorizeSender(s, env)
      BY <1>1, <1>3, <1>9 DEF OnMessage, ModeKept, AuthorizeSender
    <2>2. PICK nx : Carries(resp, nx) /\ TaskMoved(s, env, nx)
      BY <1>3, <2>1, TaskAnswers
    <2>3. /\ IsSession(t) /\ t.mode_state = nx /\ t.mode = s.mode /\ t.policy = s.policy
          /\ t.semantics_rev = s.semantics_rev
      BY <1>5, <2>2
    <2>4. TaskKept(t) /\ DeclineStands(s, t)
      BY <2>1, <2>2, <2>3, TaskStep
    <2>5. ModeKept(t)
      BY <1>9, <2>3, <2>4 DEF ModeKept
    <2> QED BY <1>6, <1>9, <2>3, <2>4, <2>5 DEF Stands
  <1>10. CASE s.mode = "proposal"
    <2>1. resp = ProposalOnMessage(s, env) /\ ProposalKept(s)
      BY <1>1, <1>10 DEF OnMessage, ModeKept
    <2>2. PICK nx : Carries(resp, nx) /\ Negotiated(s, nx)
      BY <1>3, <2>1, ProposalAnswers
    <2>3. /\ IsSession(t) /\ t.mode_state = nx /\ t.mode = s.mode /\ t.policy = s.policy
      BY <1>5, <2>2
    <2>4. ProposalKept(t)
      BY <2>2, <2>3, ProposalStep
    <2>5. ModeKept(t)
      BY <1>10, <2>3, <2>4 DEF ModeKept
    <2> QED BY <1>6, <1>10, <2>3, <2>5 DEF Stands
  <1>11. CASE s.mode = "multi_round"
    <2>1. resp = MultiRoundOnMessage(s, env) /\ MultiRoundKept(s) /\ ExtensionAuthorizeSender(s, env)
      BY <1>1, <1>3, <1>11 DEF OnMessage, ModeKept, AuthorizeSender
    <2>2. PICK nx : Carries(resp, nx) /\ Converging(nx)
      BY <1>3, <2>1, MultiRoundAnswers
    <2>3. /\ IsSession(t) /\ t.mode_state = nx /\ t.mode = s.mode /\ t.policy = s.policy
      BY <1>5, <2>2
    <2>4. MultiRoundKept(t)
      BY <2>2, <2>3 DEF MultiRoundKept, Converging, MultiRoundFields
    <2>5. ModeKept(t)
      BY <1>11, <2>3, <2>4 DEF ModeKept
    <2> QED BY <1>6, <1>11, <2>3, <2>5 DEF Stands
  <1>12. CASE s.mode = "passthrough"
    <2>1. resp = PassthroughOnMessage(PassthroughTypes, s, env)
      BY <1>12 DEF OnMessage
    <2>2. PICK nx : Carries(resp, nx)
      BY <1>3, <2>1, PassthroughAnswers
    <2>3. /\ IsSession(t) /\ t.mode_state = nx /\ t.mode = s.mode /\ t.policy = s.policy
      BY <1>5, <2>2
    <2>4. ModeKept(t)
      BY <1>12, <2>3 DEF ModeKept
    <2> QED BY <1>6, <1>12, <2>3, <2>4 DEF Stands
  <1> QED BY <1>1, <1>7, <1>8, <1>9, <1>10, <1>11, <1>12 DEF SessionModes

\* A session in the state its mode starts with.
LEMMA StartStep ==
  ASSUME NEW mode \in SessionModes, NEW s, IsSession(s), s.mode = mode, Bindable(s.policy),
         s.state = "Open", ModeOnSessionStart(mode) # Rejected,
         NEW t, t = ApplyModeResponse(s, ModeOnSessionStart(mode))
  PROVE  SessionInv(t, NoCommit) /\ t.mode = mode
  <1>1. ASSUME NEW nx, ModeOnSessionStart(mode) = PersistState(nx)
        PROVE  /\ IsSession(t) /\ t.mode_state = nx /\ t.mode = mode /\ t.policy = s.policy
               /\ t.state = "Open"
    BY <1>1, PersistApplies
  <1>2. DOMAIN <<>> = {}
    OBVIOUS
  <1>3. CASE mode = "decision"
    <2>1. ModeOnSessionStart(mode) = PersistState(DecisionEmpty)
      BY <1>3 DEF ModeOnSessionStart, DecisionOnSessionStart
    <2>2. /\ DOMAIN DecisionEmpty = {"proposals", "evaluations", "objections", "votes", "phase"}
          /\ DecisionEmpty.votes = <<>> /\ DecisionEmpty.objections = <<>>
          /\ DecisionEmpty.phase = "Proposal"
      BY DEF DecisionEmpty
    <2>3. Ballots(<<>>) = {}
      BY <1>2 DEF Ballots
    <2>4. DecisionKept(t)
      BY <1>1, <2>1, <2>2, <2>3, FS_EmptySet DEF DecisionKept
    <2> QED BY <1>1, <1>3, <2>1, <2>4 DEF SessionInv, ModeKept
  <1>4. CASE mode = "proposal"
    <2>1. ModeOnSessionStart(mode) = PersistState(ProposalEmpty)
      BY <1>4 DEF ModeOnSessionStart, ProposalOnSessionStart
    <2>2. /\ DOMAIN ProposalEmpty = {"proposals", "accepts", "rejections", "terminal_rejections", "phase"}
          /\ ProposalEmpty.accepts = <<>> /\ ProposalEmpty.phase = "Negotiating"
      BY DEF ProposalEmpty
    <2>3. ProposalKept(t)
      BY <1>1, <1>2, <2>1, <2>2 DEF ProposalKept
    <2> QED BY <1>1, <1>4, <2>1, <2>3 DEF SessionInv, ModeKept
  <1>5. CASE mode = "task"
    <2>1. ModeOnSessionStart(mode) = PersistState(TaskEmpty)
      BY <1>5 DEF ModeOnSessionStart, TaskOnSessionStart
    <2>2. /\ DOMAIN TaskEmpty = {"task", "active_assignee", "rejections", "updates", "report", "decodes"}
          /\ TaskEmpty.rejections = {}
      BY DEF TaskEmpty
    <2>3. TaskKept(t)
      BY <1>1, <2>1, <2>2 DEF TaskKept, HasRejected
    <2> QED BY <1>1, <1>5, <2>1, <2>3 DEF SessionInv, ModeKept
  <1>6. CASE mode = "quorum"
    <2>1. ModeOnSessionStart(mode) = PersistState(QuorumEmpty)
      BY <1>6 DEF ModeOnSessionStart, QuorumOnSessionStart
    <2>2. /\ DOMAIN QuorumEmpty = {"request", "ballots"}
          /\ QuorumEmpty.ballots = <<>> /\ QuorumEmpty.request = NoRequest
      BY DEF QuorumEmpty
    <2>3. QuorumKept(t)
      BY <1>1, <1>2, <2>1, <2>2 DEF QuorumKept
    <2> QED BY <1>1, <1>6, <2>1, <2>3 DEF SessionInv, ModeKept
  <1>7. CASE mode = "multi_round"
    <2>1. ModeOnSessionStart(mode) = PersistState(MultiRoundEmpty) /\ Participants # {}
      BY <1>7 DEF ModeOnSessionStart, MultiRoundOnSessionStart
    <2>2. /\ DOMAIN MultiRoundEmpty = {"round", "contributions", "converged"}
          /\ MultiRoundEmpty.contributions = <<>> /\ MultiRoundEmpty.converged = FALSE
      BY DEF MultiRoundEmpty
    <2>3. CheckConvergence(<<>>) = FALSE
      BY <1>2, <2>1 DEF CheckConvergence
    <2>4. MultiRoundKept(t)
      BY <1>1, <1>2, <2>1, <2>2, <2>3 DEF MultiRoundKept
    <2> QED BY <1>1, <1>7, <2>1, <2>4 DEF SessionInv, ModeKept
  <1>8. CASE mode = "passthrough"
    <2>1. ModeOnSessionStart(mode) = PersistState(PassthroughEmpty)
      BY <1>8 DEF ModeOnSessionStart
    <2> QED BY <1>1, <1>8, <2>1 DEF SessionInv, ModeKept
  <1> QED BY <1>3, <1>4, <1>5, <1>6, <1>7, <1>8 DEF SessionModes

-----------------------------------------------------------------------------
(* The specification's steps.                                              *)

\* The runtime's own events change the state of the session and nothing else.
LEMMA InternalStep ==
  ASSUME NEW s, NEW c, SessionInv(s, c), s.state \in {"Open", "Suspended"},
         NEW type, NEW t, t = ApplyInternal(s, type)
  PROVE  SessionInv(t, c) /\ t.mode = s.mode /\ Stands(s, t)
  <1>1. IsSession(s) /\ ModeKept(s) /\ c = NoCommit
    BY DEF SessionInv, Sealed
  <1>2. /\ IsSession(t) /\ t.mode = s.mode /\ t.policy = s.policy
        /\ t.semantics_rev = s.semantics_rev /\ t.mode_state = s.mode_state
    BY <1>1 DEF ApplyInternal, IsSession, SessionFields
  <1>3. \A request : EffectiveBar(t, request) = EffectiveBar(s, request)
    BY <1>2 DEF EffectiveBar
  <1>4. /\ QuorumReady(t, t.mode_state) <=> QuorumReady(s, s.mode_state)
        /\ BarMet(t) = BarMet(s)
    BY <1>2, <1>3 DEF QuorumReady, BarMet
  <1>5. s.mode = "task" => DeclineStands(s, t)
    BY <1>1, <1>2 DEF ModeKept, TaskKept, DeclineStands
  <1>6. Stands(s, t)
    BY <1>2, <1>4, <1>5 DEF Stands, VerdictStands
  <1>7. s.mode = "decision" => DecisionKept(t)
    BY <1>1, <1>2 DEF ModeKept, DecisionKept
  <1>8. s.mode = "proposal" => ProposalKept(t)
    <2>1. \A st, p : Converges(t, st, p) <=> Converges(s, st, p)
      BY <1>2 DEF Converges, ProposalRules
    <2> QED BY <1>1, <1>2, <2>1 DEF ModeKept, ProposalKept
  <1>9. ModeKept(t)
    BY <1>1, <1>2, <1>7, <1>8 DEF ModeKept, TaskKept, QuorumKept, MultiRoundKept
  <1> QED BY <1>1, <1>2, <1>6, <1>9 DEF SessionInv

\* A step of a session is a message it takes or an event of the runtime.
LEMMA NextIsTaken ==
  ASSUME session # NoSession, SessionInv(session, commit), Next
  PROVE  \E env : /\ Taken(session, env, session')
                  /\ commit' = IF env.type = "Commitment" THEN env ELSE commit
  <1>1. ~StartSession
    BY DEF StartSession
  <1>2. ASSUME NEW mode \in SessionModes, session.state = "Open", session.mode = mode,
               NEW env \in Envelopes[mode], NEW authorized, NEW resp, Handle(env, authorized, resp),
               authorized = AuthorizeSender(session, env), resp = OnMessage(session, env)
        PROVE  /\ Taken(session, env, session')
               /\ commit' = IF env.type = "Commitment" THEN env ELSE commit
    BY <1>2, EnvelopesAssumption DEF Handle, Taken
  <1>3. CASE DecisionMessage
    <2>1. session.state = "Open" /\ session.mode = "decision" /\ "decision" \in SessionModes
      BY <1>3 DEF DecisionMessage, OpenIn, SessionModes
    <2>2. PICK env \in Envelopes["decision"] :
             Handle(env, DecisionAuthorizeSender(session, env), DecisionOnMessage(session, env))
      BY <1>3 DEF DecisionMessage
    <2>3. /\ DecisionAuthorizeSender(session, env) = AuthorizeSender(session, env)
          /\ DecisionOnMessage(session, env) = OnMessage(session, env)
      BY <2>1 DEF AuthorizeSender, OnMessage
    <2> QED BY <1>2, <2>1, <2>2, <2>3
  <1>4. CASE ProposalMessage
    <2>1. session.state = "Open" /\ session.mode = "proposal" /\ "proposal" \in SessionModes
      BY <1>4 DEF ProposalMessage, OpenIn, SessionModes
    <2>2. PICK env \in Envelopes["proposal"] :
             Handle(env, ProposalAuthorizeSender(session, env), ProposalOnMessage(session, env))
      BY <1>4 DEF ProposalMessage
    <2>3. /\ ProposalAuthorizeSender(session, env) = AuthorizeSender(session, env)
          /\ ProposalOnMessage(session, env) = OnMessage(session, env)
      BY <2>1 DEF AuthorizeSender, OnMessage
    <2> QED BY <1>2, <2>1, <2>2, <2>3
  <1>5. CASE TaskMessage
    <2>1. session.state = "Open" /\ session.mode = "task" /\ "task" \in SessionModes
      BY <1>5 DEF TaskMessage, OpenIn, SessionModes
    <2>2. PICK env \in Envelopes["task"] :
             Handle(env, TaskAuthorizeSender(session, env), TaskOnMessage(session, env))
      BY <1>5 DEF TaskMessage
    <2>3. /\ TaskAuthorizeSender(session, env) = AuthorizeSender(session, env)
          /\ TaskOnMessage(session, env) = OnMessage(session, env)
      BY <2>1 DEF AuthorizeSender, OnMessage
    <2> QED BY <1>2, <2>1, <2>2, <2>3
  <1>6. CASE QuorumMessage
    <2>1. session.state = "Open" /\ session.mode = "quorum" /\ "quorum" \in SessionModes
      BY <1>6 DEF QuorumMessage, OpenIn, SessionModes
    <2>2. PICK env \in Envelopes["quorum"] :
             Handle(env, QuorumAuthorizeSender(session, env), QuorumOnMessage(session, env))
      BY <1>6 DEF QuorumMessage
    <2>3. /\ QuorumAuthorizeSender(session, env) = AuthorizeSender(session, env)
          /\ QuorumOnMessage(session, env) = OnMessage(session, env)
      BY <2>1 DEF AuthorizeSender, OnMessage
    <2> QED BY <1>2, <2>1, <2>2, <2>3
  <1>7. CASE MultiRoundMessage
    <2>1. session.state = "Open" /\ session.mode = "multi_round" /\ "multi_round" \in SessionModes
      BY <1>7 DEF MultiRoundMessage, OpenIn, SessionModes
    <2>2. PICK env \in Envelopes["multi_round"] :
             Handle(env, ExtensionAuthorizeSender(session, env), MultiRoundOnMessage(session, env))
      BY <1>7 DEF MultiRoundMessage
    <2>3. /\ ExtensionAuthorizeSender(session, env) = AuthorizeSender(session, env)
          /\ MultiRoundOnMessage(session, env) = OnMessage(session, env)
      BY <2>1 DEF AuthorizeSender, OnMessage
    <2> QED BY <1>2, <2>1, <2>2, <2>3
  <1>8. CASE PassthroughMessage
    <2>1. session.state = "Open" /\ session.mode = "passthrough" /\ "passthrough" \in SessionModes
      BY <1>8 DEF PassthroughMessage, OpenIn, SessionModes
    <2>2. PICK env \in Envelopes["passthrough"] :
             Handle(env, ExtensionAuthorizeSender(session, env), PassthroughOnMessage(PassthroughTypes, session, env))
      BY <1>8 DEF PassthroughMessage
    <2>3. /\ ExtensionAuthorizeSender(session, env) = AuthorizeSender(session, env)
          /\ PassthroughOnMessage(PassthroughTypes, session, env) = OnMessage(session, env)
      BY <2>1 DEF AuthorizeSender, OnMessage
    <2> QED BY <1>2, <2>1, <2>2, <2>3
  <1> QED BY <1>1, <1>3, <1>4, <1>5, <1>6, <1>7, <1>8 DEF Next

LEMMA RecordedIsTaken ==
  ASSUME session # NoSession, recording, session.mode \in DOMAIN Candidates, RecordMessage
  PROVE  \E env : /\ Taken(session, env, session')
                  /\ commit' = IF env.type = "Commitment" THEN env ELSE commit
  <1>1. PICK said \in Recorded[session.mode] :
           LET env == Echo(session, said)
           IN  /\ Accepts(session, env)
               /\ session' = ApplyModeResponse(session, OnMessage(session, env))
               /\ commit' = IF env.type = "Commitment" THEN env ELSE commit
    BY DEF RecordMessage
  <1> DEFINE env == Echo(session, said)
  <1>2. env.type = "Commitment" => env.outcome_positive \in BOOLEAN
    <2>1. CASE said.type # "Commitment"
      BY <2>1 DEF Echo
    <2>2. CASE said.type = "Commitment"
      <3>1. said.outcome_positive \in BOOLEAN
        BY <2>2, RecordedAssumption
      <3>2. "outcome_positive" \in DOMAIN said
        BY <2>2, RecordedAssumption
      <3> QED BY <2>2, <3>1, <3>2 DEF Echo, Put
    <2> QED BY <2>1, <2>2
  <1>3. session.state = "Open"
    BY DEF RecordMessage
  <1> HIDE DEF env
  <1> QED BY <1>1, <1>2, <1>3 DEF Taken, Accepts, env

LEMMA ModesInit == WhatIfInit => ModesInv
  BY DEF WhatIfInit, Init, ModesInv

\* A step keeps the invariant, and what was said before it stands.
LEMMA ModesStep ==
  ASSUME ModesInv, [WhatIfNext]_whatIfVars
  PROVE  ModesInv' /\ (session # NoSession /\ vars' # vars => Stands(session, session'))
  <1>1. CASE UNCHANGED whatIfVars
    BY <1>1 DEF whatIfVars, vars, ModesInv
  <1>2. ASSUME NEW s, NEW t, s \in Sessions, IsSession(t), t.mode = s.mode, t.policy = s.policy,
               t.state = "Open", ModeOnSessionStart(s.mode) # Rejected,
               session' = ApplyModeResponse(t, ModeOnSessionStart(s.mode))
        PROVE  SessionInv(session', NoCommit) /\ session'.mode = s.mode
    <2>1. s.mode \in SessionModes /\ Bindable(t.policy)
      BY <1>2, SessionsAssumption DEF Bindable
    <2> QED BY <1>2, <2>1, StartStep
  <1>3. ASSUME NEW env, session # NoSession, Taken(session, env, session'),
               commit' = IF env.type = "Commitment" THEN env ELSE commit
        PROVE  /\ SessionInv(session', commit') /\ session'.mode = session.mode
               /\ Stands(session, session') /\ session' # NoSession
    BY <1>3, MessageStep, NoSessionIsNone DEF ModesInv, SessionInv
  <1>4. CASE ~recording /\ StartSession /\ UNCHANGED recording
    <2>1. PICK s \in Sessions :
             LET resp == ModeOnSessionStart(s.mode)
             IN  /\ resp # Rejected
                 /\ session' = ApplyModeResponse(
                        [mode |-> s.mode, policy |-> s.policy, semantics_rev |-> s.semantics_rev,
                         mode_state |-> None, state |-> "Open"], resp)
      BY <1>4 DEF StartSession
    <2> DEFINE t == [mode |-> s.mode, policy |-> s.policy, semantics_rev |-> s.semantics_rev,
                     mode_state |-> None, state |-> "Open"]
    <2>2. IsSession(t) /\ t.mode = s.mode /\ t.policy = s.policy /\ t.state = "Open"
      BY DEF IsSession, SessionFields
    <2> HIDE DEF t
    <2>3. SessionInv(session', NoCommit)
      BY <1>2, <2>1, <2>2 DEF t
    <2>4. commit' = NoCommit /\ session = NoSession /\ ~recording'
      BY <1>4 DEF StartSession, ModesInv
    <2>5. session' # NoSession
      BY <2>3, NoSessionIsNone DEF SessionInv
    <2> QED BY <2>3, <2>4, <2>5 DEF ModesInv
  <1>5. CASE ~recording /\ Next /\ ~StartSession /\ UNCHANGED recording
    <2>1. session # NoSession
      <3>1. session.state = "Open"
        BY <1>5 DEF Next, DecisionMessage, ProposalMessage, TaskMessage, QuorumMessage,
                    MultiRoundMessage, PassthroughMessage, OpenIn
      <3> QED BY <3>1 DEF NoSession
    <2>2. PICK env : /\ Taken(session, env, session')
                     /\ commit' = IF env.type = "Commitment" THEN env ELSE commit
      BY <1>5, <2>1, NextIsTaken DEF ModesInv
    <2>3. SessionInv(session', commit') /\ Stands(session, session') /\ session' # NoSession
      BY <1>3, <2>1, <2>2
    <2> QED BY <1>5, <2>3 DEF ModesInv
  <1>6. CASE RecordStart
    <2>1. PICK s \in Sessions :
             /\ s.mode \in DOMAIN Candidates /\ ModeOnSessionStart(s.mode) # Rejected
             /\ start'.mode = s.mode
             /\ session' = ReplayStart(start', s.policy)
      <3>1. PICK s \in Sessions, named \in BOOLEAN :
             /\ s.mode \in DOMAIN Candidates /\ ModeOnSessionStart(s.mode) # Rejected
             /\ start' = [mode |-> s.mode, policy |-> s.policy, semantics_rev |-> s.semantics_rev,
                          requested |-> IF named /\ s.policy # NoPolicy THEN s.policy.policy_id ELSE ""]
             /\ session' = ReplayStart(start', s.policy)
        BY <1>6, Zenon DEF RecordStart
      <3>2. start'.mode = s.mode
        BY <3>1
      <3> QED BY <3>1, <3>2, Zenon
    <2> DEFINE t == [mode |-> start'.mode, policy |-> s.policy, semantics_rev |-> start'.semantics_rev,
                     policy_version |-> IF start'.requested = "" /\ s.policy # NoPolicy
                                        THEN s.policy.policy_id ELSE start'.requested,
                     mode_state |-> None, state |-> "Open"]
    <2>2. IsSession(t) /\ t.mode = s.mode /\ t.policy = s.policy /\ t.state = "Open"
      BY <2>1 DEF IsSession, SessionFields
    <2>3. session' = ApplyModeResponse(t, ModeOnSessionStart(s.mode))
      BY <2>1 DEF ReplayStart
    <2> HIDE DEF t
    <2>4. SessionInv(session', NoCommit) /\ session'.mode = s.mode
      BY <1>2, <2>1, <2>2, <2>3
    <2>5. commit' = NoCommit /\ session = NoSession
      BY <1>6 DEF RecordStart, ModesInv
    <2>6. session' # NoSession
      BY <2>4, NoSessionIsNone DEF SessionInv
    <2> QED BY <2>1, <2>4, <2>5, <2>6 DEF ModesInv
  <1>7. CASE RecordMessage
    <2>1. session # NoSession /\ recording /\ UNCHANGED recording
      BY <1>7 DEF RecordMessage, NoSession
    <2>2. PICK env : /\ Taken(session, env, session')
                     /\ commit' = IF env.type = "Commitment" THEN env ELSE commit
      BY <1>7, <2>1, RecordedIsTaken DEF ModesInv
    <2>3. /\ SessionInv(session', commit') /\ session'.mode = session.mode
          /\ Stands(session, session') /\ session' # NoSession
      BY <1>3, <2>1, <2>2
    <2> QED BY <2>1, <2>3 DEF ModesInv
  <1>8. CASE RecordInternal
    <2>1. /\ session # NoSession /\ session.state \in {"Open", "Suspended"}
          /\ UNCHANGED <<commit, recording>>
      BY <1>8 DEF RecordInternal, NoSession
    <2>2. PICK type : session' = ApplyInternal(session, type)
      BY <1>8 DEF RecordInternal
    <2>3. /\ SessionInv(session', commit) /\ session'.mode = session.mode
          /\ Stands(session, session')
      BY <2>1, <2>2, InternalStep DEF ModesInv
    <2>4. session' # NoSession
      BY <2>3, NoSessionIsNone DEF SessionInv
    <2> QED BY <2>1, <2>3, <2>4 DEF ModesInv
  <1> QED BY <1>1, <1>4, <1>5, <1>6, <1>7, <1>8 DEF WhatIfNext

LEMMA ModesInvariant == WhatIfSpec => []ModesInv
  BY ModesInit, ModesStep, PTL DEF WhatIfSpec

\* What a Commitment seals rests on what the participants recorded, under any
\* policy the registry gives out: a positive decision on an approval that
\* counts and no veto, a decline on a recorded dissent, a positive quorum
\* outcome on the bar it had to meet (policy/evaluator.rs, decision.rs,
\* quorum.rs).
THEOREM BackedTheorem == WhatIfSpec => []OutcomeBacked
  BY ModesInvariant, InvBacked, PTL

\* A veto under finalize_decline always leaves the initiator's decline as the
\* session's exit (evaluate_decision_commitment_outcome).
THEOREM ExitTheorem == WhatIfSpec => []VetoHasExit
  BY ModesInvariant, InvExit, PTL

\* A convergence that is reported is a current one (refresh_phase in
\* proposal.rs, check_convergence in multi_round.rs).
THEOREM ConvergenceTheorem == WhatIfSpec => []ConvergenceCurrent
  BY ModesInvariant, InvConverged, PTL

\* No later message unsays a ballot, the verdict of a quorum or a decline
\* (on_message of decision.rs and task.rs, commitment_ready in quorum.rs).
THEOREM StatementsTheorem == WhatIfSpec => StatementsStand
  <1>1. ModesInv /\ [WhatIfNext]_whatIfVars =>
           [BallotsFinal /\ VerdictFinal /\ DeclinedNeverHolds]_vars
    <2> SUFFICES ASSUME ModesInv, [WhatIfNext]_whatIfVars, session # NoSession, vars' # vars
                 PROVE  BallotsFinal /\ VerdictFinal /\ DeclinedNeverHolds
      BY DEF BallotsFinal, VerdictFinal, DeclinedNeverHolds, InMode
    <2>1. Stands(session, session')
      BY ModesStep
    <2> QED BY <2>1 DEF Stands, BallotsFinal, VerdictFinal, DeclinedNeverHolds, InMode, VerdictStands,
                        DeclineStands
  <1> QED BY <1>1, ModesInvariant, PTL DEF WhatIfSpec, StatementsStand


-----------------------------------------------------------------------------
(* The handoff mode meets what the kernel's proofs rely on.                *)

\* The session core with handoff as its mode.
Core == INSTANCE Replay WITH
    OnSessionStart <- HandoffOnSessionStart,
    AuthorizeSender <- HandoffAuthorizeSender,
    ValidateClientEnvelope <- HandoffValidateClientEnvelope,
    OnMessageAt <- HandoffOnMessageAt,
    DueSynthetic <- HandoffDueSynthetic

\* The implicit accept never resolves the session and never takes a sender's
\* authority away, so the message waiting behind it is still dispatched to an
\* Open session by an authorised sender, live and on replay.
THEOREM HandoffContract == Core!ModeContract
  <1> SUFFICES ASSUME NEW s, NEW at, NEW syn \in Core!Synthetics(s, at)
               PROVE  /\ Core!SyntheticResponse(s, syn).kind # "PersistAndResolve"
                      /\ \A t, env : HandoffAuthorizeSender(s, env) => HandoffAuthorizeSender(t, env)
    BY DEF Core!ModeContract
  <1>1. syn.type = "HandoffAccept"
    BY DEF Core!Synthetics, HandoffDueSynthetic
  <1>2. Core!SyntheticResponse(s, syn) = Answer(s, syn, "Accepted")
    BY <1>1 DEF Core!SyntheticResponse, HandoffOnMessageAt
  <1>3. Core!SyntheticResponse(s, syn).kind # "PersistAndResolve"
    BY <1>2 DEF Answer, Rejected, PersistState
  <1>4. \A t, env : HandoffAuthorizeSender(s, env) => HandoffAuthorizeSender(t, env)
    BY DEF HandoffAuthorizeSender
  <1> QED BY <1>3, <1>4

\* No client may send the id of an implicit accept: the prefix is reserved
\* under the semantics that know implicit accepts (validate_client_envelope).
THEOREM HandoffOwnIds == Core!OwnIds
  <1> SUFFICES ASSUME NEW s, NEW at, NEW syn \in Core!Synthetics(s, at),
                      NEW env, HandoffValidateClientEnvelope(s, env)
               PROVE  env.id # syn.id
    BY DEF Core!OwnIds
  <1>1. SemanticsRev >= 2 /\ \E h : syn.id = ImplicitAcceptId(h)
    BY DEF Core!Synthetics, HandoffDueSynthetic
  <1>2. IsReservedId(syn.id)
    BY <1>1 DEF IsReservedId, ImplicitAcceptId
  <1> QED BY <1>1, <1>2 DEF HandoffValidateClientEnvelope

\* What the handoff rules keep of the mode's state: it is a record of offers
\* with at most one of them outstanding (handle_offer).
HandoffKept(st) ==
    /\ st = [offers |-> st.offers, contexts |-> st.contexts]
    /\ st.offers = [h \in DOMAIN st.offers |-> st.offers[h]]
    /\ \A h \in DOMAIN st.offers :
          st.offers[h] = [target |-> st.offers[h].target, offered_by |-> st.offers[h].offered_by,
                          disposition |-> st.offers[h].disposition, outcome |-> st.offers[h].outcome,
                          offered_at_ms |-> st.offers[h].offered_at_ms,
                          suspended_ms_at_offer |-> st.offers[h].suspended_ms_at_offer]
    /\ \A g, h \in OutstandingOffers(st) : g = h

\* An offer is made only when none is outstanding.
LEMMA OfferKeeps ==
    ASSUME NEW s, HandoffKept(s.mode_state), NEW env, NEW clock,
           HandleOffer(s, env, clock).kind # "Rejected"
    PROVE  /\ HandleOffer(s, env, clock).kind = "PersistState"
           /\ HandoffKept(HandleOffer(s, env, clock).state)
  <1> DEFINE offer == [target |-> env.target, offered_by |-> env.sender, disposition |-> "Offered",
                       outcome |-> "none",
                       offered_at_ms |-> IF SemanticsRev >= 1 THEN clock ELSE env.timestamp,
                       suspended_ms_at_offer |-> s.accumulated_suspended_ms]
             st == s.mode_state
             offers == Put(st.offers, env.hid, offer)
  <1>1. ~OfferRejected(s, env)
    BY DEF HandleOffer, Rejected
  <1>2. HandleOffer(s, env, clock) = PersistState([st EXCEPT !.offers = offers])
    BY <1>1 DEF HandleOffer
  <1>3. \A h \in DOMAIN st.offers : st.offers[h].disposition # "Offered"
    BY <1>1 DEF OfferRejected
  <1>4. /\ offer = [target |-> offer.target, offered_by |-> offer.offered_by,
                    disposition |-> offer.disposition, outcome |-> offer.outcome,
                    offered_at_ms |-> offer.offered_at_ms,
                    suspended_ms_at_offer |-> offer.suspended_ms_at_offer]
    OBVIOUS
  <1> HIDE DEF offer
  <1>5. /\ DOMAIN offers = DOMAIN st.offers \cup {env.hid}
        /\ offers = [h \in DOMAIN offers |-> offers[h]]
        /\ \A h \in DOMAIN offers : offers[h] = IF h = env.hid THEN offer ELSE st.offers[h]
    BY DEF Put
  <1> HIDE DEF offers
  <1>6. [st EXCEPT !.offers = offers] = [offers |-> offers, contexts |-> st.contexts]
    BY DEF HandoffKept
  <1> DEFINE new == [offers |-> offers, contexts |-> st.contexts]
  <1>7. new.offers = offers /\ new.contexts = st.contexts /\ new = [offers |-> new.offers, contexts |-> new.contexts]
    OBVIOUS
  <1> HIDE DEF new
  <1>8. \A g, h \in OutstandingOffers(new) : g = h
    BY <1>3, <1>5, <1>7 DEF OutstandingOffers
  <1>9. HandoffKept(new)
    BY <1>4, <1>5, <1>7, <1>8, ZenonT(60) DEF HandoffKept
  <1> QED BY <1>2, <1>6, <1>9 DEF PersistState, new

\* The offer is answered: it is outstanding no longer.
Settles(old, offer) ==
    \E o, d : d # "Offered" /\ offer = [old EXCEPT !.disposition = d, !.outcome = o]

\* Settling offers, whatever else the handler records, keeps the shape and
\* makes no further offer outstanding.
LEMMA SettlingKeeps ==
    ASSUME NEW st, HandoffKept(st), NEW offers, NEW contexts,
           offers = [h \in DOMAIN st.offers |-> offers[h]],
           \A h \in DOMAIN st.offers : offers[h] = st.offers[h] \/ Settles(st.offers[h], offers[h]),
           NEW new, new = [offers |-> offers, contexts |-> contexts]
    PROVE  HandoffKept(new) /\ OutstandingOffers(new) \subseteq OutstandingOffers(st)
  <1>1. new.offers = offers /\ new.contexts = contexts /\ new = [offers |-> new.offers, contexts |-> new.contexts]
    OBVIOUS
  <1>2. DOMAIN offers = DOMAIN st.offers
    OBVIOUS
  <1>3. ASSUME NEW h \in DOMAIN st.offers
        PROVE  /\ offers[h] = [target |-> offers[h].target, offered_by |-> offers[h].offered_by,
                               disposition |-> offers[h].disposition, outcome |-> offers[h].outcome,
                               offered_at_ms |-> offers[h].offered_at_ms,
                               suspended_ms_at_offer |-> offers[h].suspended_ms_at_offer]
               /\ offers[h].disposition = "Offered" => st.offers[h].disposition = "Offered"
    <2> DEFINE old == st.offers[h]
    <2>1. old = [target |-> old.target, offered_by |-> old.offered_by, disposition |-> old.disposition,
                 outcome |-> old.outcome, offered_at_ms |-> old.offered_at_ms,
                 suspended_ms_at_offer |-> old.suspended_ms_at_offer]
      BY DEF HandoffKept
    <2> HIDE DEF old
    <2>2. CASE offers[h] = old
      BY <2>1, <2>2 DEF old
    <2>3. ASSUME NEW o, NEW d, d # "Offered", offers[h] = [old EXCEPT !.disposition = d, !.outcome = o]
          PROVE  /\ offers[h] = [target |-> offers[h].target, offered_by |-> offers[h].offered_by,
                                 disposition |-> offers[h].disposition, outcome |-> offers[h].outcome,
                                 offered_at_ms |-> offers[h].offered_at_ms,
                                 suspended_ms_at_offer |-> offers[h].suspended_ms_at_offer]
                 /\ offers[h].disposition # "Offered"
      <3>1. offers[h] = [target |-> old.target, offered_by |-> old.offered_by, disposition |-> d,
                         outcome |-> o, offered_at_ms |-> old.offered_at_ms,
                         suspended_ms_at_offer |-> old.suspended_ms_at_offer]
        BY <2>1, <2>3
      <3> QED BY <2>3, <3>1
    <2>4. CASE Settles(old, offers[h])
      BY <2>3, <2>4 DEF Settles
    <2> QED BY <2>2, <2>4 DEF old
  <1>4. OutstandingOffers(new) \subseteq OutstandingOffers(st)
    BY <1>1, <1>2, <1>3 DEF OutstandingOffers
  <1>5. \A g, h \in OutstandingOffers(st) : g = h
    BY DEF HandoffKept
  <1>6. new.offers = [h \in DOMAIN new.offers |-> new.offers[h]]
    BY <1>1, <1>2
  <1> QED BY <1>1, <1>2, <1>3, <1>4, <1>5, <1>6 DEF HandoffKept

\* Context is recorded beside the offers.
LEMMA ContextKeeps ==
    ASSUME NEW s, HandoffKept(s.mode_state), NEW env, HandleContext(s, env).kind # "Rejected"
    PROVE  /\ HandleContext(s, env).kind = "PersistState"
           /\ HandoffKept(HandleContext(s, env).state)
  <1> DEFINE st == s.mode_state
             had == IF env.hid \in DOMAIN st.contexts THEN st.contexts[env.hid] ELSE 0
             contexts == Put(st.contexts, env.hid, had + 1)
             new == [offers |-> st.offers, contexts |-> contexts]
  <1> HIDE DEF contexts
  <1>1. HandleContext(s, env) = PersistState([st EXCEPT !.contexts = contexts])
    BY DEF HandleContext, Rejected, contexts
  <1>2. [st EXCEPT !.contexts = contexts] = new
    BY DEF HandoffKept
  <1>3. st.offers = [h \in DOMAIN st.offers |-> st.offers[h]]
    BY DEF HandoffKept
  <1>4. HandoffKept(new)
    BY <1>3, SettlingKeeps
  <1> QED BY <1>1, <1>2, <1>4 DEF PersistState

\* An answer settles the offer it names.
LEMMA AnswerKeeps ==
    ASSUME NEW s, HandoffKept(s.mode_state), NEW env, NEW disposition \in {"Accepted", "Declined"},
           Answer(s, env, disposition).kind # "Rejected"
    PROVE  /\ Answer(s, env, disposition).kind = "PersistState"
           /\ HandoffKept(Answer(s, env, disposition).state)
           /\ OutstandingOffers(Answer(s, env, disposition).state) \subseteq OutstandingOffers(s.mode_state)
  <1> DEFINE st == s.mode_state
             outcome == IF env.implicit THEN "implicit" ELSE "explicit"
             settled == [st.offers[env.hid] EXCEPT !.disposition = disposition, !.outcome = outcome]
             offers == [st.offers EXCEPT ![env.hid] = settled]
             new == [offers |-> offers, contexts |-> st.contexts]
  <1>1. ~AnswerRejected(s, env)
    BY DEF Answer, Rejected
  <1>2. Answer(s, env, disposition) = PersistState([st EXCEPT
             !.offers[env.hid].disposition = disposition,
             !.offers[env.hid].outcome = outcome])
    BY <1>1 DEF Answer
  <1>3. env.hid \in DOMAIN st.offers
    BY <1>1 DEF AnswerRejected
  <1>4. [st EXCEPT !.offers[env.hid].disposition = disposition, !.offers[env.hid].outcome = outcome] = new
    <2> DEFINE disposed == [st.offers[env.hid] EXCEPT !.disposition = disposition]
               first == [st.offers EXCEPT ![env.hid] = disposed]
               second == [first EXCEPT ![env.hid] = [first[env.hid] EXCEPT !.outcome = outcome]]
    <2>1. st = [offers |-> st.offers, contexts |-> st.contexts]
      BY DEF HandoffKept
    <2> DEFINE base == [st EXCEPT !.offers = first]
               whole == [st EXCEPT !.offers[env.hid].disposition = disposition,
                                   !.offers[env.hid].outcome = outcome]
    <2>2. whole = [base EXCEPT !.offers = [base.offers EXCEPT
                                             ![env.hid] = [base.offers[env.hid] EXCEPT !.outcome = outcome]]]
      OBVIOUS
    <2>3. first[env.hid] = disposed
      BY <1>3
    <2>4. [disposed EXCEPT !.outcome = outcome] = settled
      OBVIOUS
    <2>5. second = offers
      <3> HIDE DEF disposed, settled
      <3> QED BY <1>3, <2>3, <2>4
    <2> HIDE DEF first, offers, whole
    <2>6. base = [offers |-> first, contexts |-> st.contexts]
      BY <2>1
    <2> HIDE DEF base
    <2>7. base.offers = first /\ base.contexts = st.contexts
      BY <2>6
    <2>8. whole = [base EXCEPT !.offers = offers]
      BY <2>2, <2>5, <2>7
    <2>9. whole = new
      BY <2>6, <2>8
    <2> QED BY <2>9 DEF whole
  <1>5. offers = [h \in DOMAIN st.offers |-> offers[h]]
    OBVIOUS
  <1>6. \A h \in DOMAIN st.offers : offers[h] = st.offers[h] \/ (h = env.hid /\ offers[h] = settled)
    OBVIOUS
  <1> HIDE DEF offers, outcome
  <1>7. HandoffKept(new) /\ OutstandingOffers(new) \subseteq OutstandingOffers(st)
    <2>1. \A h \in DOMAIN st.offers : offers[h] = st.offers[h] \/ Settles(st.offers[h], offers[h])
      BY <1>6 DEF Settles
    <2> QED BY <1>5, <2>1, SettlingKeeps
  <1> QED BY <1>2, <1>4, <1>7 DEF PersistState

\* So does a commitment under the interim rule.
LEMMA CommitmentKeeps ==
    ASSUME NEW s, HandoffKept(s.mode_state), NEW env, NEW clock,
           HandleCommitment(s, env, clock).kind # "Rejected"
    PROVE  /\ HandleCommitment(s, env, clock).kind = "PersistAndResolve"
           /\ HandoffKept(HandleCommitment(s, env, clock).state)
  <1> DEFINE st == s.mode_state
             due(h) == /\ st.offers[h].disposition = "Offered"
                       /\ st.offers[h].offered_at_ms > 0
                       /\ ImplicitAcceptElapsedMs(s, st.offers[h], clock) >= HandoffTimeout
             offers == [h \in DOMAIN st.offers |->
                          IF due(h) THEN [st.offers[h] EXCEPT !.disposition = "Accepted", !.outcome = "implicit"]
                          ELSE st.offers[h]]
             new == [offers |-> offers, contexts |-> st.contexts]
  <1>1. HandleCommitment(s, env, clock) = PersistAndResolve(WithInterimAccepts(s, clock))
    BY DEF HandleCommitment, Rejected
  <1>2. WithInterimAccepts(s, clock) \in {st, [st EXCEPT !.offers = offers]}
    BY DEF WithInterimAccepts
  <1>3. \A h \in DOMAIN st.offers :
           \/ offers[h] = st.offers[h]
           \/ offers[h] = [st.offers[h] EXCEPT !.disposition = "Accepted", !.outcome = "implicit"]
    OBVIOUS
  <1>4. offers = [h \in DOMAIN st.offers |-> offers[h]]
    OBVIOUS
  <1> HIDE DEF offers
  <1>5. [st EXCEPT !.offers = offers] = new
    BY DEF HandoffKept
  <1>6. HandoffKept(new)
    <2>1. \A h \in DOMAIN st.offers : offers[h] = st.offers[h] \/ Settles(st.offers[h], offers[h])
      BY <1>3 DEF Settles
    <2> QED BY <1>4, <2>1, SettlingKeeps
  <1> QED BY <1>1, <1>2, <1>5, <1>6 DEF PersistAndResolve

\* Every handler of the mode keeps at most one offer outstanding.
LEMMA HandoffKeeps ==
    ASSUME NEW s, HandoffKept(s.mode_state), NEW env, NEW at,
           HandoffOnMessageAt(s, env, at).kind # "Rejected"
    PROVE  /\ HandoffOnMessageAt(s, env, at).kind \in {"PersistState", "PersistAndResolve"}
           /\ HandoffKept(HandoffOnMessageAt(s, env, at).state)
  <1> DEFINE clock == IF SemanticsRev >= 1 THEN at ELSE env.timestamp
             resp == HandoffOnMessageAt(s, env, at)
  <1> HIDE DEF clock
  <1>0. resp \in {HandleOffer(s, env, clock), HandleContext(s, env), Answer(s, env, "Accepted"),
                  Answer(s, env, "Declined"), HandleCommitment(s, env, clock), Rejected}
    BY Zenon DEF HandoffOnMessageAt, clock
  <1>1. resp.kind # "Rejected"
    OBVIOUS
  <1> HIDE DEF resp
  <1>2. CASE resp = HandleOffer(s, env, clock)
    BY <1>1, <1>2, OfferKeeps DEF resp
  <1>3. CASE resp = HandleContext(s, env)
    BY <1>1, <1>3, ContextKeeps DEF resp
  <1>4. CASE resp \in {Answer(s, env, "Accepted"), Answer(s, env, "Declined")}
    BY <1>1, <1>4, AnswerKeeps DEF resp
  <1>5. CASE resp = HandleCommitment(s, env, clock)
    BY <1>1, <1>5, CommitmentKeeps DEF resp
  <1>6. Rejected.kind = "Rejected"
    BY DEF Rejected
  <1> QED BY <1>0, <1>1, <1>2, <1>3, <1>4, <1>5, <1>6

\* An accepted implicit accept leaves the mode owing nothing: the one offer
\* that was outstanding has taken its dedup slot (next_synthetic).
LEMMA NothingMoreOwed ==
    ASSUME NEW s, NEW at, NEW syn \in Core!Synthetics(s, at), HandoffKept(s.mode_state),
           {"mode_state", "seen_message_ids"} \subseteq DOMAIN s
    PROVE  Core!Synthetics(Core!ApplyModeResponse(Core!TakeDedupSlot(s, syn.id),
                                             Core!SyntheticResponse(s, syn)), at) = {}
  <1> DEFINE resp == Core!SyntheticResponse(s, syn)
             slot == Core!TakeDedupSlot(s, syn.id)
             t == Core!ApplyModeResponse(slot, resp)
  <1>1. PICK g \in OutstandingOffers(s.mode_state) :
           /\ syn.id = ImplicitAcceptId(g)
           /\ syn.type = "HandoffAccept"
    BY DEF Core!Synthetics, HandoffDueSynthetic
  <1>2. resp = Answer(s, syn, "Accepted")
    BY <1>1 DEF Core!SyntheticResponse, HandoffOnMessageAt
  <1>3. \/ resp.kind = "Rejected"
        \/ /\ resp.kind = "PersistState"
           /\ OutstandingOffers(resp.state) \subseteq OutstandingOffers(s.mode_state)
    BY <1>2, AnswerKeeps
  <1>4. /\ slot.seen_message_ids = s.seen_message_ids \cup {syn.id}
        /\ slot.mode_state = s.mode_state
        /\ DOMAIN slot = DOMAIN s
    BY DEF Core!TakeDedupSlot
  <1> HIDE DEF resp, slot
  <1>5. /\ syn.id \in t.seen_message_ids
        /\ OutstandingOffers(t.mode_state) \subseteq OutstandingOffers(s.mode_state)
    <2>1. CASE resp.kind = "Rejected"
      <3>1. t = slot
        BY <2>1 DEF Core!ApplyModeResponse
      <3> QED BY <1>4, <3>1
    <2>2. CASE resp.kind = "PersistState"
      <3>1. t = [slot EXCEPT !.mode_state = resp.state]
        BY <2>2 DEF Core!ApplyModeResponse
      <3>2. t.mode_state = resp.state /\ t.seen_message_ids = slot.seen_message_ids
        BY <1>4, <3>1
      <3> QED BY <1>3, <1>4, <2>2, <3>2
    <2> QED BY <1>3, <2>1, <2>2
  <1>6. \A h \in OutstandingOffers(t.mode_state) : ImplicitAcceptId(h) \in t.seen_message_ids
    BY <1>1, <1>5 DEF HandoffKept
  <1> HIDE DEF t
  <1>7. \A env \in HandoffDueSynthetic(t, at) : env.id \in t.seen_message_ids
    <2> SUFFICES ASSUME NEW env \in HandoffDueSynthetic(t, at) PROVE env.id \in t.seen_message_ids
      OBVIOUS
    <2>1. PICK h \in OutstandingOffers(t.mode_state) : env.id = ImplicitAcceptId(h)
      BY DEF HandoffDueSynthetic
    <2> QED BY <1>6, <2>1
  <1>8. Core!Synthetics(t, at) = {}
    BY <1>7 DEF Core!Synthetics
  <1> QED BY <1>8 DEF t, slot, resp

\* The handoff mode owes one implicit accept at a time, because its rules
\* keep one offer outstanding (handle_offer, due_synthetic_envelope): the
\* premise of the kernel's InTimeTheorem.
THEOREM HandoffOneAtATime == Core!OneAtATime(HandoffKept)
  <1>1. HandoffOnSessionStart.kind # "Rejected" =>
           HandoffOnSessionStart = PersistState(HandoffEmpty)
    BY DEF HandoffOnSessionStart, Rejected
  <1>2. HandoffKept(HandoffEmpty)
    <2>1. DOMAIN HandoffEmpty.offers = {} /\ HandoffEmpty.offers = <<>>
      BY DEF HandoffEmpty
    <2>2. HandoffEmpty.offers = [h \in DOMAIN HandoffEmpty.offers |-> HandoffEmpty.offers[h]]
      BY <2>1
    <2>3. HandoffEmpty = [offers |-> HandoffEmpty.offers, contexts |-> HandoffEmpty.contexts]
      BY DEF HandoffEmpty
    <2> QED BY <2>1, <2>2, <2>3 DEF HandoffKept, OutstandingOffers
  <1>3. \A s, at : \A syn \in Core!Synthetics(s, at) : syn.id[1] = "implicit-accept"
    <2> SUFFICES ASSUME NEW s, NEW at, NEW syn \in Core!Synthetics(s, at)
                 PROVE  syn.id[1] = "implicit-accept"
      OBVIOUS
    <2>1. \E h : syn.id = ImplicitAcceptId(h)
      BY DEF Core!Synthetics, HandoffDueSynthetic
    <2> QED BY <2>1 DEF ImplicitAcceptId
  <1>4. HandoffOnSessionStart.kind # "Rejected" =>
           /\ HandoffOnSessionStart.kind \in {"PersistState", "PersistAndResolve"}
           /\ HandoffKept(HandoffOnSessionStart.state)
    BY <1>1, <1>2 DEF PersistState
  <1>5. \A s, env, at : HandoffKept(s.mode_state) /\ HandoffOnMessageAt(s, env, at).kind # "Rejected" =>
           /\ HandoffOnMessageAt(s, env, at).kind \in {"PersistState", "PersistAndResolve"}
           /\ HandoffKept(HandoffOnMessageAt(s, env, at).state)
    BY HandoffKeeps
  <1>6. \A s, at : \A syn \in Core!Synthetics(s, at) :
           HandoffKept(s.mode_state) /\ {"mode_state", "seen_message_ids"} \subseteq DOMAIN s =>
              Core!Synthetics(Core!ApplyModeResponse(Core!TakeDedupSlot(s, syn.id),
                                                Core!SyntheticResponse(s, syn)), at) = {}
    BY NothingMoreOwed
  <1> QED BY <1>3, <1>4, <1>5, <1>6, Zenon DEF Core!OneAtATime
=============================================================================
