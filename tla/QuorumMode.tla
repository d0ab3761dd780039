----------------------------- MODULE QuorumMode -----------------------------
(***************************************************************************)
(* The quorum mode (crates/macp-modes/src/mode/quorum.rs): one approval    *)
(* request, one ballot per participant, and a commitment once the bar is   *)
(* met or can no longer be met.                                            *)
(***************************************************************************)
EXTENDS Evaluator

\* Option<ApprovalRequestRecord>; a request is [id, required_approvals].
NoRequest == [id |-> "none"]

QuorumEmpty == [request |-> NoRequest, ballots |-> <<>>]

QuorumAuthorizeSender(s, env) ==
    CASE env.type = "ApprovalRequest" -> env.sender = Initiator
      [] env.type = "Commitment"      -> MayCommit(s, env.sender)
      [] OTHER                        -> IsDeclaredParticipant(env.sender)

QuorumOnSessionStart ==
    IF Participants = {} THEN Rejected ELSE PersistState(QuorumEmpty)

\* The bar of a request: the policy's, or the request's own.
EffectiveBar(s, request) ==
    LET r   == RulesOrDefault("quorum", s.policy)
        bar == EffectiveThreshold(r["threshold.type"], r["threshold.value"], Cardinality(Participants))
    IN  IF bar.kind = "Inert" THEN Approvals(request.required_approvals) ELSE bar

Count(st, choice) == Cardinality({p \in DOMAIN st.ballots : st.ballots[p] = choice})

Remaining(st) ==
    LET left == Cardinality(Participants) - Cardinality(DOMAIN st.ballots)
    IN  IF left > 0 THEN left ELSE 0

\* Mutant: the participants yet to vote are forgotten.
QuorumReadyEarly(s, st) ==
    /\ st.request # NoRequest
    /\ EffectiveBar(s, st.request).kind = "Approvals"
    /\ DOMAIN st.ballots # {}

\* Ready when the bar is met or has become unreachable.
QuorumReady(s, st) ==
    /\ st.request # NoRequest
    /\ EffectiveBar(s, st.request).kind = "Approvals"
    /\ LET required == EffectiveBar(s, st.request).required
       IN  \/ Count(st, "Approve") >= required
           \/ Count(st, "Approve") + Remaining(st) < required

HandleApprovalRequest(s, st, env) ==
    LET request == [id |-> env.rid, required_approvals |-> env.required]
    IN  IF \/ env.sender # Initiator
           \/ ~env.valid
           \/ st.request # NoRequest
           \/ env.required \notin 1 .. Cardinality(Participants)
           \/ EffectiveBar(s, request).kind # "Approvals"
        THEN Rejected
        ELSE PersistState([st EXCEPT !.request = request])

HandleBallot(st, env) ==
    IF \/ ~env.valid
       \/ st.request = NoRequest
       \/ env.rid # st.request.id
       \/ env.sender \in DOMAIN st.ballots
    THEN Rejected
    ELSE PersistState([st EXCEPT !.ballots = Put(@, env.sender, env.type)])

QuorumReasons(s, st, env) ==
    QuorumModeDeny(s.policy, Count(st, "Approve"), Cardinality(Participants),
                   env.outcome_positive)

QuorumCommitment(s, st, env) ==
    IF /\ ValidateCommitmentPayload(env)
       /\ QuorumReady(s, st)
       /\ PolicyAllows(s, QuorumReasons(s, st, env))
    THEN PersistAndResolve(st)
    ELSE Rejected

QuorumOnMessage(s, env) ==
    LET st == s.mode_state
    IN  CASE env.type = "ApprovalRequest" -> HandleApprovalRequest(s, st, env)
          [] env.type \in {"Approve", "Reject", "Abstain"} -> HandleBallot(st, env)
          [] env.type = "Commitment" -> QuorumCommitment(s, st, env)
          [] OTHER -> Rejected
=============================================================================
