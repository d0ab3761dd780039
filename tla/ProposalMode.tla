---------------------------- MODULE ProposalMode ----------------------------
(***************************************************************************)
(* The proposal mode (crates/macp-modes/src/mode/proposal.rs): offers and  *)
(* counter-offers, each participant's latest acceptance, rejections and    *)
(* withdrawals, and the phase that follows from them after every message.  *)
(***************************************************************************)
EXTENDS Evaluator

\* proposals by id: [proposer, supersedes, disposition]; supersedes is ""
\* for an original proposal.
ProposalEmpty ==
    [proposals |-> <<>>, accepts |-> <<>>, rejections |-> {}, terminal_rejections |-> {},
     phase |-> "Negotiating"]

ProposalRules(s) == RulesOrDefault("proposal", s.policy)

Live(st) == {p \in DOMAIN st.proposals : st.proposals[p].disposition = "Live"}

AcceptedBy(st, voter, pid) == voter \in DOMAIN st.accepts /\ st.accepts[voter] = pid

CheckAcceptanceCriterion(criterion, st, pid) ==
    CASE criterion = "counterparty" ->
             \A p \in Participants \ {st.proposals[pid].proposer} : AcceptedBy(st, p, pid)
      [] criterion = "initiator" -> AcceptedBy(st, Initiator, pid)
      [] OTHER -> Participants # {} /\ \A p \in Participants : AcceptedBy(st, p, pid)

RefreshPhase(s, st) ==
    [st EXCEPT !.phase =
        IF st.terminal_rejections # {} THEN "TerminalRejected"
        ELSE IF \E p \in Live(st) :
                   CheckAcceptanceCriterion(ProposalRules(s)["acceptance.criterion"], st, p)
        THEN "Converged" ELSE "Negotiating"]

ProposalAuthorizeSender(s, env) ==
    IF env.type = "Commitment" THEN MayCommit(s, env.sender) ELSE IsDeclaredParticipant(env.sender)

ProposalOnSessionStart ==
    IF Participants = {} THEN Rejected ELSE PersistState(ProposalEmpty)

Counters(st) == {p \in DOMAIN st.proposals : st.proposals[p].supersedes # ""}

NewProposal(s, st, env, supersedes) ==
    PersistState(RefreshPhase(s, [st EXCEPT !.proposals =
        Put(@, env.pid, [proposer |-> env.sender, supersedes |-> supersedes,
                         disposition |-> "Live"])]))

HandleNewProposal(s, st, env) ==
    IF ~env.valid \/ env.pid \in DOMAIN st.proposals THEN Rejected
    ELSE NewProposal(s, st, env, "")

\* The superseded proposal stays live; the round limit counts counters.
HandleCounterProposal(s, st, env) ==
    LET max == ProposalRules(s)["counter_proposal.max_rounds"]
    IN  IF \/ ~env.valid
           \/ env.pid \in DOMAIN st.proposals
           \/ env.supersedes \notin DOMAIN st.proposals
           \/ max > 0 /\ Cardinality(Counters(st)) >= max
        THEN Rejected
        ELSE NewProposal(s, st, env, env.supersedes)

\* A participant's latest acceptance replaces its earlier one.
HandleAccept(s, st, env) ==
    IF ~env.valid \/ env.pid \notin Live(st) THEN Rejected
    ELSE PersistState(RefreshPhase(s, [st EXCEPT !.accepts = Put(@, env.sender, env.pid)]))

HandleReject(s, st, env) ==
    LET terminal == env.terminal \/ ProposalRules(s)["rejection.terminal_on_any_reject"]
        record   == [pid |-> env.pid, sender |-> env.sender]
    IN  IF ~env.valid \/ env.pid \notin Live(st) THEN Rejected
        ELSE PersistState(RefreshPhase(s,
                 [st EXCEPT !.rejections = @ \cup {record},
                            !.terminal_rejections = IF terminal THEN @ \cup {record} ELSE @]))

\* Mutant: the accepts and the phase outlive the withdrawn proposal.
HandleWithdrawKeepsPhase(s, st, env) ==
    IF ~env.valid \/ env.pid \notin Live(st) \/ st.proposals[env.pid].proposer # env.sender
    THEN Rejected
    ELSE PersistState([st EXCEPT !.proposals[env.pid].disposition = "Withdrawn"])

\* A withdrawal takes the proposal's accepts and terminal rejections along.
HandleWithdraw(s, st, env) ==
    IF \/ ~env.valid
       \/ env.pid \notin DOMAIN st.proposals
       \/ st.proposals[env.pid].proposer # env.sender
       \/ st.proposals[env.pid].disposition = "Withdrawn"
    THEN Rejected
    ELSE PersistState(RefreshPhase(s,
             [st EXCEPT !.proposals[env.pid].disposition = "Withdrawn",
                        !.accepts = [p \in {q \in DOMAIN @ : @[q] # env.pid} |-> @[p]],
                        !.terminal_rejections = {r \in @ : r.pid # env.pid}]))

\* The mode's own conditions, before its policy is asked.
ProposalReady(s, st, env) ==
    /\ ValidateCommitmentPayload(env)
    /\ RefreshPhase(s, st).phase \in {"Converged", "TerminalRejected"}

ProposalReasons(s, st, env) ==
    ProposalDeny(s.policy, Cardinality(Counters(st)), env.outcome_positive)

ProposalCommitment(s, st, env) ==
    IF ProposalReady(s, st, env) /\ PolicyAllows(s, ProposalReasons(s, st, env))
    THEN PersistAndResolve([st EXCEPT !.phase = "Committed"])
    ELSE Rejected

ProposalOnMessage(s, env) ==
    LET st == s.mode_state
    IN  IF st.phase = "Committed" THEN Rejected
        ELSE CASE env.type = "Proposal"        -> HandleNewProposal(s, st, env)
               [] env.type = "CounterProposal" -> HandleCounterProposal(s, st, env)
               [] env.type = "Accept"          -> HandleAccept(s, st, env)
               [] env.type = "Reject"          -> HandleReject(s, st, env)
               [] env.type = "Withdraw"        -> HandleWithdraw(s, st, env)
               [] env.type = "Commitment"      -> ProposalCommitment(s, st, env)
               [] OTHER                        -> Rejected
=============================================================================
