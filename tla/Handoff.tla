------------------------------ MODULE Handoff ------------------------------
(***************************************************************************)
(* The handoff mode (crates/macp-modes/src/mode/handoff.rs): offers of     *)
(* responsibility to a target participant, their explicit or implicit      *)
(* acceptance, and the commitment that ends the session.                   *)
(*                                                                         *)
(* The mode's serialised state is the record [offers, contexts]: the       *)
(* offers made so far by handoff id, and how many HandoffContext records   *)
(* each carries (their content is opaque to the runtime).  An offer keeps  *)
(* the fields its rules read; accepted_by and declined_by are always the   *)
(* target, and outcome_reason is kept only as far as it tells an explicit  *)
(* answer from the runtime's own.                                          *)
(***************************************************************************)
EXTENDS Session

CONSTANTS
    PolicyBound,              \* whether the session bound a policy definition
    Authority,                \* the policy's commitment.authority
    DesignatedRoles,          \* the policy's commitment.designated_roles
    ImplicitAcceptTimeoutMs   \* the policy's acceptance.implicit_accept_timeout_ms

ASSUME HandoffConstants ==
    /\ PolicyBound \in BOOLEAN
    /\ Authority \in {"initiator_only", "any_participant", "designated_role"}
    /\ ImplicitAcceptTimeoutMs \in Nat

\* check_commitment_authority, for a policy that is fixed for the whole model.
CheckCommitmentAuthority(sender) ==
    AuthorityAllows(IF PolicyBound THEN Authority ELSE "initiator_only", DesignatedRoles, sender)

\* First revision that bars a new offer to a target that declined before.
DECLINED_TARGET_BAR_REV == 4

ImplicitAcceptId(h) == <<"implicit-accept", h>>

IsReservedId(id) == id[1] = "implicit-accept"

HandoffEmpty == [offers |-> <<>>, contexts |-> <<>>]

\* on_session_start: the roster names the owner and at least one target.
HandoffOnSessionStart ==
    IF Cardinality(Participants) < 2 \/ Initiator \notin Participants
    THEN Rejected
    ELSE PersistState(HandoffEmpty)

HandoffAuthorizeSender(s, env) ==
    CASE env.type = "Commitment"   -> CheckCommitmentAuthority(env.sender)
      [] env.type = "HandoffOffer" -> env.sender = Initiator
      [] OTHER                     -> IsDeclaredParticipant(env.sender)

\* The client boundary: the runtime's own shape may not be submitted.
HandoffValidateClientEnvelope(s, env) ==
    SemanticsRev >= 2 =>
        /\ ~IsReservedId(env.id)
        /\ ~(env.type = "HandoffAccept" /\ env.valid /\ env.implicit)

-----------------------------------------------------------------------------
(* The implicit accept: when an outstanding offer is due, and at what time.*)

ImplicitAcceptElapsedMs(s, offer, now) ==
    IF SemanticsRev >= 2
    THEN now - offer.offered_at_ms
           - Elapsed(offer.suspended_ms_at_offer, s.accumulated_suspended_ms)
    ELSE now - offer.offered_at_ms

HandoffTimeout == IF PolicyBound THEN ImplicitAcceptTimeoutMs ELSE 0

OutstandingOffers(st) == {h \in DOMAIN st.offers : st.offers[h].disposition = "Offered"}

\* The envelopes the runtime owes history at `now`: none or one (the rules
\* keep at most one offer outstanding).  Its clock is the computed deadline.
HandoffDueSynthetic(s, now) ==
    {[id |-> ImplicitAcceptId(h), type |-> "HandoffAccept", hid |-> h, valid |-> TRUE,
      sender |-> s.mode_state.offers[h].target, by |-> s.mode_state.offers[h].target,
      implicit |-> TRUE,
      timestamp |-> UnsuspendedDeadline(s, s.mode_state.offers[h].offered_at_ms, HandoffTimeout)]
        : h \in {h \in OutstandingOffers(s.mode_state) :
                    /\ SemanticsRev >= 2
                    /\ HandoffTimeout > 0
                    /\ s.mode_state.offers[h].offered_at_ms > 0
                    /\ ImplicitAcceptElapsedMs(s, s.mode_state.offers[h], now) >= HandoffTimeout}}

-----------------------------------------------------------------------------
(* handle_message, one operator per message type.                          *)

OfferRejected(s, env) ==
    LET offers == s.mode_state.offers
    IN  \/ ~env.valid
        \/ env.hid \in DOMAIN offers
        \/ ~IsDeclaredParticipant(env.target)
        \/ env.target = env.sender
        \/ \E h \in DOMAIN offers : offers[h].disposition \in {"Offered", "Accepted"}
        \/ /\ SemanticsRev >= DECLINED_TARGET_BAR_REV
           /\ \E h \in DOMAIN offers :
                 offers[h].disposition = "Declined" /\ offers[h].target = env.target

HandleOffer(s, env, clock) ==
    LET offer == [target |-> env.target, offered_by |-> env.sender, disposition |-> "Offered",
                  outcome |-> "none",
                  offered_at_ms |-> IF SemanticsRev >= 1 THEN clock ELSE env.timestamp,
                  suspended_ms_at_offer |-> s.accumulated_suspended_ms]
    IN  IF OfferRejected(s, env) THEN Rejected
        ELSE PersistState([s.mode_state EXCEPT !.offers = Put(@, env.hid, offer)])

\* Late context, after an answer, is permitted.
HandleContext(s, env) ==
    LET st == s.mode_state
        had == IF env.hid \in DOMAIN st.contexts THEN st.contexts[env.hid] ELSE 0
    IN  IF ~env.valid \/ env.hid \notin DOMAIN st.offers \/ st.offers[env.hid].offered_by # env.sender
        THEN Rejected
        ELSE PersistState([st EXCEPT !.contexts = Put(@, env.hid, had + 1)])

\* The explicit answers, and the implicit accept the runtime records.  The
\* implicit arm checks identity and shape, never the time.
AnswerRejected(s, env) ==
    LET offers == s.mode_state.offers
    IN  \/ ~env.valid
        \/ env.hid \notin DOMAIN offers
        \/ offers[env.hid].target # env.sender
        \/ env.by \notin (IF env.implicit THEN {env.sender} ELSE {"", env.sender})
        \/ env.implicit /\ (SemanticsRev < 2 \/ env.id # ImplicitAcceptId(env.hid))
        \/ offers[env.hid].disposition # "Offered"

Answer(s, env, disposition) ==
    IF AnswerRejected(s, env) THEN Rejected
    ELSE PersistState([s.mode_state EXCEPT
             !.offers[env.hid].disposition = disposition,
             !.offers[env.hid].outcome = IF env.implicit THEN "implicit" ELSE "explicit"])

CommitmentReady(st) ==
    \E h \in DOMAIN st.offers : st.offers[h].disposition \in {"Accepted", "Declined"}

\* The interim rule of revisions 0 and 1: the commitment itself accepts an
\* offer whose timeout has elapsed.
WithInterimAccepts(s, clock) ==
    IF SemanticsRev >= 2 \/ HandoffTimeout = 0 THEN s.mode_state
    ELSE [s.mode_state EXCEPT !.offers =
            [h \in DOMAIN @ |->
                IF /\ @[h].disposition = "Offered"
                   /\ @[h].offered_at_ms > 0
                   /\ ImplicitAcceptElapsedMs(s, @[h], clock) >= HandoffTimeout
                THEN [@[h] EXCEPT !.disposition = "Accepted", !.outcome = "implicit"]
                ELSE @[h]]]

\* The policy gate behind these checks allows every handoff commitment.
HandleCommitment(s, env, clock) ==
    LET st == WithInterimAccepts(s, clock)
    IN  IF ~ValidateCommitmentPayload(env) \/ ~CommitmentReady(st)
        THEN Rejected
        ELSE PersistAndResolve(st)

HandoffOnMessageAt(s, env, at) ==
    LET clock == IF SemanticsRev >= 1 THEN at ELSE env.timestamp
    IN  CASE env.type = "HandoffOffer"   -> HandleOffer(s, env, clock)
          [] env.type = "HandoffContext" -> HandleContext(s, env)
          [] env.type = "HandoffAccept"  -> Answer(s, env, "Accepted")
          [] env.type = "HandoffDecline" -> Answer(s, env, "Declined")
          [] env.type = "Commitment"     -> HandleCommitment(s, env, clock)
          [] OTHER                       -> Rejected
=============================================================================
