--------------------------- MODULE ExtensionModes ---------------------------
(***************************************************************************)
(* The modes outside the standards track: multi-round convergence          *)
(* (crates/macp-modes/src/mode/multi_round.rs) and the passthrough handler *)
(* behind every dynamically registered mode (passthrough.rs).  Neither     *)
(* consults a policy.                                                      *)
(***************************************************************************)
EXTENDS ModeCommon, Naturals, FiniteSets, TLC

-----------------------------------------------------------------------------
(* Multi-round.                                                            *)

\* First revision whose decoder prefers the canonical encoding.
TIE_BREAK_REV == 3

MultiRoundEmpty == [round |-> 0, contributions |-> <<>>, converged |-> FALSE]

MultiRoundOnSessionStart ==
    IF Participants = {} THEN Rejected ELSE PersistState(MultiRoundEmpty)

ExtensionAuthorizeSender(s, env) ==
    IF env.type = "Commitment" THEN env.sender = Initiator
    ELSE Participants = {} \/ IsDeclaredParticipant(env.sender)

\* A Contribute payload is the set of its readings: "json" and "proto", each
\* with the value it decodes to, and whether the proto one is canonical.
ParseContributeValue(s, env) ==
    IF "json" \in DOMAIN env.readings
       /\ ~(s.semantics_rev >= TIE_BREAK_REV /\ env.canonical)
    THEN env.readings["json"]
    ELSE env.readings["proto"]

Undecodable(s, env) ==
    \/ env.readings = <<>>
    \/ "proto" \notin DOMAIN env.readings /\ "json" \notin DOMAIN env.readings

\* Mutant: converged as soon as the contributions present agree.
CheckConvergencePresent(contributions) ==
    \A p, q \in DOMAIN contributions : contributions[p] = contributions[q]

CheckConvergence(contributions) ==
    /\ Participants \subseteq DOMAIN contributions
    /\ \A p, q \in DOMAIN contributions : contributions[p] = contributions[q]

\* A repeated value opens no new round.
HandleContribute(s, st, env) ==
    LET value == ParseContributeValue(s, env)
        changed == env.sender \notin DOMAIN st.contributions \/ st.contributions[env.sender] # value
        contributions == Put(st.contributions, env.sender, value)
    IN  IF st.converged \/ Undecodable(s, env) THEN Rejected
        ELSE PersistState([round |-> IF changed THEN st.round + 1 ELSE st.round,
                           contributions |-> contributions,
                           converged |-> CheckConvergence(contributions)])

MultiRoundOnMessage(s, env) ==
    LET st == s.mode_state
    IN  CASE env.type = "Contribute" -> HandleContribute(s, st, env)
          [] env.type = "Commitment" ->
                 IF st.converged /\ ValidateCommitmentPayload(env) THEN PersistAndResolve(st)
                 ELSE Rejected
          [] OTHER -> Rejected

-----------------------------------------------------------------------------
(* Passthrough.                                                            *)

\* The mode state is the last payload; none was persisted at the start.
PassthroughEmpty == [last |-> "none"]

\* `allowed` the handler's allowed_message_types, where none means any;
\* ModeResponse::Resolve leaves the mode state as it is.
PassthroughOnMessage(allowed, s, env) ==
    IF allowed # {} /\ env.type \notin allowed THEN Rejected
    ELSE IF env.type = "Commitment"
    THEN IF ValidateCommitmentPayload(env) THEN PersistAndResolve(s.mode_state) ELSE Rejected
    ELSE PersistState([last |-> env.payload])
=============================================================================
