----------------------------- MODULE ModeCommon -----------------------------
(***************************************************************************)
(* What a mode's handler answers (crates/macp-core/src/mode.rs), what the  *)
(* session core does with the answer, and the rules every mode shares      *)
(* (crates/macp-modes/src/mode/util.rs).  The roster and the initiator are *)
(* bound at SessionStart and never change, so they are constants.          *)
(*                                                                         *)
(* A client envelope is a record with at least the fields                  *)
(*   id      the message_id: <<"client", i>>, or <<"implicit-accept", h>>  *)
(*           for an id in the namespace reserved for the runtime;          *)
(*   type    the message_type;                                             *)
(*   sender  the authenticated sender;                                     *)
(*   valid   whether the payload decodes and its free-text fields and      *)
(*           bound versions pass the checks that look at nothing else.     *)
(***************************************************************************)
CONSTANTS
    Participants,     \* session.participants
    Initiator         \* session.initiator_sender

\* enum ModeResponse, or the error a mode returned.
Rejected == [kind |-> "Rejected"]
PersistState(st) == [kind |-> "PersistState", state |-> st]
PersistAndResolve(st) == [kind |-> "PersistAndResolve", state |-> st]

ApplyModeResponse(s, resp) ==
    CASE resp.kind = "PersistState" -> [s EXCEPT !.mode_state = resp.state]
      [] resp.kind = "PersistAndResolve" ->
             [s EXCEPT !.mode_state = resp.state, !.state = "Resolved"]
      [] OTHER -> s

\* HashMap::insert: k maps to v, whatever it mapped to before.
Put(f, k, v) == [x \in DOMAIN f \cup {k} |-> IF x = k THEN v ELSE f[x]]

IsDeclaredParticipant(p) == p \in Participants

\* Who may commit, by the bound commitment.authority.
AuthorityAllows(authority, roles, sender) ==
    CASE authority = "any_participant" -> sender = Initiator \/ IsDeclaredParticipant(sender)
      [] authority = "designated_role" -> sender \in roles
      [] OTHER                         -> sender = Initiator

\* A Commitment's payload: the ids and versions are abstracted to `valid`,
\* the sign of the outcome must agree with the action it names.
ValidateCommitmentPayload(env) ==
    /\ env.valid
    /\ env.action = "negative" => ~env.outcome_positive
    /\ env.action = "positive" => env.outcome_positive
=============================================================================
