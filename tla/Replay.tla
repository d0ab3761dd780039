------------------------------- MODULE Replay -------------------------------
(***************************************************************************)
(* The recorded history of a session and how it is rebuilt: the log        *)
(* entries of macp-storage's log_store.rs, the session a SessionStart      *)
(* begins (macp-modes' step.rs and replay.rs), and the server's log replay *)
(* (src/replay.rs).                                                        *)
(*                                                                         *)
(* The mode is a parameter: any deterministic implementation of the Mode   *)
(* trait (the module Handoff is one).                                      *)
(***************************************************************************)
EXTENDS Session

CONSTANTS
    OnSessionStart,                  \* Mode::on_session_start's response
    AuthorizeSender(_, _),           \* Mode::authorize_sender(session, env)
    ValidateClientEnvelope(_, _),    \* Mode::validate_client_envelope
    OnMessageAt(_, _, _),            \* Mode::on_message_at(session, env, at)
    DueSynthetic(_, _)               \* Mode::due_synthetic_envelope, as a set

\* No session in memory, no snapshot, or an empty log.
NoSession == [state |-> "None"]

\* replay_session returned an error: recovery skips the session.
Unreplayable == [state |-> "Unreplayable"]

-----------------------------------------------------------------------------
(* Log entries.                                                            *)

IncomingEntry(env, at) == [kind |-> "Incoming", env |-> env, at |-> at]

InternalEntry(type, at) == [kind |-> "Internal", type |-> type, at |-> at]

\* base: compacted_incoming_ordinals, the accepted ordinals it discarded.
CheckpointEntry(s, base) == [kind |-> "Checkpoint", session |-> s, base |-> base]

IsIncoming(e) == e.kind = "Incoming"

IsStart(e) == IsIncoming(e) /\ e.env.type = "SessionStart"

\* The ordinal base of a log: what its checkpoints say was compacted away.
OrdinalBase(entries) ==
    Max({0} \cup {entries[i].base : i \in {i \in DOMAIN entries : entries[i].kind = "Checkpoint"}})

\* The places of the accepted envelopes in a log, and their ordinals.
IncomingIn(entries) == {i \in DOMAIN entries : IsIncoming(entries[i])}

OrdinalOf(entries, i) ==
    OrdinalBase(entries) + Cardinality({j \in IncomingIn(entries) : j <= i})

\* The highest accepted ordinal a log knows of.
HighWater(entries) == OrdinalBase(entries) + Cardinality(IncomingIn(entries))

-----------------------------------------------------------------------------
(* The start of a session.                                                 *)

\* The deadline counts from the envelope's own timestamp when it has one.
TtlBase(env, at) == IF env.timestamp > 0 THEN env.timestamp ELSE at

\* resolve_max_suspend_ms: the cap a new session binds.
ResolveMaxSuspendMs(ms) == IF ms > 0 THEN ms ELSE MaxSuspendMs

\* The session a SessionStart begins, before the mode has seen it.
BuildSession(env, at) ==
    [state |-> "Open",
     ttl_expiry |-> TtlBase(env, at) + env.ttl_ms,
     started_at_unix_ms |-> at,
     seen_message_ids |-> {},
     mode_state |-> <<>>,
     suspended_at_ms |-> NoTime,
     accumulated_suspended_ms |-> 0,
     suspension_intervals |-> <<>>,
     max_suspend_ms |-> ResolveMaxSuspendMs(env.max_suspend_ms)]

TakeDedupSlot(s, id) == [s EXCEPT !.seen_message_ids = @ \cup {id}]

\* validate_session_start and ValidatedStart::accept, for a start whose
\* payload is well formed: a positive TTL, a non-negative suspension cap.
StartAccepted(env, at) ==
    /\ env.ttl_ms >= 1
    /\ env.max_suspend_ms >= 0
    /\ OnSessionStart.kind # "Rejected"
    /\ ValidateClientEnvelope(BuildSession(env, at), env)

AcceptStart(env, at) ==
    ApplyModeResponse(TakeDedupSlot(BuildSession(env, at), env.id), OnSessionStart)

\* replay_start: from the recorded envelope and acceptance clock, without
\* the client boundary.  The resolved cap is recorded on the entry.
ReplayStart(e) ==
    IF e.env.ttl_ms < 1 \/ OnSessionStart.kind = "Rejected"
    THEN Unreplayable
    ELSE ApplyModeResponse(TakeDedupSlot(BuildSession(e.env, e.at), e.env.id), OnSessionStart)

-----------------------------------------------------------------------------
(* Envelopes the runtime owes history.                                     *)

\* next_synthetic: what must enter history before anything else at `at`.
Synthetics(s, at) ==
    IF s.state # "Open" THEN {}
    ELSE {env \in DueSynthetic(s, at) : env.id \notin s.seen_message_ids}

SyntheticResponse(s, env) == OnMessageAt(s, env, env.timestamp)

\* The mode accepts its own envelope, as it does on replay.
SyntheticAccepted(s, env) ==
    AuthorizeSender(s, env) /\ SyntheticResponse(s, env).kind # "Rejected"

\* What the kernel relies on: a mode's own envelope leaves the session Open
\* and its senders authorised.
ModeContract ==
    \A s, at : \A syn \in Synthetics(s, at) :
        LET t == ApplyModeResponse(TakeDedupSlot(s, syn.id), SyntheticResponse(s, syn))
        IN  /\ SyntheticResponse(s, syn).kind # "PersistAndResolve"
            /\ \A env : AuthorizeSender(s, env) => AuthorizeSender(t, env)

\* And: no client may send the id of an envelope that is due.
OwnIds ==
    \A s, at : \A syn \in Synthetics(s, at) :
        \A env : ValidateClientEnvelope(s, env) => env.id # syn.id

\* And: under what the mode keeps true of its own state (Kept), it owes one
\* envelope at a time, and owes nothing more once that one is accepted.
OneAtATime(Kept(_)) ==
    /\ OnSessionStart.kind # "Rejected" =>
          /\ OnSessionStart.kind \in {"PersistState", "PersistAndResolve"}
          /\ Kept(OnSessionStart.state)
    /\ \A s, env, at : Kept(s.mode_state) /\ OnMessageAt(s, env, at).kind # "Rejected" =>
          /\ OnMessageAt(s, env, at).kind \in {"PersistState", "PersistAndResolve"}
          /\ Kept(OnMessageAt(s, env, at).state)
    /\ \A s, at : \A syn \in Synthetics(s, at) :
          /\ syn.id[1] = "implicit-accept"
          /\ Kept(s.mode_state) /\ {"mode_state", "seen_message_ids"} \subseteq DOMAIN s =>
                Synthetics(ApplyModeResponse(TakeDedupSlot(s, syn.id), SyntheticResponse(s, syn)), at) = {}

-----------------------------------------------------------------------------
(* The rest of the log.                                                    *)

\* Mutant: replay gives no dedup slots.
ReplayIncomingNoSlot(s, e) ==
    LET resp == OnMessageAt(s, e.env, e.at)
    IN  IF s.state # "Open" THEN s
        ELSE IF ~AuthorizeSender(s, e.env) \/ resp.kind = "Rejected" THEN Unreplayable
        ELSE ApplyModeResponse(s, resp)

\* An accepted envelope is dispatched again at its recorded clock, with no
\* dedup check; past the Open state it only keeps its dedup slot.
ReplayIncoming(s, e) ==
    LET resp == OnMessageAt(s, e.env, e.at)
    IN  IF s.state # "Open" THEN TakeDedupSlot(s, e.env.id)
        ELSE IF ~AuthorizeSender(s, e.env) \/ resp.kind = "Rejected" THEN Unreplayable
        ELSE TakeDedupSlot(ApplyModeResponse(s, resp), e.env.id)

\* Mutant: a replayed resume reopens the session without banking the pause.
ReplayInternalUnbanked(s, e) ==
    CASE e.type = "TtlExpired"     -> [s EXCEPT !.state = "Expired"]
      [] e.type = "SessionCancel"  -> Cancel(s).s
      [] e.type = "SessionSuspend" -> Suspend(s, e.at).s
      [] OTHER                     -> [s EXCEPT !.state = "Open", !.suspended_at_ms = NoTime]

\* A runtime entry is re-applied; what the operation returns is ignored.
\* An expiry only sets the state.
ReplayInternal(s, e) ==
    CASE e.type = "TtlExpired"     -> [s EXCEPT !.state = "Expired"]
      [] e.type = "SessionCancel"  -> Cancel(s).s
      [] e.type = "SessionSuspend" -> Suspend(s, e.at).s
      [] e.type = "SessionResume"  -> Resume(s, e.at).s
      [] OTHER                     -> s

ReplayEntry(s, e) ==
    CASE s = Unreplayable      -> s
      [] e.kind = "Incoming"   -> ReplayIncoming(s, e)
      [] e.kind = "Internal"   -> ReplayInternal(s, e)
      [] e.kind = "Checkpoint" -> s

\* Where replay_session begins: right behind the last checkpoint when there
\* is one, else with the first SessionStart.
IsLastCheckpoint(entries, n) ==
    /\ entries[n].kind = "Checkpoint"
    /\ \A m \in DOMAIN entries : m > n => entries[m].kind # "Checkpoint"

HasCheckpoint(entries) == \E m \in DOMAIN entries : entries[m].kind = "Checkpoint"

IsFirstStart(entries, n) ==
    /\ IsStart(entries[n])
    /\ \A m \in DOMAIN entries : m < n => ~IsStart(entries[m])

\* What one entry adds: the session that a log replays to once e is
\* appended to a log that replays to s.
ReplayAppend(s, e) ==
    IF e.kind = "Checkpoint" THEN e.session
    ELSE IF s = NoSession THEN (IF IsStart(e) THEN ReplayStart(e) ELSE Unreplayable)
    ELSE ReplayEntry(s, e)
=============================================================================
