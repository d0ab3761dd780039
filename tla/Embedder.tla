------------------------------ MODULE Embedder ------------------------------
(***************************************************************************)
(* A session driven in-process, through the library and without a server   *)
(* (docs/embedding.md): the acceptance functions of macp-modes' step.rs,   *)
(* the recorder and replayer of its replay.rs, and two embedders over      *)
(* them: the conformance target of macp-conform's in_process.rs, which     *)
(* drives the phases, and one that calls `step` and, as step.rs tells an   *)
(* embedder with a record to, `advance` first.                             *)
(*                                                                         *)
(* The deployment changes under the session: its StartOptions and the      *)
(* policy definitions its registry holds.                                  *)
(***************************************************************************)
EXTENDS Session, ExtensionModes

CONSTANTS
    ExtensionTypes,     \* the message types its extension mode takes
    Deployments,        \* the StartOptions the embedder may run with
    Definitions,        \* the policy definitions it may register
    Starts,             \* the SessionStarts its clients submit
    Submissions,        \* and the envelopes that follow
    MaxTtlMs,           \* MAX_TTL_MS
    MaxSyntheticPerStep,\* MAX_SYNTHETIC_PER_STEP
    MaxNow,             \* bound on the clock
    MaxEvents           \* bound on the events of a record

ASSUME EmbedderConstants ==
    /\ MaxTtlMs \in Nat \ {0} /\ MaxSyntheticPerStep \in Nat \ {0}
    /\ MaxNow \in Nat /\ MaxEvents \in Nat

VARIABLES
    now,        \* the embedder's Clock
    opts,       \* its StartOptions
    policies,   \* its policy registry: policy_id -> definition
    live,       \* the session it serves, or NoLive
    record      \* what it recorded of it: a RecordedStart and its events

embedderVars == <<now, opts, policies, live, record>>

NoLive == [state |-> "None"]
NoRecord == [events |-> <<>>]

DEFAULT_POLICY_ID == "policy.default"
DefaultPolicy == [policy_id |-> DEFAULT_POLICY_ID, mode |-> "*", timeout |-> 0]

-----------------------------------------------------------------------------
(* trait Mode: the handoff mode under the bound policy, or an extension    *)
(* mode with the passthrough handler.                                      *)

HandoffUnder(policy) ==
    INSTANCE Handoff WITH PolicyBound <- TRUE, Authority <- "initiator_only",
                          DesignatedRoles <- {}, ImplicitAcceptTimeoutMs <- policy.timeout

IsHandoff(s) == s.mode = "handoff"

ModeStarts(s) ==
    IF IsHandoff(s) THEN HandoffUnder(s.policy)!HandoffOnSessionStart
    ELSE PersistState(PassthroughEmpty)

ModeAuthorizes(s, env) ==
    IF IsHandoff(s) THEN HandoffUnder(s.policy)!HandoffAuthorizeSender(s, env)
    ELSE ExtensionAuthorizeSender(s, env)

ClientBoundary(s, env) ==
    IsHandoff(s) => HandoffUnder(s.policy)!HandoffValidateClientEnvelope(s, env)

\* dispatch, at the acceptance clock.
Dispatch(s, env, at) ==
    IF IsHandoff(s) THEN HandoffUnder(s.policy)!HandoffOnMessageAt(s, env, at)
    ELSE PassthroughOnMessage(ExtensionTypes, s, env)

DueEnvelopes(s, at) ==
    IF IsHandoff(s) THEN HandoffUnder(s.policy)!HandoffDueSynthetic(s, at) ELSE {}

-----------------------------------------------------------------------------
(* Accepting a SessionStart.                                               *)

\* requires_strict_session_start, unless the deployment says otherwise.
StrictByName(mode) == mode = "handoff"
Strict(strict, mode) == IF strict = "by_name" THEN StrictByName(mode) ELSE strict = "strict"

TtlInRange(p) == p.ttl_ms \in 1 .. MaxTtlMs

\* validate_canonical_start; `complete` stands for the configuration_version
\* and for a roster without blanks and repetitions.
Canonical(p) == TtlInRange(p) /\ p.mode_version # "" /\ p.complete /\ p.max_suspend_ms >= 0

\* validate_session_start: the checks that need neither mode nor policy.
StartValid(env, o) ==
    LET p == env.payload IN
    /\ env.shaped /\ env.id_portable
    /\ Strict(o.strict, env.mode) => Canonical(p)
    /\ p.mode_version \in {"", o.descriptor_mode_version}
    /\ TtlInRange(p) /\ p.ttl_ms <= o.max_ttl_ms

\* The version bound for a payload that names none.
BoundModeVersion(env, o) ==
    IF env.payload.mode_version = "" THEN o.descriptor_mode_version ELSE ""

\* The suspension cap: the payload's, else the deployment's, else the default.
ResolvedCap(p, o) ==
    CASE p.max_suspend_ms > 0 -> p.max_suspend_ms
      [] p.max_suspend_ms <= 0 /\ o.default_max_suspend_ms > 0 -> o.default_max_suspend_ms
      [] OTHER -> MaxSuspendMs

\* The registry's definition of the version the payload asks for.
RequestedVersion(p) == IF p.policy_version = "" THEN DEFAULT_POLICY_ID ELSE p.policy_version

PolicyBinds(p, mode, registry) ==
    /\ RequestedVersion(p) \in DOMAIN registry
    /\ registry[RequestedVersion(p)].mode \in {"*", mode}

\* Session::builder with the start's bindings, before the mode has seen it.
BuiltSession(env, at, cap, bound_mode_version, policy) ==
    LET p == env.payload IN
    [state |-> "Open", mode |-> env.mode, mode_state |-> <<>>, seen_message_ids |-> {},
     ttl_expiry |-> (IF env.timestamp > 0 THEN env.timestamp ELSE at) + p.ttl_ms,
     started_at_unix_ms |-> at, max_suspend_ms |-> cap,
     mode_version |-> IF bound_mode_version = "" THEN p.mode_version ELSE bound_mode_version,
     policy_version |-> IF p.policy_version = "" THEN policy.policy_id ELSE p.policy_version,
     policy |-> policy, semantics_rev |-> SemanticsRev,
     suspended_at_ms |-> NoTime, accumulated_suspended_ms |-> 0, suspension_intervals |-> <<>>,
     message_counts |-> [x \in {} |-> 0], last_seen |-> [x \in {} |-> 0]]

\* The mode's initial state, and the start's own dedup slot.
StartedSession(s, env) ==
    ApplyModeResponse([s EXCEPT !.seen_message_ids = {env.id}], ModeStarts(s))

\* ValidatedStart::accept.
MayBegin(s, env) == ModeStarts(s) # Rejected /\ ClientBoundary(s, env)

-----------------------------------------------------------------------------
(* Accepting a message.                                                    *)

CheckPreconditions(s, env, at) ==
    CASE ~env.shaped -> "InvalidEnvelope"
      [] env.shaped /\ env.id \in s.seen_message_ids -> "Duplicate"
      [] OTHER -> IF ~env.addressed THEN "InvalidEnvelope"
                  ELSE IF DeadlinePassed(s, at) THEN "Expired"
                  ELSE IF s.state # "Open" THEN "SessionNotOpen"
                  ELSE "Proceed"

Admit(s, env) == ModeAuthorizes(s, env) /\ ClientBoundary(s, env)

Credit(s, sender, at) ==
    [s EXCEPT !.message_counts =
                  (sender :> (IF sender \in DOMAIN @ THEN @[sender] + 1 ELSE 1)) @@ @,
              !.last_seen = (sender :> at) @@ @]

TakeSlot(s, id) == [s EXCEPT !.seen_message_ids = @ \cup {id}]

Commit(s, env, resp, at) == ApplyModeResponse(Credit(TakeSlot(s, env.id), env.sender, at), resp)

\* next_synthetic: at most one envelope, dispatched at its own clock.
NextSynthetic(s, at) ==
    {env \in DueEnvelopes(s, at) : s.state = "Open" /\ env.id \notin s.seen_message_ids}

SyntheticHolds(s, env) == ModeAuthorizes(s, env) /\ Dispatch(s, env, env.timestamp) # Rejected

\* No activity: the sender did not act.
CommitSynthetic(s, env) == ApplyModeResponse(TakeSlot(s, env.id), Dispatch(s, env, env.timestamp))

\* advance: everything due, in order; an error keeps what was applied and
\* reports none of it.
RECURSIVE Advance(_, _, _)
Advance(s, at, emitted) ==
    IF NextSynthetic(s, at) = {} THEN [ok |-> TRUE, s |-> s, emitted |-> emitted]
    ELSE LET env == CHOOSE e \in NextSynthetic(s, at) : TRUE
         IN  IF ~SyntheticHolds(s, env) \/ Len(emitted) = MaxSyntheticPerStep
             THEN [ok |-> FALSE, s |-> s, emitted |-> <<>>]
             ELSE Advance(CommitSynthetic(s, env), at, Append(emitted, env))

\* step: the outcome, the session it leaves, and what it reports to have
\* entered history.  A rejection after synthesis reports nothing.
Step(s, env, at) ==
    LET pre == CheckPreconditions(s, env, at)
        Left(outcome, t) == [outcome |-> outcome, s |-> t, synthesized |-> <<>>]
        Answered(due, resp) ==
            IF resp = Rejected THEN Left("Refused", due.s)
            ELSE [outcome |-> "Accepted", s |-> Commit(due.s, env, resp, at),
                  synthesized |-> due.emitted]
        Settled(due) == IF due.ok THEN Answered(due, Dispatch(due.s, env, at))
                        ELSE Left("Refused", due.s)
    IN  CASE pre = "Expired" -> Left("TtlExpired", Expire(s).s)
          [] pre = "Proceed" -> IF Admit(s, env) THEN Settled(Advance(s, at, <<>>))
                                ELSE Left("Refused", s)
          [] OTHER -> Left(pre, s)

-----------------------------------------------------------------------------
(* The record, and the replay of it.                                       *)

MessageRecorded(env, at) == [kind |-> "Message", env |-> env, at |-> at]
SyntheticRecorded(env) == [kind |-> "Synthetic", env |-> env, at |-> env.timestamp]
LifecycleRecorded(kind, at) == [kind |-> kind, at |-> at]

\* Mutant: the version bound in place of an omitted one is not recorded.
RecordedStartUnbound(env, s, bound_mode_version) ==
    [env |-> env, at |-> s.started_at_unix_ms, cap |-> s.max_suspend_ms,
     bound_mode_version |-> "", policy |-> s.policy, strict |-> "by_name"]

\* RecordedStart::from_session.
RecordedStart(env, s, bound_mode_version) ==
    [env |-> env, at |-> s.started_at_unix_ms, cap |-> s.max_suspend_ms,
     bound_mode_version |-> bound_mode_version, policy |-> s.policy, strict |-> "by_name"]

\* replay_start, from the record alone.
StartReplays(st) ==
    LET built == BuiltSession(st.env, st.at, st.cap, st.bound_mode_version, st.policy) IN
    /\ Strict(st.strict, st.env.mode) => Canonical(st.env.payload)
    /\ TtlInRange(st.env.payload)
    /\ ModeStarts(built) # Rejected

ReplayedStart(st) ==
    IF ~StartReplays(st) THEN NoLive
    ELSE StartedSession(BuiltSession(st.env, st.at, st.cap, st.bound_mode_version, st.policy), st.env)

\* apply_event; a refused envelope fails the replay.
ReplayedEnvelope(s, e) ==
    LET resp == Dispatch(s, e.env, e.at)
        credited == IF e.kind = "Message" THEN Credit(s, e.env.sender, e.at) ELSE s
    IN  IF s.state # "Open" THEN TakeSlot(s, e.env.id)
        ELSE IF ~ModeAuthorizes(s, e.env) \/ resp = Rejected THEN NoLive
        ELSE TakeSlot(ApplyModeResponse(credited, resp), e.env.id)

ReplayedEvent(s, e) ==
    CASE s = NoLive -> s
      [] s # NoLive /\ e.kind \in {"Message", "Synthetic"} -> ReplayedEnvelope(s, e)
      [] OTHER -> CASE e.kind = "Suspended" -> Suspend(s, e.at).s
                    [] e.kind = "Resumed"   -> Resume(s, e.at).s
                    [] e.kind = "Cancelled" -> Cancel(s).s
                    [] e.kind = "Expired"   -> [s EXCEPT !.state = "Expired"]

Rebuilt(r) == FoldLeft(ReplayedEvent, ReplayedStart(r.start), r.events)

-----------------------------------------------------------------------------
(* The embedders.                                                          *)

RoomFor(n) == Len(record.events) + n <= MaxEvents

Recording(events) == record' = [record EXCEPT !.events = @ \o events]

\* InProcessTarget::start; a second SessionStart changes nothing.
Begin ==
    /\ live = NoLive
    /\ \E env \in Starts :
         /\ StartValid(env, opts)
         /\ PolicyBinds(env.payload, env.mode, policies)
         /\ LET bound == BoundModeVersion(env, opts)
                built == BuiltSession(env, now, ResolvedCap(env.payload, opts), bound,
                                      policies[RequestedVersion(env.payload)])
            IN  /\ MayBegin(built, env)
                /\ live' = StartedSession(built, env)
                /\ record' = [start |-> RecordedStart(env, live', bound), events |-> <<>>]
    /\ UNCHANGED <<now, opts, policies>>

\* InProcessTarget::message: the phases, recording as it goes.  What one
\* observation of the session adds to it and to the record.
Phases(s, env, at) ==
    LET pre == CheckPreconditions(s, env, at)
        due == NextSynthetic(s, at)
        syn == CHOOSE e \in due : TRUE
        settled == IF due = {} THEN s ELSE CommitSynthetic(s, syn)
        events == IF due = {} THEN <<>> ELSE <<SyntheticRecorded(syn)>>
        resp == Dispatch(settled, env, at)
    IN  CASE pre = "Expired" -> [s |-> Expire(s).s, events |-> <<LifecycleRecorded("Expired", at)>>]
          [] pre = "Proceed" ->
                 IF ~Admit(s, env) \/ (due # {} /\ ~SyntheticHolds(s, syn))
                 THEN [s |-> s, events |-> <<>>]
                 ELSE IF resp = Rejected THEN [s |-> settled, events |-> events]
                 ELSE [s |-> Commit(settled, env, resp, at),
                       events |-> Append(events, MessageRecorded(env, at))]
          [] OTHER -> [s |-> s, events |-> <<>>]

SubmitPhases ==
    /\ live # NoLive
    /\ \E env \in Submissions :
         LET done == Phases(live, env, now)
         IN  /\ done.s # live /\ RoomFor(Len(done.events))
             /\ live' = done.s
             /\ Recording(done.events)
    /\ UNCHANGED <<now, opts, policies>>

\* Mutant: what was due is left to the step, which reports it on success.
AdvanceFirstNot(s, at) == [ok |-> TRUE, s |-> s, emitted |-> <<>>]

\* The pattern for an embedder with a record: `advance`, then `step` at the
\* same clock.
AdvanceFirst(s, at) == Advance(s, at, <<>>)

\* The embedder writes down what both calls report.
StepRecord(env, first, done) ==
    LET due == first.emitted \o done.synthesized
        events == [i \in DOMAIN due |-> SyntheticRecorded(due[i])] \o
                  (CASE done.outcome = "TtlExpired" -> <<LifecycleRecorded("Expired", now)>>
                     [] done.outcome = "Accepted" -> <<MessageRecorded(env, now)>>
                     [] OTHER -> <<>>)
    IN  /\ done.s # live /\ RoomFor(Len(events))
        /\ live' = done.s
        /\ Recording(events)

SubmitStep ==
    /\ live # NoLive
    /\ \E env \in Submissions :
         LET Stepped(first) == StepRecord(env, first, Step(first.s, env, now))
         IN  Stepped(AdvanceFirst(live, now))
    /\ UNCHANGED <<now, opts, policies>>

\* The embedder's timer.
Tick ==
    /\ live # NoLive /\ NextSynthetic(live, now) # {}
    /\ LET due == Advance(live, now, <<>>)
       IN  /\ RoomFor(Len(due.emitted))
           /\ live' = due.s
           /\ Recording([i \in DOMAIN due.emitted |-> SyntheticRecorded(due.emitted[i])])
    /\ UNCHANGED <<now, opts, policies>>

\* InProcessTarget::observe, by way of expire_if_due.
Observe ==
    /\ live # NoLive /\ DeadlinePassed(live, now) /\ Expire(live).ok /\ RoomFor(1)
    /\ live' = Expire(live).s
    /\ Recording(<<LifecycleRecorded("Expired", now)>>)
    /\ UNCHANGED <<now, opts, policies>>

\* The lifecycle calls of an embedder, recorded once they took effect: a
\* resume over a cap returns an error and leaves the session Expired.
Pause ==
    /\ live # NoLive /\ RoomFor(1)
    /\ \E call \in {[kind |-> "Suspended", r |-> Suspend(live, now)],
                    [kind |-> "Resumed", r |-> Resume(live, now)],
                    [kind |-> "Cancelled", r |-> Cancel(live)]} :
         /\ call.r.s # live
         /\ live' = call.r.s
         /\ Recording(<<LifecycleRecorded(IF call.r.ok THEN call.kind ELSE "Expired", now)>>)
    /\ UNCHANGED <<now, opts, policies>>

\* set_clock, forward or back, and register_policy, which replaces what the
\* id named.
SetClock ==
    /\ now' \in 1 .. MaxNow
    /\ UNCHANGED <<opts, policies, live, record>>

RegisterPolicy ==
    /\ \E p \in Definitions : policies' = (p.policy_id :> p) @@ policies
    /\ UNCHANGED <<now, opts, live, record>>

Redeploy ==
    /\ opts' \in Deployments
    /\ UNCHANGED <<now, policies, live, record>>

EmbedderInit ==
    /\ now = 1 /\ opts \in Deployments
    /\ policies = DEFAULT_POLICY_ID :> DefaultPolicy
    /\ live = NoLive /\ record = NoRecord

EmbedderNext ==
    \/ Begin \/ SubmitPhases \/ SubmitStep \/ Tick \/ Observe \/ Pause
    \/ SetClock \/ RegisterPolicy \/ Redeploy

-----------------------------------------------------------------------------

\* What a session that ended still says.
Observable(s) ==
    IF IsTerminal(s)
    THEN [state |-> s.state, mode_state |-> s.mode_state, seen |-> s.seen_message_ids,
          counts |-> s.message_counts, mode_version |-> s.mode_version,
          policy_version |-> s.policy_version, policy |-> s.policy]
    ELSE s

\* An embedder's record rebuilds the session it serves, whichever way it
\* drove it, whatever was rejected after a due envelope was applied, and
\* whatever the deployment and the policy registry have become since
\* (step.rs, replay.rs, in_process.rs check_replay).
EmbedderRebuilds == live # NoLive => Observable(Rebuilt(record)) = Observable(live)

\* An embedder that calls `step` and one that drives the phases, as the
\* server's kernel does, cannot drift: for every envelope they leave the
\* session the same (the module comment of step.rs).
DriversAgree ==
    live # NoLive =>
        \A env \in Submissions : Step(live, env, now).s = Phases(live, env, now).s

\* A library embedder is as well served as the server is (step.rs, replay.rs):
\* its record rebuilds its session and its two ways of driving one agree.
EmbedderFaithful == EmbedderRebuilds /\ DriversAgree
=============================================================================
