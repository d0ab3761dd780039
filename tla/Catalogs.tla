------------------------------ MODULE Catalogs ------------------------------
(***************************************************************************)
(* The two catalogues a runtime serves, modes and policies, changed while  *)
(* sessions bound to their entries run, and rebuilt from scratch by every  *)
(* restart: a registration made by RPC is in memory only, a policies       *)
(* directory is read again, and each recovered session resolves its policy *)
(* by name unless a checkpoint carries the definition.                     *)
(*                                                                         *)
(* A session id is started once; reuse of an id and every other kernel     *)
(* step are the subject of Kernel.  A log is a record                      *)
(*   start    the SessionStart request, or NoStart once compacted away;    *)
(*   version  the mode_version bound at acceptance;                        *)
(*   entries  the accepted messages;                                       *)
(*   ckpt     NoCkpt, or the session a checkpoint holds and the number of  *)
(*            entries before it.                                           *)
(***************************************************************************)
EXTENDS PolicyRegistry, DecisionMode, ExtensionModes

CONSTANTS
    ReservedNames,    \* the names under macp.mode.
    Sessions,         \* session ids
    Requests,         \* the [mode, policy, version, canonical] of a SessionStart
    Envelopes,        \* the messages participants send
    Documents,        \* the policy documents offered over RPC, and as candidates
    Descriptors,      \* the extension descriptors offered
    TargetNames,      \* the names PromoteMode is asked for
    Dirs,             \* the contents the policies directory may have
    CompactTerminalLogs,
    ChannelCapacity,  \* slots of a change channel
    MaxEntries,       \* bound on the accepted messages of a session
    MaxChanges,       \* bound on registry changes
    MaxRestarts,      \* bound on restarts
    MaxEdits          \* bound on edits of the directory

\* SessionStart names its participants.
ASSUME RosterAssumption == IsFiniteSet(Participants) /\ Participants # {}

\* A request is what SessionStart reads, nothing less.
ASSUME RequestsAssumption ==
    \A req \in Requests : DOMAIN req = {"mode", "policy", "version", "canonical"}

\* A document is parsed JSON, and a directory a list of documents.
ASSUME DocumentsAssumption ==
    /\ \A p \in Documents : WellTyped(p)
    /\ \A files \in Dirs : files \in Seq(Range(files)) /\ \A p \in Range(files) : WellTyped(p)

VARIABLES
    up,         \* the process runs
    readOnly,   \* MACP_POLICIES_DIR is set: policies come from files alone
    dir,        \* the policy files, in name order
    modes, policies,   \* the registries
    sessions,   \* id -> session in memory
    log,        \* id -> durable log
    bound,      \* id -> the mode, policy, mode_version and strictness it was accepted
                \* under, the handlers that took its messages since (a history variable)
    unsent,     \* changes made whose notification is not sent yet
    watch,      \* the WatchPolicies stream
    answer,     \* what the last WhatIfReplay answered
    changes, restarts, edits   \* counters behind the bounds

registries == <<modes, policies, unsent, changes>>
store == <<log, bound>>
vars == <<up, readOnly, dir, modes, policies, sessions, log, bound, unsent, watch, answer,
          changes, restarts, edits>>

NoStart == [mode |-> "none"]
NoCkpt == [at |-> 0]
NoAnswer == [verdict |-> "none"]
Closed == [state |-> "closed", seen |-> <<>>, pending |-> 0]

-----------------------------------------------------------------------------
(* The mode registry (crates/macp-modes/src/mode_registry.rs): a function  *)
(* from mode names to registrations                                        *)
(*   impl             the handler its factory creates, a name and the      *)
(*                    message types a passthrough takes;                   *)
(*   version          the mode_version of its descriptor;                  *)
(*   standards_track, builtin, strict                                      *)
(* Schemas and conformance catalogues are carried unread and left out.     *)

StandardNames == {"decision", "proposal", "task", "handoff", "quorum"}

Handler(name, types) == [name |-> name, types |-> types]
Unknown == Handler("unknown", {})

\* insert_builtin: each starts strictly, multi_round too.
Builtin(name, standard) ==
    [impl |-> Handler(name, {}), version |-> "1.0.0", standards_track |-> standard,
     builtin |-> TRUE, strict |-> TRUE]

\* build_default: five standards-track modes and one built-in extension.
BuiltinModes ==
    Put([n \in StandardNames |-> Builtin(n, TRUE)], "multi_round", Builtin("multi_round", FALSE))

\* validate_extension_descriptor.  Passthrough resolves on Commitment only, so
\* no other terminal type is admitted.
DescriptorErrors(d) ==
    \/ d.mode = "" \/ d.mode \in ReservedNames
    \/ d.message_types = {} \/ d.version = ""
    \/ d.terminal # {"Commitment"} \/ ~(d.terminal \subseteq d.message_types)

RegisterExtensionRefused(reg, d) == DescriptorErrors(d) \/ d.mode \in DOMAIN reg

RegisterExtension(reg, d) ==
    Put(reg, d.mode,
        [impl |-> Handler("passthrough", d.message_types \ {"SessionStart"}),
         version |-> d.version, standards_track |-> FALSE, builtin |-> FALSE, strict |-> FALSE])

UnregisterExtensionRefused(reg, name) ==
    name \notin DOMAIN reg \/ reg[name].builtin \/ reg[name].standards_track

Without(reg, name) == [n \in DOMAIN reg \ {name} |-> reg[n]]

UnregisterExtension(reg, name) == Without(reg, name)

\* promote_mode, `new` the target name (the name itself when none is given).
PromoteRefused(reg, name, new) ==
    \/ name \notin DOMAIN reg
    \/ reg[name].standards_track
    \/ new # name /\ new \in ReservedNames \cup DOMAIN reg
    \/ new = ""

Promote(reg, name, new) ==
    Put(Without(reg, name), new, [reg[name] EXCEPT !.standards_track = TRUE, !.strict = TRUE])

GetMode(reg, name) == IF name \in DOMAIN reg THEN reg[name].impl ELSE Unknown

RequiresStrictSessionStart(reg, name) == name \in DOMAIN reg /\ reg[name].strict

GetModeVersion(reg, name) == IF name \in DOMAIN reg THEN reg[name].version ELSE ""

-----------------------------------------------------------------------------
(* A session's life under whatever its mode's name stands for.             *)

OnSessionStartOf(impl) ==
    CASE impl.name = "decision"    -> DecisionOnSessionStart
      [] impl.name = "multi_round" -> MultiRoundOnSessionStart
      [] OTHER                     -> PersistState(PassthroughEmpty)

\* A handler refuses a mode state another handler wrote.
Decodes(impl, st) ==
    CASE impl.name = "decision"    -> DOMAIN st = DOMAIN DecisionEmpty
      [] impl.name = "multi_round" -> DOMAIN st = DOMAIN MultiRoundEmpty
      [] OTHER                     -> TRUE

OnMessageOf(impl, s, env) ==
    IF \/ ~Decodes(impl, s.mode_state)
       \/ env.type = "Commitment" /\ env.version # s.mode_version
    THEN Rejected
    ELSE CASE impl.name = "decision" ->
                IF DecisionAuthorizeSender(s, env) THEN DecisionOnMessage(s, env) ELSE Rejected
           [] impl.name = "multi_round" ->
                IF ExtensionAuthorizeSender(s, env) THEN MultiRoundOnMessage(s, env) ELSE Rejected
           [] impl.name = "passthrough" ->
                IF ExtensionAuthorizeSender(s, env) THEN PassthroughOnMessage(impl.types, s, env)
                ELSE Rejected
           [] OTHER -> Rejected

\* Session::builder; an empty request binds the id of what it resolved to.
NewSession(req, version, policy, impl) ==
    ApplyModeResponse(
        [mode |-> req.mode, mode_version |-> version, policy |-> policy,
         policy_version |-> IF req.policy = "" /\ policy # NoPolicy THEN policy.policy_id
                            ELSE req.policy,
         semantics_rev |-> 4, mode_state |-> PassthroughEmpty, state |-> "Open"],
        OnSessionStartOf(impl))

\* validate_canonical_start.
Canonical(req) == req.canonical /\ req.version # ""

\* The registry says now whether the canonical contract binds a start.
StrictlyRefused(reg, req) == RequiresStrictSessionStart(reg, req.mode) /\ ~Canonical(req)

\* validate_session_start: the canonical contract, and the version binding.
StartValid(req) ==
    /\ ~StrictlyRefused(modes, req)
    /\ req.version \in {"", GetModeVersion(modes, req.mode)}

StartSession ==
    /\ up
    /\ \E id \in Sessions \ DOMAIN log, req \in Requests :
        LET policy  == Resolve(policies, req.policy)
            version == GetModeVersion(modes, req.mode)
            s       == NewSession(req, version, policy, GetMode(modes, req.mode))
        IN  /\ req.mode \in DOMAIN modes
            /\ StartValid(req)
            /\ policy # NoPolicy
            /\ policy.mode \in {"*", req.mode}
            /\ sessions' = Put(sessions, id, s)
            /\ bound' = Put(bound, id, [mode |-> req.mode, policy |-> policy, mode_version |-> version,
                                        handlers |-> {GetMode(modes, req.mode)},
                                        strict |-> RequiresStrictSessionStart(modes, req.mode)])
            /\ log' = Put(log, id, [start |-> req, version |-> version, entries |-> <<>>,
                                    ckpt |-> NoCkpt])
    /\ UNCHANGED <<up, readOnly, dir, registries, watch, answer, restarts, edits>>

CkptOf(s, entries) == [at |-> Len(entries) + 1, session |-> s]

\* Terminal compaction keeps one checkpoint; without it a checkpoint is forced.
LogAfter(l, s, env) ==
    LET entries == Append(l.entries, env)
    IN  IF s.state = "Open" THEN [l EXCEPT !.entries = entries]
        ELSE IF CompactTerminalLogs
        THEN [l EXCEPT !.start = NoStart, !.entries = <<>>, !.ckpt = CkptOf(s, <<>>)]
        ELSE [l EXCEPT !.entries = entries, !.ckpt = CkptOf(s, entries)]

HandledBy(b, impl) == [b EXCEPT !.handlers = @ \cup {impl}]

\* The kernel resolves the mode by name for every message.
Message ==
    /\ up
    /\ \E id \in DOMAIN sessions, env \in Envelopes :
        LET impl == GetMode(modes, sessions[id].mode)
            resp == OnMessageOf(impl, sessions[id], env)
            s    == ApplyModeResponse(sessions[id], resp)
        IN  /\ sessions[id].state = "Open"
            /\ Len(log[id].entries) < MaxEntries
            /\ resp # Rejected
            /\ sessions' = [sessions EXCEPT ![id] = s]
            /\ log' = [log EXCEPT ![id] = LogAfter(@, s, env)]
            /\ bound' = [bound EXCEPT ![id] = HandledBy(@, impl)]
    /\ UNCHANGED <<up, readOnly, dir, registries, watch, answer, restarts, edits>>

\* The periodic checkpoint of an open session.
Checkpoint ==
    /\ up
    /\ \E id \in DOMAIN sessions :
        /\ sessions[id].state = "Open"
        /\ log[id].ckpt = NoCkpt
        /\ log' = [log EXCEPT ![id].ckpt = CkptOf(sessions[id], log[id].entries)]
    /\ UNCHANGED <<up, readOnly, dir, registries, sessions, bound, watch, answer, restarts, edits>>

-----------------------------------------------------------------------------
(* The registry RPCs.  The entry is changed under the lock; the            *)
(* notification is sent after the lock is released.                        *)

Changing == up /\ changes < MaxChanges /\ changes' = changes + 1

RegisterPolicy ==
    /\ Changing
    /\ ~readOnly
    /\ \E p \in Documents :
        /\ RegisterErrors(policies, p) = {}
        /\ policies' = Register(policies, p)
    /\ unsent' = unsent + 1
    /\ UNCHANGED <<up, readOnly, dir, modes, sessions, store, watch, answer, restarts, edits>>

UnregisterPolicy ==
    /\ Changing
    /\ ~readOnly
    /\ \E id \in DOMAIN policies :
        /\ UnregisterErrors(policies, id) = {}
        /\ policies' = Unregister(policies, id)
    /\ unsent' = unsent + 1
    /\ UNCHANGED <<up, readOnly, dir, modes, sessions, store, watch, answer, restarts, edits>>

RegisterExtMode ==
    /\ Changing
    /\ \E d \in Descriptors :
        /\ ~RegisterExtensionRefused(modes, d)
        /\ modes' = RegisterExtension(modes, d)
    /\ UNCHANGED <<up, readOnly, dir, policies, sessions, store, unsent, watch, answer,
                   restarts, edits>>

UnregisterExtMode ==
    /\ Changing
    /\ \E name \in DOMAIN modes :
        /\ ~UnregisterExtensionRefused(modes, name)
        /\ modes' = UnregisterExtension(modes, name)
    /\ UNCHANGED <<up, readOnly, dir, policies, sessions, store, unsent, watch, answer,
                   restarts, edits>>

PromoteMode ==
    /\ Changing
    /\ \E name \in DOMAIN modes, new \in TargetNames \cup DOMAIN modes :
        /\ ~PromoteRefused(modes, name, new)
        /\ modes' = Promote(modes, name, new)
    /\ UNCHANGED <<up, readOnly, dir, policies, sessions, store, unsent, watch, answer,
                   restarts, edits>>

\* change_tx.send(()): a receiver that exists gets it, or falls behind.
SendChange ==
    /\ up
    /\ unsent > 0
    /\ unsent' = unsent - 1
    /\ watch' = IF watch.state = "closed" THEN watch
                ELSE [watch EXCEPT !.pending = @ + 1]
    /\ UNCHANGED <<up, readOnly, dir, modes, policies, sessions, store, answer, changes, restarts, edits>>

-----------------------------------------------------------------------------
(* WatchPolicies.                                                          *)

WatchStep(w) ==
    /\ up
    /\ watch' = w
    /\ UNCHANGED <<up, readOnly, dir, registries, sessions, store, answer, restarts, edits>>

\* Mutant: the first listing is taken before the receiver exists.
WatchPoliciesListFirst ==
    \/ watch.state = "closed" /\ watch.seen = <<>> /\ WatchStep([watch EXCEPT !.seen = policies])
    \/ watch.state = "closed" /\ watch.seen # <<>> /\ WatchStep([watch EXCEPT !.state = "live"])

\* The handler subscribes; the stream lists when it is first polled.
WatchPolicies ==
    \/ watch.state = "closed" /\ WatchStep([Closed EXCEPT !.state = "subscribed"])
    \/ watch.state = "subscribed" /\ WatchStep([watch EXCEPT !.state = "live", !.seen = policies])

\* rx.recv(): a listing per notification; Lagged ends the stream.
WatchNext ==
    /\ watch.state = "live"
    /\ watch.pending > 0
    /\ IF watch.pending > ChannelCapacity THEN WatchStep(Closed)
       ELSE WatchStep([watch EXCEPT !.pending = @ - 1, !.seen = policies])

-----------------------------------------------------------------------------
(* Recovery.                                                               *)

Unrecoverable == [state |-> "Unrecoverable"]

\* replay_entry, over the entries from position n on.  What was recorded
\* after the session left Open consumes a dedup slot and nothing else.
ReplayEntries(s, impl, entries, n) ==
    FoldLeft(LAMBDA acc, env :
                 IF acc = Unrecoverable \/ acc.state # "Open" THEN acc
                 ELSE LET resp == OnMessageOf(impl, acc, env)
                      IN  IF resp = Rejected THEN Unrecoverable ELSE ApplyModeResponse(acc, resp),
             s, SubSeq(entries, n, Len(entries)))

\* Mutant: an empty request is left unresolved.
ReplayFromStartEmpty(l, ms, ps) ==
    IF l.start = NoStart \/ l.start.mode \notin DOMAIN ms THEN Unrecoverable
    ELSE LET impl == GetMode(ms, l.start.mode)
             policy == IF l.start.policy = "" THEN NoPolicy ELSE Resolve(ps, l.start.policy)
         IN  ReplayEntries(NewSession(l.start, l.version, policy, impl), impl, l.entries, 1)

\* Everything recorded but the policy, which the name resolves to again.
ReplayFromStart(l, ms, ps) ==
    IF \/ l.start = NoStart
       \/ l.start.mode \notin DOMAIN ms
       \/ StrictlyRefused(ms, l.start)
    THEN Unrecoverable
    ELSE LET impl == GetMode(ms, l.start.mode)
         IN  ReplayEntries(NewSession(l.start, l.version, Resolve(ps, l.start.policy), impl),
                           impl, l.entries, 1)

\* A checkpoint that names a policy and carries none is not trusted.
CkptUsable(l) ==
    /\ l.ckpt # NoCkpt
    /\ ~(l.ckpt.session.policy_version # "" /\ l.ckpt.session.policy = NoPolicy)

ReplaySession(l, ms, ps) ==
    IF ~CkptUsable(l) THEN ReplayFromStart(l, ms, ps)
    ELSE IF l.ckpt.session.mode \notin DOMAIN ms THEN Unrecoverable
    ELSE ReplayEntries(l.ckpt.session, GetMode(ms, l.ckpt.session.mode), l.entries, l.ckpt.at)

Crash ==
    /\ up
    /\ restarts < MaxRestarts
    /\ up' = FALSE
    /\ sessions' = <<>>
    /\ unsent' = 0
    /\ watch' = Closed
    /\ UNCHANGED <<readOnly, dir, modes, policies, store, answer, changes, restarts, edits>>

\* main: the directory before the sessions; a refused file is fatal; a session
\* that does not replay is skipped.
Restart ==
    LET loaded    == LoadFromDir(IF readOnly THEN dir ELSE <<>>)
        recovered == [id \in DOMAIN log |-> ReplaySession(log[id], BuiltinModes, loaded.policies)]
    IN  /\ ~up
        /\ ~loaded.failed
        /\ up' = TRUE
        /\ restarts' = restarts + 1
        /\ modes' = BuiltinModes
        /\ policies' = loaded.policies
        /\ sessions' = [id \in {x \in DOMAIN log : recovered[x] # Unrecoverable} |-> recovered[id]]
        /\ bound' = [id \in DOMAIN bound |->
                        HandledBy(bound[id], GetMode(BuiltinModes, bound[id].mode))]
        /\ UNCHANGED <<readOnly, dir, log, unsent, watch, answer, changes, edits>>

\* The operator changes the files; a running process does not look at them.
EditDir ==
    /\ readOnly
    /\ edits < MaxEdits
    /\ edits' = edits + 1
    /\ \E d \in Dirs \ {dir} : dir' = d
    /\ UNCHANGED <<up, readOnly, registries, sessions, store, watch, answer, restarts>>

-----------------------------------------------------------------------------
(* WhatIfReplay.                                                           *)

\* Mutant: always what the registry holds under the name now.
RecordedPolicyByName(s) == Resolve(policies, s.policy_version)

\* The definition the session bound; the name when it holds none.
RecordedPolicy(s) == IF s.policy # NoPolicy THEN s.policy ELSE Resolve(policies, s.policy_version)

\* what_if_over_log: the start must pass the contract its mode has now, and
\* the recorded half end in the stored state.
WhatIfVerdict(id, candidate) ==
    LET s    == sessions[id]
        l    == log[id]
        impl == GetMode(modes, s.mode)
        recorded == ReplayEntries(NewSession(l.start, l.version, RecordedPolicy(s), impl),
                                  impl, l.entries, 1)
    IN  IF ValidateCandidate(candidate) # {} \/ candidate.mode \notin {"*", s.mode}
        THEN "invalid candidate"
        ELSE IF l.start = NoStart THEN "compacted"
        ELSE IF \/ s.mode \notin DOMAIN modes
                \/ StrictlyRefused(modes, l.start)
                \/ recorded = Unrecoverable
                \/ recorded.state # s.state
        THEN "integrity"
        ELSE "report"

WhatIfReplay ==
    /\ up
    /\ \E id \in DOMAIN sessions, candidate \in Documents :
        answer' = [verdict |-> WhatIfVerdict(id, candidate), session |-> sessions[id],
                   served |-> bound[id].handlers = {GetMode(modes, sessions[id].mode)},
                   tightened |-> RequiresStrictSessionStart(modes, sessions[id].mode)
                                    /\ ~bound[id].strict]
    /\ UNCHANGED <<up, readOnly, dir, registries, sessions, store, watch, restarts, edits>>

-----------------------------------------------------------------------------
Init ==
    /\ up = FALSE
    /\ readOnly \in BOOLEAN
    /\ dir \in IF readOnly THEN Dirs ELSE {<<>>}
    /\ modes = BuiltinModes
    /\ policies = BuiltinPolicies
    /\ sessions = <<>> /\ log = <<>> /\ bound = <<>>
    /\ unsent = 0
    /\ watch = Closed
    /\ answer = NoAnswer
    /\ changes = 0 /\ restarts = 0 /\ edits = 0

Next ==
    \/ StartSession \/ Message \/ Checkpoint
    \/ RegisterPolicy \/ UnregisterPolicy
    \/ RegisterExtMode \/ UnregisterExtMode \/ PromoteMode
    \/ SendChange \/ WatchPolicies \/ WatchNext
    \/ Crash \/ Restart \/ EditDir
    \/ WhatIfReplay

Spec == Init /\ [][Next]_vars

-----------------------------------------------------------------------------
(* Properties.                                                             *)

\* Every policy a registry admits means something in each mode it may be
\* bound to: the evaluator parses it, no round of REJECT ballots passes under
\* it, its quorum bar is none that EffectiveThreshold calls Unsatisfiable (a
\* count above the roster is admitted, docs/policy.md), and somebody can
\* commit (validate_definition against evaluate_*_commitment_outcome).
Meaningful(m, p) ==
    LET r == ParsedRules(m, p) IN
    /\ Unevaluable(m, p) = {}
    /\ \E sender \in {Initiator} \cup Participants \cup r["commitment.designated_roles"] :
           AuthorityAllows(r["commitment.authority"], r["commitment.designated_roles"], sender)
    /\ m = "decision" =>
           VotingResult(r, [proposal \in {"p1"} |-> [v \in Participants |-> "REJECT"]],
                        Participants) # "Passed"
    /\ m = "quorum" =>
           EffectiveThreshold(r["threshold.type"], r["threshold.value"],
                              Cardinality(Participants)).kind # "Unsatisfiable"

AdmittedMeaningful ==
    \A id \in DOMAIN policies :
        \A m \in TargetModes(policies[id].mode) : Meaningful(m, policies[id])

\* The definition a recovery can find again: a built-in one, one of an
\* unedited directory, one a checkpoint carries.
Durable(id) ==
    \/ bound[id].policy.policy_id \in DOMAIN BuiltinPolicies
    \/ readOnly /\ edits = 0
    \/ log[id].ckpt # NoCkpt /\ log[id].ckpt.session.policy = bound[id].policy

\* A session in memory is governed by the definition and the mode version it
\* bound at its start, through registry changes and recoveries, unless the
\* definition was kept in memory alone (process_session_start, replay).
GovernanceKept ==
    \A id \in DOMAIN sessions :
        /\ Durable(id) => sessions[id].policy = bound[id].policy
        /\ sessions[id].mode_version = bound[id].mode_version

\* What the documentation says of every session, whatever the registry and
\* the process went through since its start.
PolicyForLife == \A id \in DOMAIN sessions : sessions[id].policy = bound[id].policy

\* No passthrough handler ever answers under a name of the reserved
\* namespace, by registration, by promotion or by both (register_extension,
\* promote_mode).
NoMasquerade == \A n \in DOMAIN modes : n \in ReservedNames => modes[n].builtin

\* A policy watcher with nothing left to read has seen the registry as it is:
\* no change falls between its subscription and its first listing, and none
\* is swallowed by an overflowing channel without the stream ending.
WatcherFresh ==
    up /\ watch.state = "live" /\ watch.pending = 0 /\ unsent = 0 => watch.seen = policies

\* A what-if replay of a session whose every message was taken by the handler
\* its mode's name stands for now reports an integrity failure only for a
\* session whose bound definition the process no longer holds, or whose mode
\* was promoted to the strict start contract after the session was accepted
\* without it (what_if_over_log, recorded_policy, replay_start).
WhatIfAgrees ==
    answer.verdict = "integrity" /\ answer.served =>
        answer.session.policy = NoPolicy \/ answer.tightened

\* The dry run and the startup agree: it reports no refusal exactly when the
\* directory would load (validate_dir against load_from_dir).
DryRunAgrees ==
    (\A i \in DOMAIN ValidateDir(dir) : ValidateDir(dir)[i]) <=> ~LoadFromDir(dir).failed

\* What the registries admit can be served: every policy means something in
\* each of its modes, no handler answers under a reserved name, and the dry
\* run of a directory foretells the startup.
AdmissionsSound == AdmittedMeaningful /\ NoMasquerade /\ DryRunAgrees

\* A session is governed, and asked about, under the definition it bound,
\* whatever the registries have become since.
BoundForLife == GovernanceKept /\ WhatIfAgrees
=============================================================================
