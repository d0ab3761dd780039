# macp-runtime: TLA+ specifications

`macp-runtime` is a Rust server that coordinates sessions between agents. A
client opens a session in a *mode* (decision, handoff, ...) under a *policy*,
the participants send envelopes, the mode decides what each one means, and a
commitment resolves the session. The runtime appends everything it accepts to a
durable log, serves it to subscribers with stable ordinals, expires, suspends
and cancels sessions, signs a receipt of the decision, and after a crash
rebuilds every session from its log.

The modules here model the runtime from the wire to the disk: the gates on each
binding, the JSON codec, the registries, the kernel, every mode with its policy
rules, the storage backends, recovery, streams, receipts and the life of the
process. TLC checks them on small instances. TLAPS proves most of the safety
properties of every layer, from the gates to the disk, for every value of the
constants (section 4).

## 1. Inventory

| Part | Source | State | Operations | Talks to |
|---|---|---|---|---|
| Session core | `crates/macp-core/src/session.rs` | one session: state, deadline, dedup slots, suspension bookkeeping, mode state | suspend, resume, cancel, expire, apply a mode response | called by the kernel and by replay |
| Acceptance steps | `crates/macp-modes/src/step.rs` | none | prechecks, admit, dispatch, commit, next synthetic envelope, SessionStart validation | session core, mode |
| Modes | `crates/macp-modes/src/mode/*.rs` | mode state inside the session | on start, authorise sender, on message, due synthetic envelope | called by the steps; ask the evaluator |
| Policy rules and evaluator | `crates/macp-core/src/policy/`, `crates/macp-policy/src/evaluator.rs` | none | verdict on a Commitment | called by the modes |
| Policy and mode registries | `crates/macp-policy/src/registry.rs`, `crates/macp-modes/src/mode_registry.rs` | definitions by name, change channels | register, unregister, promote, resolve, load and validate a directory | kernel, recovery, watches |
| Kernel | `src/runtime.rs`, `src/main.rs` | in-memory logs, maintenance task | start, message, get, cancel, suspend, resume, cleanup, sweep, evict, compaction, checkpoints, disk GC | everything else |
| Session registry | `crates/macp-storage/src/registry.rs` | the map of sessions, one mutex each | reserve, roll back, list, evict | kernel, lists and watches |
| Replay, recovery, what-if | `src/replay.rs`, `src/recovery.rs`, `crates/macp-modes/src/{replay,what_if}.rs` | the session being rebuilt | replay from checkpoint or start, recover all, replay under other rules | storage, modes, registries |
| Storage | `crates/macp-storage/src/` | log, snapshot, receipt and anchor per session, in files, RocksDB, Redis or memory | append, replace, save, list, delete, migrate | kernel, recovery |
| Streams | `src/stream_bus.rs`, `src/server.rs`, `src/http/sse.rs` | a broadcast channel per session, a cursor per subscriber, the lifecycle bus | subscribe, publish, replay, number, lag, end | log store, kernel |
| Lists and watches | `src/pagination.rs`, `src/watch_sync.rs`, `src/server.rs` | page tokens, the set already announced | page, initial sync, live events | session registry |
| Ingress | `src/server.rs`, `src/http/`, `crates/macp-auth/` | resolver chain, JWKS cache, rate windows, engine | authenticate, authorise, charge, ask the engine, dispatch | kernel |
| JSON codec | `src/http/json/` | none | decode, encode, canonical bytes | HTTP binding |
| Receipts | `src/receipts.rs`, `crates/macp-core/src/receipt/`, `commitment_hash.rs` | keys, cached and stored receipts | issue once, publish keys, verify | kernel, storage |
| Process | `src/main.rs`, `src/shutdown.rs`, `src/http/server.rs` | configuration, permits, signals | check, start, accept, drain, exit | all |
| Trace anchors | `src/telemetry/anchor.rs`, `src/runtime.rs` | cache and stored record per session | put, load, forget, prune, sweep | storage |
| Library embedder | `crates/macp-modes`, `crates/macp-conform/src/in_process.rs` | a session and its record | step, advance, record, replay | steps, modes |

What is hard here, and what correctness means for it:

- **The commit point.** A handler appends, then updates memory, then saves a
  snapshot, then compacts or checkpoints, then publishes. A crash, a storage
  error or a dropped request may fall between any two. The log must always
  replay to the session that was being served, and what a client was told is
  accepted must stay accepted, once, under the same ordinal.
- **Time.** Each handler reads the wall clock itself; suspension banks time; the
  handoff mode accepts implicitly at a deadline that is in the past when it is
  recorded. No late message may enter history.
- **Maintenance against traffic.** The cleanup, sweep, eviction and GC passes
  visit sessions with a clock and a list they read earlier.
- **The registry.** Starts reserve, fail and roll back while others wait for
  their mutex; lists and watches read a map that changes.
- **Bindings to names.** Policies and modes are found again by name after a
  restart, while the catalogues change.
- **What a commitment rests on.** Tallies, thresholds, vetoes and withdrawals in
  any order of messages.
- **Storage.** Four backends with different atomicity; torn writes.
- **Streams.** The log snapshot and the receiver are taken at different moments
  and without the session's mutex; the receiver can be overrun.
- **Entrances.** Four ways in, each with its own order of checks.

`PROJECT.json` lists each hazard with its line and the properties that cover it.

## 2. Modules

| Module | Models |
|---|---|
| `Session` | `session.rs`: pure operators on a session record |
| `Replay` | `step.rs`, both `replay.rs`, `log_store.rs`; the mode is a set of operator CONSTANTS; what is asked of one: `ModeContract`, `OwnIds`, `OneAtATime` |
| `Kernel` | `runtime.rs`, `recovery.rs`, the maintenance task; one session id |
| `KernelProps`, `MCKernel` | properties, fairness and instance of the kernel, with the handoff mode |
| `KernelProofs` | theorems about the kernel |
| `ModesProofs` | theorems about the modes, and that the handoff mode meets what the kernel's theorems ask of a mode |
| `CatalogProofs`, `RegistryProofs`, `StreamProofs` | theorems about `Catalogs`; `Registry`; `Stream` |
| `StorageProofs` | theorems about `FileLog`, `Backends`, `Migration`, `Lifecycle` and `Anchors` |
| `GatewayProofs` | theorems about `Jwks`, `RateLimit`, `Ingress` and `Receipts` |
| `FoldProofs` | induction over a fold, instantiated where a proof needs it |
| `ModeCommon` | what the modes share: roster, authority, the commitment's checks, the answer (`mode/util.rs` is in `Handoff`, the policy gate in `Evaluator`) |
| `Handoff`, `DecisionMode`, `ProposalMode`, `TaskMode`, `QuorumMode`, `ExtensionModes` | one mode each; the last has multi-round and passthrough |
| `PolicyRules`, `Evaluator` | rule schemas and defaults, thresholds; the verdict per mode |
| `Modes` | one session of any mode under any policy |
| `WhatIf` | extends `Modes`: its history, replayed under candidate rules |
| `Embedder` | a session driven through the library, its record, a changing deployment |
| `PolicyRegistry`, `Catalogs` | the policy catalogue; the mode catalogue, and sessions bound to both across restarts |
| `Registry` | several ids: starts, rollback, limit, eviction, GC, lists, watches, receipts |
| `Stream` | the bus, the cursor, both streaming bindings |
| `FileLog`, `DurableLog` | the log file in bytes-level chunks; the abstract log it implements |
| `Backends` | file, RocksDB, Redis and memory for one session, behind the kernel's calls |
| `Migration`, `Lifecycle`, `Anchors` | the legacy migration; the process; trace anchors |
| `RateLimit`, `Jwks`, `Ingress` | rate windows; token keys; the stages of a call on each binding and the codes errors map to |
| `Receipts` | keys, building and verifying receipts; the canonical commitment |
| `JsonCodec` | JSON decoding and encoding |
| `MCModes`, `MCCatalogs`, `MCRegistry`, `MCStorage`, `MCGateway` | instances |

`MCStorage`, `MCGateway` and `MCModes` each put several independent components
in one run: the variable `part` says which of them a behaviour is about, and the
others rest in a fixed initial state.

**Kernel.** `sess` is the registry's session, `memlog` the in-memory log, `log`
the durable one, `snap` the snapshot, `maint` the maintenance task with the
clock it read, `now` the wall clock. A handler holds the session's mutex, so
`op` is the one handler in flight and its next step: *append*, *commit*
(in-memory log, session, snapshot), *finish* (compaction or checkpoint,
publication, answer). Between steps the clock may move, the process may crash or
shut down, and (where enabled) the request may be dropped. `replayed`, `hist` and
`acked` are history variables; `dur`, the last element of `replayed`, is what
recovery would bring back. Recovery itself is modelled step by step and is not
assumed to agree with `dur`.

**Modes.** A session is the record the mode sees; each handler is an operator
`Handle...(session, env)` giving the response or `Rejected`, in the order of the
checks in `on_message`. The policy is a record of dotted rule paths, so a
default, an inert rule and a rule of another schema are told apart. `Modes` has
one action, an envelope of any participant; the initial state picks mode, policy
and semantics revision.

**Registry.** A session is named by the start that made it, so an id may be
started again. Each start is a process with the awaits of
`process_session_start`; the maintenance task scans and then acts; the client is
a lister, a watcher or two readers of a receipt, chosen by the scenario.

**Catalogs.** Registries live in memory and are rebuilt by every restart; a
policies directory may be edited while the process is down. `bound` remembers
what each session was started with, and which handlers answered for it: a mode
is looked up by name for every message, so a session may be served by another
one than replays it, and a what-if is held to agree where the handler of now
answered for all of it. A handler carries the message types its descriptor names,
so an extension registered again may serve other ones. Replay checks a start by
the strictness the registry has now: a session that an extension accepted
without the canonical contract fails that check once its mode was promoted
(`tightened` in a what-if's answer).

**Backends.** A call is the sequence of writes the backend makes, each of them
followed by a possible crash; `stable` is what a power loss leaves.

**Ingress.** The handlers of each binding are lists of stages in the order of
the code; a call may be interrupted between two of them. A request is a record
with its credential, its envelope and the faults it has (`WellFormed`).

**RateLimit.** A request reads the clock, waits for the mutex at most `MaxWait`
and is then checked against its sender's deque. `granted` remembers every
request that passed, in the order of the mutex, so the bound is stated of any
two that are a whole limit apart.

**FileLog.** The file is a sequence of chunks, one per write; a chunk is whole,
lacks its newline (*bare*), is cut inside the JSON (*head*) or inside a character
of several bytes (*split*). `LoadLog` skips a line that does not parse; a split
chunk fails the load of the whole file (`LoadFails`), and recovery then skips the
session.

**Stream.** The n-th accepted envelope is the number n, both id and ordinal.
`op` is what the handler that holds the mutex has left to do; `sub` is the
subscriber's cursor with its receiver; `client` is what the client holds across
connections.

## 3. Runs

| Run | Question | Bounds |
|---|---|---|
| `kernel_crash` | Does recovery bring back what was served, whatever fails? | log of 6 entries, checkpoints every 3, compaction, eviction, refused appends, failing snapshots, one crash or shutdown |
| `kernel_time` | Is everything in time and in order? | every handoff message, clock up to 5, TTL 2, implicit accept after 1, one suspension capped at 1 |
| `kernel_live` | Does an overdue session expire and a due accept settle? | refused appends and a crash; nobody has to speak |
| `kernel_timeout` | What do dropped requests leave visible? | drops at every await, retries with the same id |
| `stream` | Is everything published delivered once, in order and numbered, and does the stream end when it should? | both bindings, 3 envelopes, a channel of 2, two subscriptions, a restart, a dropped handler |
| `modes` | Do outcomes rest on what was said? Do what-if and embedders tell the truth? | 3 participants, policies that differ in each rule that matters, histories of 6 events, an embedder with 4 events, a clock of 3 that may step back, two deployments |
| `catalogs` | Can what is admitted be served, and does a session keep its rules? | 1 session of 2 messages, 2 registry changes, 2 restarts, 1 edit of the directory, a channel of 1 |
| `registry` | Are starts, eviction, GC, views and receipts right beside one another? | 2 ids, 3 starts of one sender, limit 1, pages of 2, a bus of 2, 2 readers |
| `storage` | Is what was acknowledged kept, and does the process end well? | file: 5 entries; backends: 2 starts, 3 revisions, 2 failures; 2 legacy sessions, 3 restarts; 2 connections; 2 starts of an anchored session, one crash |
| `gateway` | Do limits, keys, gates, receipts and JSON hold? | windows of 3 ticks, 2 keys and 1 rotation, 2 clients on 3 bindings, 2 boots with 2 signing keys, 2 respellings of a text |
| `claim_listed`, `claim_gc` | Statements of the code's comments and documents that the code does not keep (section 6) | |

Why the bounds are enough. In `kernel_crash` every fault can meet every step of
every operation, and a log of six entries holds a start, an offer, the implicit
accept, the message behind it, a checkpoint and the terminal entry. Deadlines are
small so that the clock passes TTL, accept deadline and suspension cap in either
order, and exactly at the boundary. In `stream`, three envelopes overrun a channel
of two, and two subscriptions are the fewest that resume. In `modes` three
participants are the fewest that have a majority, a dissent and an absence, and a
share that does not divide the roster. In `registry` a third start is needed for
an id that is started again while another session fills the sender's limit. Two
registry changes and a restart re-register a name, and two overrun a channel of
one, so that a watcher lags; a second restart replays what the first one wrote.
In `gateway` the widths of the codec are scaled (53-bit integers to 99, 64-bit to
200, 32-bit to 20, doubles' exponents to 6, the years a timestamp may have to
±10), so that values lie on both sides of each edge.

**Fairness.** `KernelProps` assumes weak fairness of the handler's own steps and
of recovery (tokio polls a ready task; a supervisor restarts the process), and
strong fairness of the maintenance visits and of their appends: tokio's mutex is
granted in order of arrival, and storage does not refuse every retry. `Stream`
assumes weak fairness of the handler that holds the mutex and of a subscriber
whose client reads. `Lifecycle` assumes that handlers end (the request timeout),
that the main task runs and that the drain's deadline takes effect (strong,
because the snapshot behind it waits for session mutexes, which are granted in
order of arrival); nothing of peers or of a second signal. `Anchors` assumes only
that the maintenance loop keeps running. No client ever has to send anything.

Deadlock checking is off where the system may stop: every client told its
answer, every bound of a registry or a process used up, the process exited. The
kernel's runs check it.

### Properties

Properties are conjunctions of named parts, each with its comment in the module.

- *Kernel.* `RecoveryAgrees`: whenever no handler is between append and commit,
  the log replays to the session being served. `AlwaysReplayable`: recovery never
  drops a session. `AckedSurvive`: every acknowledged id keeps its dedup slot.
  `HistoryStable`: nothing enters history twice, both logs number it by its place
  across checkpoints and compaction, none is missing, the snapshot is not ahead.
  `TerminalFinal`. `ServedConsistent`: the part that survives dropped requests.
  `ClocksSound`: the deadline is the start's plus the suspended time
  (`DeadlineBanked`), and history is in the order of its clocks (`HistoryInOrder`).
  `AcceptedInTime`: nothing late, nothing before what was due. `TimersFire`
  (liveness).
- *Stream.* `ResumedExactly`: a client gets each envelope once, in order, with its
  ordinal, and misses only what a dropped handler never published. It leaves out
  clients that read an evicted session's log (`blind`), subscribed a second time
  on an open stream (`moved`), or, of envelopes missed, named a position ahead of
  the session (`ahead`): section 6. `EndedIsComplete`, `StreamServes` (liveness).
- *Modes.* `OutcomeBacked`: a sealed outcome rests on approvals or dissents that
  count. `VetoHasExit`: a veto under `finalize_decline` leaves a decline as the
  exit, for whoever may commit, where the rules can be evaluated and the state
  decodes. `ConvergenceCurrent`: what proposal and multi-round sessions call
  converged is so now. `StatementsStand`: ballots, a quorum's verdict and declines
  are never undone. `WhatIfSound`: indices, divergences and outcomes of a what-if
  report name what happened. `EmbedderFaithful`: an embedder's record rebuilds its
  session; `step` and the phases agree.
- *Catalogues.* `AdmissionsSound`: every admitted policy means something in each
  mode it binds to, no passthrough handler has a reserved name, the dry run
  foretells the startup. `BoundForLife`: a session is governed and asked about
  under the definition it bound, where that is kept durably; a what-if reports an
  integrity failure only where that definition is gone or the start contract was
  tightened since. `WatcherFresh`.
- *Registry.* `StartsSound`: a rolled-back start leaves nothing and concurrent
  ones stay within the limit. `ViewsComplete`: pages and watch are complete and
  without repeats. `OneReceipt`: everyone who asks for a session's receipt is
  served the same one. `OnlyTerminalDropped`: no session that is not terminal
  leaves the registry. The two that the collector's race touches, and `OneReceipt`,
  are said until a start has taken an id between the collector's look at it and
  its delete (`maint.raced`); what happens then is the run `claim_gc`.
- *Storage and process.* `TearCost`: an acknowledged entry is lost only right
  behind a write that was cut short, or with the whole log where the cut was
  inside a character. `ImplementsDurableLog`: without tears the file refines
  `DurableLog`. `BackendKeeps`: acknowledged history and the first receipt.
  `MigrationComplete`. `ProcessSound`: served as configured, no permit lost,
  everything saved when drained. `ShutsDown` (liveness). `AnchorsSound`,
  `CacheDrains` (liveness).
- *Gateway.* `LimitHonoured` over every window. `KeysFollowEndpoint`: no withdrawn
  key works beyond TTL, grace and fetch time. `FetchesSpaced`. `EntrancesGuarded`:
  what enters was let in, bindings agree, strangers learn nothing.
  `ReceiptsSound`: issued receipts keep verifying, nothing else does.
  `CodecFaithful`: a message survives JSON both ways.

Each property has a mutant, a plausible bug in the code it is about, under which
TLC reports it violated (`PROJECT.json`, "mutants"). The definitions commented
"Mutant" that are not listed there break the other parts of a conjunction under
the same run.

## 4. What is proved

Every theorem holds for every value of the constants that satisfies the named
assumptions of the module; what a theorem asks beyond them is in the table.
`TypeTheorem` and `InductiveInvariant` are lemmas a reader may want, and the three
about the handoff mode discharge hypotheses of the kernel's; the others state a
property some run checks, 31 of the 40.

| Theorem | Property | Asks |
|---|---|---|
| `RecoveryTheorem`, `ReplayableTheorem`, `TerminalTheorem`, `AckedTheorem`, `BankedTheorem` | `RecoveryAgrees`, `AlwaysReplayable`, `TerminalFinal`, `AckedSurvive`, `DeadlineBanked` | `Reliance` |
| `HistoryTheorem` | `HistoryStable` | `Reliance`, `OwnIds` |
| `InTimeTheorem` | `AcceptedInTime` | `Reliance`, `OneAtATime(Kept)` |
| `ServedTheorem` | `ServedConsistent` | `Running` |
| `HandoffContract`, `HandoffOwnIds`, `HandoffOneAtATime` | the handoff mode meets `ModeContract`, `OwnIds`, `OneAtATime` | |
| `BackedTheorem`, `ExitTheorem`, `ConvergenceTheorem`, `StatementsTheorem` | `OutcomeBacked`, `VetoHasExit`, `ConvergenceCurrent`, `StatementsStand` | |
| `BoundForLifeTheorem`, `AdmissionsTheorem`, `WatcherTheorem` | `BoundForLife`, `AdmissionsSound`, `WatcherFresh` | |
| `StartsTheorem`, `DropsTheorem`, `ReceiptTheorem` | `StartsSound`, `OnlyTerminalDropped`, `OneReceipt` | |
| `ResumedTheorem`, `EndedTheorem` | `ResumedExactly`, `EndedIsComplete` | |
| `TearTheorem` | `TearCost` | `RenamesSettle` |
| `LogTheorem` | `ImplementsDurableLog`, a refinement | |
| `BackendTheorem`, `MigrationTheorem` | `BackendKeeps`, `MigrationComplete` | |
| `ProcessTheorem`, `AnchorsTheorem` | `ProcessSound`, `AnchorsSound` | |
| `KeysTheorem`, `FetchesTheorem` | `KeysFollowEndpoint`, `FetchesSpaced` | |
| `LimitTheorem`, `EntrancesTheorem`, `ReceiptsTheorem` | `LimitHonoured`, `EntrancesGuarded`, `ReceiptsSound` | |

The named assumptions of the modules say what the types and the wire leave: a
request, an envelope and a configuration are whole records, timestamps and the
numbers of a rule are integers, a roster is finite, an encoding is a sequence of
fields of which only the reference is nested (`ReceiptConstants`), a policy that
a session binds was given out by the registry (`SessionsAssumption`).

**Kernel** (`KernelProofs`), for every mode, every set of envelopes and every bound.
The assumptions are in `Reliance`: storage that reports an error wrote nothing;
no request is dropped between its append and its commit; an id with stored
history is not started again; the mode meets `ModeContract` (its own envelopes
neither resolve the session nor take away a sender's authority). Each of the
first three is necessary: section 6 says what TLC shows without it. The fourth
is discharged for the handoff mode by `HandoffContract`.

`RecoveryAgrees` is not inductive: it says nothing while a handler
is past its commit point, nothing about earlier prefixes, which recovery from a
checkpoint needs, and nothing about a recovery in progress. `IInv` adds

- `Shape`: which variables hold a session at which step of a handler;
- `LogInv`: `replayed` is the chain of replayed prefixes, each of them a session;
- `ServedInv`: the last of them is the session in memory, or, between append and
  commit, the session the handler is about to install;
- `TriggerInv`: a message waiting behind the synthetic accept it triggered stays
  acceptable, so replay takes the branch the handler took;
- `ReplayInv`: a recovery in progress holds the session of the prefix it has
  read, with no checkpoint ahead of it.

The proof has one lemma per operation of a session (what it does to a session
record, live and on replay), one per kind of append, and one per group of
actions; `TerminalTheorem` and `AckedTheorem` then need only how one appended
entry changes `dur`.

**History** builds on `IInv`. That no envelope enters history
twice rests on the dedup slots, and that entries keep their numbers on
the counts that checkpoints carry; `HistoryInv` ties both to `hist`:

- `Numbered`: the incoming entries of a log, behind the ordinal base its
  checkpoint carries, number the accepted history by its place; it is said of the
  durable log and, in `MemoryInv`, of the in-memory one, which is behind by the
  entry in flight;
- `Distinct` and `SlotsInv`: history has no repeats and every member of it has a
  slot in the durable session, so a repeat is found a duplicate;
- `FreshInv`: a message that waits behind a synthetic accept is still a new one,
  though it is not looked up again when its turn comes;
- `LiveInv`: no handler writes for a terminal session.

`OwnIds` is what this needs of a mode: no client may send the id of an envelope
that is due. `HandoffOwnIds` shows it for the ids the handoff mode reserves.

**Time.** `AcceptedInTime` is about the message that waits behind a synthetic
accept: it was checked against the clock and the deadline before the accept was
appended, and nobody checks it again. `TimelyInv` carries the check over: at the
clock the message was admitted at, the session is within its deadline and owes
nothing. That the mode owes nothing *more* is what `OneAtATime` asks, under
whatever the mode keeps true of its own state (`Kept`, a constant of the proofs);
the handoff mode meets it because one offer is outstanding at a time
(`HandoffKept`). `DeadlineBanked` needs `TimesInv`: the times of every replayed
prefix are those of its start and of the suspensions in it, and what is served or
saved is one of these sessions.

**Dropped requests.** `ServedTheorem` does without `Reliance`: requests are
dropped at any await, storage errs behind a write, ids are started again. It asks
`Running`: that the process is not restarted, because a restart reads back an
envelope that such a drop wrote twice (section 6), and the mode's two contracts.
`ServingInv` says that the in-memory log, the slots and the session agree, and
what the handler past its append will add to them.

**Modes** (`ModesProofs`). `ModesInv` has a part per mode: in a decision nobody
objects to nothing; the accepts of a proposal session are at live proposals, and
its phase is `Converged` only if one of these converges; an assignee has not
declined; a quorum's ballots are those of the roster; the flag of a multi-round
session is its convergence. And a commitment that is there was let through by its
policy, and would be again on the tally the session still holds (`Sealed`): that
is why no later message undoes it. The evaluator is opened only to the point
where a verdict without reasons gives the approvals, dissents or bar that
`OutcomeBacked` names; that a weighted tally is positive only if somebody with a
positive weight voted so is an induction over the fold that sums it.

**Catalogues** (`CatalogProofs`). `WatchInv`: what a watcher has still to read and
what a registry call has still to send account for every change. `ModesInv`: a
reserved name is a built-in's. `PoliciesInv`: every policy in the registry passed
admission, and admission by `validate_definition` means that its rules parse,
evaluate and bind in each mode they are for, which is proved rule by rule; that
the dry run foretells the startup is an induction over the files of the
directory, the two scans side by side (`Abreast`). `LifeInv`: the start in a log
is canonical where the session was accepted strictly (`StartKept`), so that only a
later promotion makes replay refuse it; and the log of a
session, replayed from its checkpoint or from its start (an induction over its
entries, `SameBinding`), gives a session under the definition it bound, where
that was written down or its name still resolves to it.

**Induction.** A theorem of the library cannot be applied to an operator, but a
module can be instantiated with one. `FoldProofs` takes the step of a fold and a
claim about it as operator constants and proves the induction once, from the
well-foundedness of the naturals; the recursion behind the community modules'
folds is a CHOOSE, so that it has a solution is proved first. Each INSTANCE is
the induction for one fold and one claim.

**Registry** (`RegistryProofs`). `RegistryInv` says who holds which mutex and
which session an id maps to at each await of a start (`LifeInv`, `MapInv`,
`MessageInv`), what the log and the snapshot of an id hold (`DiskInv`), and that
what the maintenance passes have picked may still be dropped (`MaintInv`), though
they check and remove in two steps. The last is what a start that takes an id
inside the two steps breaks, so the invariant is shown up to that start: a
behaviour has `maint.raced`, which never falls, or `RegistryInv`. Nothing is
assumed about how long a session is kept; a retried start, an eviction and the
collector meet in every other order. `ReceiptInv` adds what receipts need:
whatever anybody holds of an id's receipts is one (`CopiesAgree`); a copy is
backed by the one it was taken from, unless nobody can ask for the id again
(`CopiesBacked`); the reader about to store holds the id's stripe, and whatever
anybody else holds is what it will find stored (`StripeInv`); what a maintenance
pass still has to forget has left the registry, or left storage with the
stripe held (`SweepInv`).

**Stream** (`StreamProofs`). The property speaks of what a client holds; what it
will be sent is spread over the log, the snapshot's replay, the dedup set, the
receiver and the next live ordinal, read at different moments. `StreamInv` ties
them together:

- `SessionInv`: which steps a handler may have left, and that only a terminal
  session's log is compacted, to its top;
- `ClientInv`: the record is exact so far, and `Reached`: the position a client
  would resume from is never ahead of the envelope it came with;
- `PendingInv`: the receiver holds published envelopes in order and, with nothing
  dropped, the last of them;
- `OpeningInv`: until the snapshot is taken, the cursor stands at the client's
  position;
- `ServingInv`: the replay is a run of ordinals right behind the client's position
  (`ReplayInv`, `NumberedInv`), and every envelope behind the position is held, in
  the replay, with the receiver, or was never published (`Covered`);
- `EventsInv`, `EndingInv`: an ending was observed with no handler at work, and
  then names the last ordinal there will be.

`Covered` is what makes taking the receiver before the snapshot enough, without the
session's mutex. The proof is for any number of envelopes, reconnects, restarts
and dropped handlers and any capacity; the attempt to prove `ResumedExactly` as it
first stood failed for clients ahead of the session and clients that moved, for
which it is false from four and five envelopes on.

**Storage** (`StorageProofs`).

- `FileInv` for the log file: `FileShape`, `EntriesFresh` (no entry is in the file
  twice), `SyncLast` (the entry to be synced is the last), `AckedWritten` (what
  was acknowledged is whole in the file, out of reach of a power loss) and
  `CutByFault` (without torn writes every chunk is whole). `TearCost` follows
  because a whole chunk that does not parse is behind one that is not whole,
  unless a split chunk makes the load fail. The refinement maps the file to the
  entries `LoadLog` reads while nothing was torn, and rests where a fault may
  tear. `RenamesSettle` excludes that power is lost after a compaction, whose
  rename the code does not sync.
- `BackendInv` for the four backends: `BackendShape`, `HistoryTold` (the log
  replays to what was answered at each write of a call) and `ReceiptHeld`. A loss
  of power leaves RocksDB a log that replays, and to what was answered while the
  session is known: a synced append makes every earlier write stable, and what an
  unsynced batch replaced or deleted replays still if it comes back.
- `MigrationInv`: what the loops have behind them is whole, whatever an earlier,
  interrupted migration left, and what a legacy file held is whole or still has it,
  also where the version file was cut short.

**Process** (`StorageProofs`). `ProcessInv` adds to the property that nothing is
accepted before every startup step succeeded (`StartupInv`), that the request
under way, or one that was dropped, is what the session's counters differ by
(`HandlerInv`), and that the
final snapshot is of a session that no longer moves (`DrainInv`). `AnchorInv`
says that each id has a number, the one of its accepted start, and every number
kept for the id anywhere is that one (`Numbered`); the numbering is a witness, not
a variable of the model. `Untouched`, `CapturedCached` and `RecordsBacked` say what
may be kept before the start, while the session is in memory, and in storage.

**Keys** (`GatewayProofs`). A fetch can only have seen keys withdrawn after it began
(`SeenInv`), it ends within its timeout, so the cache holds only keys withdrawn at
most a timeout before it was filled (`CachedInv`), and it is used for the time to
live and the grace. One caller fetches at a time (`LockInv`).

**Rate limits.** Requests read the clock before they take the mutex, so the
deque is not sorted. `LaneInv`: the deque is a tail of everything that was let
through, later ones are at most `MaxWait` earlier, and what left the deque, by a
check or by the sweep, is older than the window less that wait. Hence two grants
a limit apart are more than `Window - 2 * MaxWait` apart, for any wait.

**Entrances.** `IngressInv` follows a call through its stages: whatever stage it
is at, what it has behind it is what the stages before demand (`Walks`), also
across an interruption, so that what is in the history was gated (`Gated`). That
the bindings agree and that strangers learn nothing are facts of one state: the
verdict of each list of stages is computed by cases on the first that refuses.

**Receipts.** `ReceiptsInv`: a stored receipt is the one some configuration built
for its session and wire, with its key published and its signature made; every
key a verifier trusts was published under its kid. An alteration makes no new
signature, so whatever is attested is what was signed; integrity is computed from
the bytes by the field scan, whose cases are followed one fault at a time.

## 5. What is only model-checked

- Liveness under fairness: `TimersFire`, `StreamServes`, `ShutsDown`,
  `CacheDrains`. TLAPS has no rule for it here.
- `EmbedderFaithful` and `CodecFaithful`: their modules use RECURSIVE operators,
  which the SMT backend does not take.
- `ViewsComplete` and `WhatIfSound`: pages are cut from a sorted sequence, and a
  report is filtered with SelectSeq; neither operator has a definition that the
  provers can open.
- `HistoryInOrder`, half of `ClocksSound`: needs that the walk over the completed
  pauses that finds a synthetic accept's deadline (`UnsuspendedDeadline`) adds up
  the same suspensions as the session banked; that is an induction over a fold of
  a sequence filtered with SelectSeq. The other half, `DeadlineBanked`, is
  `BankedTheorem`.

## 6. Where code and documentation disagree

**Shown by a run.** Each is listed under "findings" in `PROJECT.json`.

- `claim_listed` (`DurableStartKnown`). RocksDB lists sessions by their
  snapshots, which are saved after the commit point, best effort and unsynced
  (`rocksdb.rs:263`); a start that was acknowledged may never be looked for by
  recovery. `runtime.rs:1098` and `docs/deployment.md:421` say it is.
- `claim_gc` (`DeletesTerminalOnly`). The disk collector finds a session terminal
  and old enough, lets go of its locks, waits for the receipt's stripe and deletes
  what is stored under the id by then (`runtime.rs:2272-2299`). Where the session
  had been evicted, a SessionStart may take the id in between and be answered; its
  log and its place in the registry go with it. `docs/deployment.md:328` and
  `runtime.rs:2251` say that terminal sessions' data is deleted.

**Reproduced by changing a constant or naming a property in a cfg.** TLC reports
each violated.

| Change | Property | What it shows |
|---|---|---|
| `MCKernel_crash.cfg`, `RequestTimeouts = TRUE` | `AcceptedOnce` | A request dropped behind its append (`runtime.rs:1427`, `http/server.rs:40`) is in the log and not in memory: its retry enters history a second time, while `docs/sdk-guide.md:84` calls the retry safe |
| `MCKernel_crash.cfg`, `AppendFaults = {"written"}` | `AlwaysReplayable` | A sync that fails behind a successful write (`file.rs:265`) leaves the entry in the log; the retry `docs/sdk-guide.md:90` recommends makes the log unreplayable |
| `MCKernel_crash.cfg`, `ReuseIds = TRUE` | `RecoveryAgrees` | An evicted id that is started again (`runtime.rs:964`) appends a second history to the first one's log; `docs/architecture.md:198` says replay reconstructs any session |
| `MCStorage.cfg` | `AckedLoaded` | An append behind a torn one is glued to it and lost (`file.rs:252`), although acknowledged; a write that was cut inside a character makes `read_to_string` fail for the whole log (`file.rs:275`), and recovery skips the session (`recovery.rs:47`); `docs/deployment.md:420` says both survive |
| `Stream_pass.cfg` | `DeliveredExactly` | A handler dropped between commit and publication (`runtime.rs:1477`) leaves a live subscriber without an envelope and without a gap to notice, against `runtime.rs:719-724` |
| `MCCatalogs.cfg` | `PolicyForLife` | A session without a checkpoint is replayed under whatever its policy's name resolves to after a restart, nothing included; `docs/policy.md:12` says unregistering does not affect sessions already using a policy |
| `MCGateway.cfg` | `EngineConsulted` | A message for a session that does not exist yet is let through without asking the policy engine (`server.rs:149`), and the session may exist when the kernel looks; `server.rs:118-120` says every session-scoped send is gated |
| `MCModes.cfg` | `RequestedApprovals` | Without a threshold rule the evaluator sets no bar (`rules.rs:298`): once a Reject has put the requested approvals out of reach, the session may be committed (`quorum.rs:313`), and a positive Commitment seals with none of them; `docs/modes.md:159` says `required_approvals` ballots seal a positive one |

**Met while modelling.** Behaviour of the code worth a reader's attention; the
models have it unless section 7 says otherwise.

*Kernel, recovery and time.* Compaction renames a file it did not sync
(`file.rs:306`). The sweep reads another clock than the cleanup before it
(`main.rs:597`): a session that lapses between the two is accepted implicitly
instead of expiring. The snapshot of a SessionStart is best effort
(`runtime.rs:1105`), fatal according to `docs/architecture.md:202`. A session
expired lazily is never compacted (`docs/architecture.md:210` says every terminal
one is). A suspended session over its cap stays suspended until somebody
addresses it (`docs/API.md:210`). An expiry found by SuspendSession is not saved
(`runtime.rs:1770`), and one that is replayed leaves `suspended_at_ms` set. The
`debug_assert` at `handoff.rs:445` can fail when the clock steps back. A
SessionStart dropped before its append, then retried, is answered as a duplicate
of a session that does not exist; the waiter of a start that is rolled back is
answered `Ok`, duplicate, or expired (`runtime.rs:966-977`, `1046-1061`).

*Registry, lists and streams.* A list may show a placeholder that is rolled back
later, and a watch whose initial sync saw it suppresses the `Created` of the
retry (`server.rs:2330`); `Resolved` may precede `Created`. Suspended sessions do
not count against the limit, and resuming does not check it. After an id is
reused, its old receipt is served. A subscription opened while its session is
evicted reads an empty history (`blind` in `Stream`; `sse.rs:515`,
`docs/API.md:503`). A second subscribe frame on one gRPC stream renumbers what is
still to come (`moved`; `server.rs:1480`), and a client that counts what it gets
counts the repeats: its next resume may skip an envelope. Live ordinals lag behind
an envelope that was never published, so a client that named a position ahead of
the session is denied the envelopes numbered up to it though they are later ones
(`ahead`). TLC shows both when `NothingSkipped` is said of these clients too, with
`MaxSubscribes = 3` and `MaxEnvelopes = 5` on gRPC, and with `MaxEnvelopes = 4` on
event streams. Watches of policies and modes end
without an error when they lag.

*Modes and policies.* A TaskUpdate whose progress is not finite is stored as null
(`task.rs:331-348`): the state does not decode any more and every later message is
refused as an invalid mode state. A session that an extension accepted without the
canonical contract cannot be asked a what-if once its mode was promoted: the
answer is "integrity" (`replay.rs:392`). A percentage quorum is compared in
floating point (`evaluator.rs:640`), so that a share exactly at the bar may be
refused (29 of 50 at 58). A participant's activity is counted from the recovery
on. A confidence that is not a number makes a decision session
impossible to serialise. A named assignee who accepts and then rejects leaves a
task nobody can take; a TaskReject behind a report keeps the report. Promoting
`multi_round` under another name frees its name for a passthrough handler. Rules
that do not parse as JSON become `{}` (`server.rs:2733`); a `rules` text with
duplicate keys keeps the last. The recorded half of a what-if answers "integrity"
where the comment on the recorded policy promises the bound one, when the session
was recovered without it. A what-if of an expired session sets the state
unconditionally. The evaluator's comment at `evaluator.rs:1063` and "never above
the participant count" in `docs/modes.md:159` are stale (`docs/modes.md:171` has
the present rule).

*Ingress.* A static token with a dot in it never authenticates, and a JWT in
`x-macp-token` is never tried. The rate window reads the clock before the lock.
An issuer with key material that does not parse leaves no resolver, and with
`MACP_ALLOW_INSECURE=1` any token is then accepted. The unary Send charges the
sender before it asks the engine, the stream after; a duplicate to a resolved
session is `Ok` on one and terminal on the other; gRPC checks the shape before
the credentials, HTTP after. A gRPC stream keeps its identity for life. An
identity restricted to modes cannot send ambient signals. A withdrawn key works
for the TTL, the grace period and the time a fetch takes.

*Process, storage and receipts.* The metrics listener does not back off on accept
errors. A second signal skips the final snapshot. The file backend syncs no new
directory. A deletion in RocksDB is not synced (`rocksdb.rs:194`): after a power
loss the session may be back. `storage_version.json` is written in place
(`migration.rs:21`): cut short, it fails every later start until it is removed.
RocksDB's receipts are unsynced and its comment on the sweep is wrong for reused
ids; Redis deletes in a pipeline that is no transaction; log keys padded to eight
digits lose their order at 10^8. A key id used again for another key makes old
receipts invalid, and nothing makes an operator list a retired key. RFC 3339
offsets at the edge years are clamped. An embedder that calls `advance` first on a
session past its TTL records an implicit accept the server would not, and
`RecordedStart::from_session` does not record whether the start was strict.

## 7. Not modelled

- Telemetry export, metrics, logging and the tools on the command line report
  what the others do. The conformance runner drives the others.
- Sockets, TLS handshakes and HTTP framing are outside TLC's reach; a connection
  is a permit and its fate.
- Read-only RPCs besides GetSession, lists, watches, receipts and streams return
  one field or a table.
- Power loss with the file backend is the module FileLog's; `Backends` has crashes
  of the process there.
- The evaluator's shares are compared exactly, so the model accepts where rounding
  in the code may refuse; no property speaks of a refusal at the bar.
- In the JSON codec: floating-point fields, packed lists, the worker pool.
- The engines inside RocksDB and Redis are external: modelled by the writes the
  backends make and what a power loss may take.
- Anchors of an id that is started again while its first start's record is being
  swept; power loss together with a compaction of the file log.
- The handoff runs name one handoff, so a target who declined is barred by the
  model and not exercised by a run.
- Hash functions and signatures are perfect: two texts have one digest only when
  they are equal.

What is left to prove is in section 5.

## 8. Running

    tlc -workers 2 -config MCKernel_crash.cfg MCKernel
    tlapm KernelProofs.tla

The module and cfg of every run are in `PROJECT.json`; the longest takes about four
minutes. `tlapm` on each of the other `*Proofs` modules checks its theorems;
`CatalogProofs`, `KernelProofs` and `GatewayProofs` take the longest.
