----------------------------- MODULE Lifecycle ------------------------------
(***************************************************************************)
(* The life of the process (src/main.rs, src/shutdown.rs, the accept loop  *)
(* of src/http/server.rs): the checks between the environment variables    *)
(* and the first accepted connection, the two listeners, and the shutdown  *)
(* with its drain, its deadline, its final snapshot and its second signal. *)
(*                                                                         *)
(* The environment is one record.  One session stands for all of them: it  *)
(* counts what was logged, what memory holds, what was acknowledged and    *)
(* what the snapshot holds.  A peer closes a connection when it likes, or  *)
(* never.                                                                  *)
(***************************************************************************)
EXTENDS Integers, FiniteSets, Sequences

CONSTANTS
    Environments,     \* the environments the process is started in
    Trafficked,       \* bound: those in which peers send and signals arrive
    Connections,      \* bound: the connections that peers open
    MaxCommits,       \* bound: the messages the session accepts
    BuiltInMaxPage,   \* MAX_LIST_SESSIONS_PAGE_SIZE
    BuiltInPage,      \* DEFAULT_LIST_SESSIONS_PAGE_SIZE
    BodyOverhead,     \* BODY_OVERHEAD_BYTES
    Word              \* 2^64, the width of the checked arithmetic

ASSUME LifecycleConstants ==
    /\ Trafficked \subseteq Environments
    /\ \A e \in Environments :
        /\ e.max_payload \in Nat /\ e.max_body \in Nat /\ e.max_connections \in Nat
        /\ e.page_default \in Int /\ e.page_max \in Int
    /\ IsFiniteSet(Connections) /\ "nobody" \notin Connections
    /\ MaxCommits \in Nat /\ BuiltInMaxPage \in Nat \ {0} /\ BuiltInPage \in 1 .. BuiltInMaxPage
    /\ BodyOverhead \in Nat /\ Word \in Nat

VARIABLES
    env,        \* the environment variables
    phase,      \* where the process is
    stage,      \* the startup step it is about to take
    exit,       \* how it ended
    signals,    \* the shutdown signals received
    acceptor,   \* where HttpListener::serve is
    permits,    \* the free permits of its semaphore
    conn,       \* the connections
    session,    \* the session's counters
    holder,     \* who holds the session's mutex
    clone       \* what get_all_sessions took for the final snapshot

lifecycleVars ==
    <<env, phase, stage, exit, signals, acceptor, permits, conn, session, holder, clone>>

Free == [binding |-> "none", state |-> "free"]

LifecycleInit ==
    /\ env \in Environments
    /\ phase = "starting" /\ stage = 1 /\ exit = "none" /\ signals = 0
    /\ acceptor = "absent" /\ permits = env.max_connections
    /\ conn = [c \in Connections |-> Free]
    /\ session = [logged |-> 0, memory |-> 0, acked |-> 0, saved |-> 0]
    /\ holder = "nobody" /\ clone = 0

-----------------------------------------------------------------------------
(* The configuration.  A page size that is not a number is below Unset.    *)

Unset == -1

Positive(raw) == raw > 0

\* The effective maximum of the cross-field check.
EffectiveMax == IF Positive(env.page_max) THEN env.page_max ELSE BuiltInMaxPage

\* A cross-field check that looks at the two variables only when both are set.
PageSizesAcceptedBothSet ==
    /\ (Positive(env.page_default) \/ env.page_default = Unset)
    /\ (Positive(env.page_max) \/ env.page_max = Unset)
    /\ Positive(env.page_default) /\ Positive(env.page_max) => env.page_default <= env.page_max

\* validate_env_config: the page sizes.
PageSizesAccepted ==
    /\ (Positive(env.page_default) \/ env.page_default = Unset)
    /\ (Positive(env.page_max) \/ env.page_max = Unset)
    /\ Positive(env.page_default) => env.page_default <= EffectiveMax

\* resolve_list_sessions_page_sizes, which clamps what it is given.
ResolvePageSizes ==
    LET max == IF Positive(env.page_max) THEN env.page_max ELSE BuiltInMaxPage
        default == IF Positive(env.page_default) THEN env.page_default ELSE BuiltInPage
    IN  [default |-> IF default > max THEN max ELSE default, max |-> max]

\* body_floor: ceil(4/3 payload) plus the overhead, or none on overflow.
BodyFloor(payload) ==
    LET floor == (4 * payload + 2) \div 3 + BodyOverhead
    IN  IF 4 * payload >= Word \/ floor >= Word THEN {} ELSE {floor}

\* HttpConfig::from_env: the body cap.
BodyCap ==
    {cap \in BodyFloor(env.max_payload) \cup {env.max_body} :
        /\ BodyFloor(env.max_payload) # {}
        /\ \A floor \in BodyFloor(env.max_payload) :
            IF env.max_body = 0 THEN cap = floor ELSE cap = env.max_body /\ cap >= floor}

HttpEnabled == env.http # "unset"

Tls == env.cert /\ env.key

\* HttpConfig::from_env: a usable address of its own, origins and public URL
\* that parse, https unless the opt-in, a body cap, a connection to admit, TLS
\* unless the opt-in.
HttpConfigured ==
    /\ env.http \notin {"bad", "collides"}
    /\ ~env.bad_origin
    /\ env.public_url = "http" => env.insecure
    /\ env.public_url # "bad"
    /\ BodyCap # {} /\ env.max_connections > 0
    /\ Tls \/ env.insecure

\* validate_env_config.
EnvConfigured == ~env.bad_value /\ PageSizesAccepted /\ (HttpEnabled => HttpConfigured)

\* SecurityLayer::from_env: the resolvers it ends up with.  A JWKS that does
\* not parse is logged and leaves none, and so does an issuer without one.
Resolvers ==
    (IF env.issuer /\ env.jwks \in {"inline", "url"} THEN {"jwt"} ELSE {})
    \cup (IF env.tokens = "some" THEN {"static"} ELSE {})

\* Tokens that do not parse, or a token file that cannot be read.
TokensReadable == env.tokens # "malformed"

HasConfiguredAuth == Resolvers # {}

-----------------------------------------------------------------------------
(* Startup.  Each step may end the process; env.fails names those whose    *)
(* files, sockets or stores fail.                                          *)

StartupStages ==
    <<"validate", "dry_run", "storage", "policies", "receipts", "recovery", "security", "auth", "tls",
      "http_bind", "grpc_bind">>

StageSucceeds(s) ==
    /\ s \notin env.fails
    /\ s = "validate" => EnvConfigured
    /\ s = "security" => TokensReadable
    /\ s = "auth" => HasConfiguredAuth \/ env.insecure
    /\ s = "tls" => Tls \/ env.insecure

\* main, up to the listeners.  MACP_POLICIES_DRY_RUN ends it with the verdict
\* on the policies alone; recovery is skipped in memory, and a session that
\* does not replay is fatal only to a strict one (env.fails).
Startup ==
    LET s == StartupStages[stage] IN
    /\ phase = "starting"
    /\ \/ /\ s = "dry_run" /\ env.dry_run
          /\ phase' = "exited" /\ exit' = IF "policies" \in env.fails THEN "failed" ELSE "checked"
          /\ UNCHANGED <<stage, acceptor>>
       \/ /\ ~(s = "dry_run" /\ env.dry_run) /\ ~StageSucceeds(s)
          /\ phase' = "exited" /\ exit' = "failed"
          /\ acceptor' = "absent"
          /\ UNCHANGED stage
       \/ /\ ~(s = "dry_run" /\ env.dry_run) /\ StageSucceeds(s)
          /\ phase' = IF stage = Len(StartupStages) THEN "serving" ELSE "starting"
          /\ stage' = IF stage = Len(StartupStages) THEN stage ELSE stage + 1
          /\ acceptor' = IF s = "http_bind" /\ HttpEnabled THEN "permit" ELSE acceptor
          /\ UNCHANGED exit
    /\ UNCHANGED <<env, signals, permits, conn, session, holder, clone>>

-----------------------------------------------------------------------------
(* The listeners.                                                          *)

Running == phase \in {"serving", "draining", "saving"}

\* HttpListener::serve: the permit first, then the connection.
AcquirePermit ==
    /\ phase = "serving" /\ acceptor = "permit" /\ permits > 0
    /\ permits' = permits - 1 /\ acceptor' = "accept"
    /\ UNCHANGED <<env, phase, stage, exit, signals, conn, session, holder, clone>>

\* A peer connects.  An HTTP connection begins with its TLS handshake or
\* with the bytes that tell HTTP/2; gRPC connections are tonic's to accept.
Accept(c, binding) ==
    /\ phase = "serving" /\ conn[c] = Free
    /\ conn' = [conn EXCEPT ![c] = [binding |-> binding, state |-> "handshake"]]
    /\ IF binding = "http"
       THEN acceptor = "accept" /\ acceptor' = "permit"
       ELSE UNCHANGED acceptor
    /\ UNCHANGED <<env, phase, stage, exit, signals, permits, session, holder, clone>>

\* accept fails, and the loop starts over with the permit still taken.
AcceptFailsKeeping ==
    /\ env \in Trafficked
    /\ phase = "serving" /\ acceptor = "accept"
    /\ acceptor' = "backoff"
    /\ UNCHANGED <<env, phase, stage, exit, signals, permits, conn, session, holder, clone>>

\* accept fails: the permit is dropped with the iteration.
AcceptFails ==
    /\ env \in Trafficked
    /\ phase = "serving" /\ acceptor = "accept"
    /\ acceptor' = "backoff" /\ permits' = permits + 1
    /\ UNCHANGED <<env, phase, stage, exit, signals, conn, session, holder, clone>>

\* The pause behind it, which does not look at the shutdown signal.
BackoffOver ==
    /\ Running /\ acceptor = "backoff"
    /\ acceptor' = "permit"
    /\ UNCHANGED <<env, phase, stage, exit, signals, permits, conn, session, holder, clone>>

\* serve_connection: the handshake and the preface arrive in time.
Established(c) ==
    /\ Running /\ conn[c].state = "handshake"
    /\ conn' = [conn EXCEPT ![c].state = "idle"]
    /\ UNCHANGED <<env, phase, stage, exit, signals, acceptor, permits, session, holder, clone>>

\* The connection ends: its peer closes it, a handshake fails or times out,
\* or the drain closes it where nothing is under way.  Its permit returns.
Closes(c) ==
    /\ Running /\ conn[c].state \in {"handshake", "idle", "stream"}
    /\ conn' = [conn EXCEPT ![c].state = "gone"]
    /\ permits' = IF conn[c].binding = "http" THEN permits + 1 ELSE permits
    /\ UNCHANGED <<env, phase, stage, exit, signals, acceptor, session, holder, clone>>

\* A subscription: an event stream, or a gRPC watch.
Subscribes(c) ==
    /\ env \in Trafficked
    /\ phase = "serving" /\ conn[c].state = "idle"
    /\ conn' = [conn EXCEPT ![c].state = "stream"]
    /\ UNCHANGED <<env, phase, stage, exit, signals, acceptor, permits, session, holder, clone>>

\* A request commits a message: it is in the log, and the session is locked.
Commits(c) ==
    /\ env \in Trafficked
    /\ Running /\ conn[c].state = "idle" /\ holder = "nobody"
    /\ session.logged < MaxCommits
    /\ conn' = [conn EXCEPT ![c].state = "request"]
    /\ holder' = c
    /\ session' = [session EXCEPT !.logged = @ + 1]
    /\ UNCHANGED <<env, phase, stage, exit, signals, acceptor, permits, clone>>

\* It updates memory, saves the snapshot if it can, and answers.
Answers(c, saves) ==
    /\ Running /\ holder = c
    /\ session' = [session EXCEPT !.memory = @ + 1, !.acked = session.memory + 1,
                                  !.saved = IF saves THEN session.memory + 1 ELSE @]
    /\ holder' = "nobody"
    /\ conn' = [conn EXCEPT ![c].state = "idle"]
    /\ UNCHANGED <<env, phase, stage, exit, signals, acceptor, permits, clone>>

\* Its handler is dropped, before it updated memory or before it saved and
\* answered: the peer is gone, or the request timeout answers in its place.
\* The mutex is released.
Drops(c, applied, gone) ==
    /\ Running /\ holder = c
    /\ session' = IF applied THEN [session EXCEPT !.memory = @ + 1] ELSE session
    /\ holder' = "nobody"
    /\ conn' = [conn EXCEPT ![c].state = IF gone THEN "gone" ELSE "idle"]
    /\ permits' = IF gone /\ conn[c].binding = "http" THEN permits + 1 ELSE permits
    /\ UNCHANGED <<env, phase, stage, exit, signals, acceptor, clone>>

-----------------------------------------------------------------------------
(* Shutdown.                                                               *)

\* ShutdownSignal: the first signal flips the watch, the second exits.
Signal ==
    /\ env \in Trafficked
    /\ Running /\ signals < 2
    /\ signals' = signals + 1
    /\ IF signals = 0
       THEN phase' = "draining" /\ UNCHANGED exit
       ELSE phase' = "exited" /\ exit' = "second signal"
    /\ UNCHANGED <<env, stage, acceptor, permits, conn, session, holder, clone>>

\* The accept loop breaks, drops its permit and the socket, and ends the
\* event streams: their connections are idle again.
StopListening ==
    /\ phase = "draining" /\ acceptor \in {"permit", "accept"}
    /\ acceptor' = "closed"
    /\ permits' = IF acceptor = "accept" THEN permits + 1 ELSE permits
    /\ conn' = [c \in Connections |->
        IF conn[c] = [binding |-> "http", state |-> "stream"]
        THEN [conn[c] EXCEPT !.state = "idle"] ELSE conn[c]]
    /\ UNCHANGED <<env, phase, stage, exit, signals, session, holder, clone>>

AllDrained ==
    /\ acceptor \in {"absent", "closed"}
    /\ \A c \in Connections : conn[c].state \in {"free", "gone"}

\* The listeners are closed, their connections are not.
DrainedListeners ==
    /\ phase = "draining" /\ acceptor \in {"absent", "closed"} /\ holder = "nobody"
    /\ phase' = "saving" /\ exit' = "drained"
    /\ clone' = session.memory
    /\ UNCHANGED <<env, stage, signals, acceptor, permits, conn, session, holder>>

\* Both listeners have closed every connection.
Drained ==
    /\ phase = "draining" /\ AllDrained
    /\ phase' = "saving" /\ exit' = "drained"
    /\ clone' = session.memory
    /\ UNCHANGED <<env, stage, signals, acceptor, permits, conn, session, holder>>

\* A deadline that only ends what has drained.
DeadlineIdle ==
    /\ phase = "draining" /\ holder = "nobody" /\ AllDrained
    /\ phase' = "saving" /\ exit' = "forced"
    /\ clone' = session.memory
    /\ UNCHANGED <<env, stage, signals, acceptor, permits, conn, session, holder>>

\* drain_secs have passed since the signal.  get_all_sessions waits for the
\* session's mutex; handlers still run.
Deadline ==
    /\ phase = "draining" /\ holder = "nobody"
    /\ phase' = "saving" /\ exit' = "forced"
    /\ clone' = session.memory
    /\ UNCHANGED <<env, stage, signals, acceptor, permits, conn, session, holder>>

\* The final snapshot, unless in memory, and the end.  A failure is logged.
FinalSnapshot(saves) ==
    /\ phase = "saving"
    /\ session' = IF saves /\ ~env.memory_only THEN [session EXCEPT !.saved = clone] ELSE session
    /\ exit' = IF saves THEN exit ELSE "unsaved"
    /\ phase' = "exited"
    /\ UNCHANGED <<env, stage, signals, acceptor, permits, conn, holder, clone>>

LifecycleNext ==
    \/ Startup \/ AcquirePermit \/ AcceptFails \/ BackoffOver
    \/ \E c \in Connections :
        \/ \E binding \in {"http", "grpc"} : Accept(c, binding)
        \/ Established(c) \/ Closes(c) \/ Subscribes(c) \/ Commits(c)
        \/ \E saves \in BOOLEAN : Answers(c, saves)
        \/ \E applied, gone \in BOOLEAN : Drops(c, applied, gone)
    \/ Signal \/ StopListening \/ Drained \/ Deadline
    \/ \E saves \in BOOLEAN : FinalSnapshot(saves)

LifecycleSpec == LifecycleInit /\ [][LifecycleNext]_lifecycleVars

\* Handlers end (the request timeout), timers fire, the main task runs.
\* Nothing is assumed of the peers, nor of a second signal.
LifecycleFairness ==
    /\ WF_lifecycleVars(Startup) /\ WF_lifecycleVars(StopListening) /\ WF_lifecycleVars(BackoffOver)
    /\ SF_lifecycleVars(Deadline)
    /\ \A c \in Connections : WF_lifecycleVars(\E saves \in BOOLEAN : Answers(c, saves))
    /\ WF_lifecycleVars(\E saves \in BOOLEAN : FinalSnapshot(saves))

-----------------------------------------------------------------------------

\* The length of a payload in base64, as payload_b64 carries it.
Base64Length(n) == 4 * ((n + 2) \div 3)

\* What serves is what was configured (the startup checks of main and the
\* readers of the same variables elsewhere): without the explicit opt-in no
\* connection is accepted in plaintext or by a server that takes any token
\* for an administrator, nothing is accepted before the policies and the
\* sessions are loaded, the default page size the operator set is the one in
\* force, and a payload at the limit fits into a body at its cap.
ServesAsConfigured ==
    (\E c \in Connections : conn[c] # Free) =>
        /\ env.insecure \/ (Tls /\ HasConfiguredAuth)
        /\ env.fails \cap {"storage", "policies", "recovery"} = {}
        /\ env.page_default # Unset => ResolvePageSizes.default = env.page_default
        /\ HttpEnabled => \A cap \in BodyCap :
                Base64Length(env.max_payload) <= cap + 2 - BodyOverhead

OpenHttp == {c \in Connections : conn[c].binding = "http" /\ conn[c].state # "gone"}

\* No permit leaks (the accept loop, serve_connection): the connections, the
\* loop's own and the free permits are the configured number at every step,
\* however connections and accepts fail.
PermitsConserved ==
    permits + Cardinality(OpenHttp) + (IF acceptor = "accept" THEN 1 ELSE 0)
        = env.max_connections

\* A process that drained leaves nothing acknowledged out of its snapshots
\* (the final snapshot of main), and no snapshot holds what its log does not,
\* although handlers of a forced shutdown still run beside the save.
SavedOnExit ==
    /\ session.saved <= session.logged
    /\ phase = "exited" /\ exit = "drained" /\ ~env.memory_only => session.saved >= session.acked

\* A signalled process ends, whatever its peers do (the drain deadline).
ShutsDown == signals > 0 ~> phase = "exited"

\* The process serves what it was told to, loses no permit while it does and
\* leaves a complete snapshot when it has drained (main.rs, http/server.rs).
ProcessSound == ServesAsConfigured /\ PermitsConserved /\ SavedOnExit
=============================================================================
