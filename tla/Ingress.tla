------------------------------ MODULE Ingress -------------------------------
(***************************************************************************)
(* The way of a request from the wire to the kernel, over the three        *)
(* bindings: unary gRPC and StreamSession frames (src/server.rs) and HTTP  *)
(* (src/http/server.rs, dispatch.rs, metadata.rs, cors.rs, sse.rs), with   *)
(* the authentication chain (crates/macp-auth) and the ingress policy      *)
(* engine (src/policy_engine.rs).                                          *)
(*                                                                         *)
(* A call walks a list of stages; each may refuse it, and the lists are    *)
(* the orders in which the handlers make their checks.  Between two stages *)
(* another call may run.  The engine's decisions and the rate limiter's    *)
(* are the environment's; what the limiter counts is the module RateLimit. *)
(* One session id is enough: nothing here relates two of them.             *)
(***************************************************************************)
EXTENDS Integers, Sequences, FiniteSets, SequencesExt

CONSTANTS
    Clients,       \* the connections
    Identities,    \* the identities that credentials stand for, by sender
    Delegates,     \* the senders the session's policy lets commit
    Modes,         \* the registered modes
    Plans,         \* bound: the calls each client makes, in a behaviour
    Settings,      \* the configurations: jwt, static, engine
    Probes         \* requests whose verdicts the properties compare

\* A request is a record, and so is the envelope in it.
WellFormed(r) ==
    /\ {"rpc", "binding", "cred", "env", "faults"} \subseteq DOMAIN r
    /\ {"type", "session", "mode", "sender", "id"} \subseteq DOMAIN r.env

ASSUME IngressConstants ==
    /\ \A p \in Plans : p = [c \in Clients |-> p[c]]
    /\ \A p \in Plans : \A c \in Clients :
          p[c] \in Seq(Range(p[c])) /\ \A i \in DOMAIN p[c] : WellFormed(p[c][i])
    /\ \A r \in Probes : WellFormed(r)

VARIABLES
    conf,        \* the configuration: which resolvers and whether an engine
    rotated,     \* whether the keys of the JSON web tokens were withdrawn
    session,     \* the session, or none
    history,     \* the envelopes the kernel accepted or broadcast
    plan,        \* the calls each client has still to make
    call,        \* the call each client is in
    stream       \* the StreamSession of each client

ingressVars == <<conf, rotated, session, history, plan, call, stream>>

-----------------------------------------------------------------------------
(* The error vocabulary (crates/macp-core/src/error.rs), its registry of   *)
(* codes, and the HTTP binding's answer to a status (src/http/errors.rs).  *)

\* MacpError::error_code.
ErrorCode ==
    [InvalidMacpVersion |-> "UNSUPPORTED_PROTOCOL_VERSION", InvalidEnvelope |-> "INVALID_ENVELOPE",
     SessionAlreadyExists |-> "SESSION_ALREADY_EXISTS", UnknownSession |-> "SESSION_NOT_FOUND",
     SessionNotOpen |-> "SESSION_NOT_OPEN", TtlExpired |-> "SESSION_NOT_OPEN",
     InvalidTtl |-> "INVALID_ENVELOPE", UnknownMode |-> "MODE_NOT_SUPPORTED",
     InvalidModeState |-> "INVALID_ENVELOPE", InvalidPayload |-> "INVALID_ENVELOPE",
     Forbidden |-> "FORBIDDEN", Unauthenticated |-> "UNAUTHENTICATED",
     DuplicateMessage |-> "DUPLICATE_MESSAGE", PayloadTooLarge |-> "PAYLOAD_TOO_LARGE",
     RateLimited |-> "RATE_LIMITED", StorageFailed |-> "INTERNAL_ERROR",
     InvalidSessionId |-> "INVALID_SESSION_ID", UnknownPolicyVersion |-> "UNKNOWN_POLICY_VERSION",
     PolicyDenied |-> "POLICY_DENIED", InvalidPolicyDefinition |-> "INVALID_POLICY_DEFINITION",
     RegistryReadOnly |-> "REGISTRY_READ_ONLY", InvalidRequest |-> "INVALID_REQUEST",
     StreamLagged |-> "STREAM_LAGGED", AgentNotFound |-> "AGENT_NOT_FOUND",
     HistoryUnavailable |-> "HISTORY_UNAVAILABLE", ReceiptUnavailable |-> "RECEIPT_UNAVAILABLE"]

\* ERROR_CODE_REGISTRY: its codes, and the HTTP status of a code.
RegistryCodes ==
    {"INVALID_ENVELOPE", "UNSUPPORTED_PROTOCOL_VERSION", "MODE_NOT_SUPPORTED", "INVALID_SESSION_ID",
     "INVALID_POLICY_DEFINITION", "INVALID_REQUEST", "UNAUTHENTICATED", "FORBIDDEN",
     "POLICY_DENIED", "UNAUTHORIZED", "SESSION_NOT_FOUND", "UNKNOWN_POLICY_VERSION",
     "AGENT_NOT_FOUND", "SESSION_NOT_OPEN", "DUPLICATE_MESSAGE", "SESSION_ALREADY_EXISTS",
     "REGISTRY_READ_ONLY", "HISTORY_UNAVAILABLE", "RECEIPT_UNAVAILABLE", "PAYLOAD_TOO_LARGE",
     "RATE_LIMITED", "INTERNAL_ERROR", "STREAM_LAGGED"}

HttpStatus ==
    [c \in RegistryCodes |->
        CASE c = "UNAUTHENTICATED" -> 401
          [] c \in {"FORBIDDEN", "POLICY_DENIED", "UNAUTHORIZED"} -> 403
          [] c \in {"SESSION_NOT_FOUND", "UNKNOWN_POLICY_VERSION", "AGENT_NOT_FOUND"} -> 404
          [] c \in {"SESSION_NOT_OPEN", "DUPLICATE_MESSAGE", "SESSION_ALREADY_EXISTS",
                    "REGISTRY_READ_ONLY", "HISTORY_UNAVAILABLE", "RECEIPT_UNAVAILABLE"} -> 409
          [] c = "PAYLOAD_TOO_LARGE" -> 413
          [] c = "RATE_LIMITED" -> 429
          [] c = "INTERNAL_ERROR" -> 500
          [] c = "STREAM_LAGGED" -> 503
          [] OTHER -> 400]

\* ERROR_CODE_REGISTRY and TransportStatus: the gRPC status of a code.
GrpcStatus ==
    [c \in RegistryCodes |->
        CASE c \in {"SESSION_NOT_FOUND", "UNKNOWN_POLICY_VERSION", "AGENT_NOT_FOUND"} -> 5
          [] c \in {"DUPLICATE_MESSAGE", "SESSION_ALREADY_EXISTS"} -> 6
          [] c \in {"FORBIDDEN", "POLICY_DENIED", "UNAUTHORIZED"} -> 7
          [] c \in {"PAYLOAD_TOO_LARGE", "RATE_LIMITED", "STREAM_LAGGED"} -> 8
          [] c \in {"SESSION_NOT_OPEN", "REGISTRY_READ_ONLY", "HISTORY_UNAVAILABLE",
                    "RECEIPT_UNAVAILABLE"} -> 9
          [] c = "INTERNAL_ERROR" -> 13
          [] c = "UNAUTHENTICATED" -> 16
          [] OTHER -> 3]

\* coded_status_ref: a status carries its gRPC code and its registry code.
CodedStatus(err) == [grpc |-> GrpcStatus[ErrorCode[err]], code |-> ErrorCode[err]]

\* fallback_code, for a status that carries no registry code.
FallbackCode(grpc) ==
    CASE grpc = 16 -> "UNAUTHENTICATED"
      [] grpc = 7 -> "FORBIDDEN"
      [] grpc = 3 -> "INVALID_REQUEST"
      [] OTHER -> "INTERNAL_ERROR"

\* RequestError::from_status and status_response: the HTTP status a gRPC
\* status is answered with; UNIMPLEMENTED (12) is the bare 404.
StatusResponse(status) ==
    IF status.grpc = 12 THEN 404
    ELSE HttpStatus[IF status.code \in DOMAIN HttpStatus THEN status.code
                    ELSE FallbackCode(status.grpc)]

-----------------------------------------------------------------------------
(* State.                                                                  *)

NoSession == [state |-> "none"]
NoCall == [stage |-> 0]
Closed == [open |-> FALSE]

IngressInit ==
    /\ conf \in Settings
    /\ plan \in Plans
    /\ rotated = FALSE
    /\ session = NoSession
    /\ history = <<>>
    /\ call = [c \in Clients |-> NoCall]
    /\ stream = [c \in Clients |-> Closed]

-----------------------------------------------------------------------------
(* Authentication.                                                         *)

Nobody == [sender |-> "nobody", allowed_modes |-> {}, can_start |-> FALSE, is_observer |-> FALSE]

\* The allowed_modes of an identity that is restricted to none.
AnyMode == Modes \cup {"", "unregistered"}

\* JwtBearerResolver::resolve: an authorization header whose token has dots.
JwtBearer(cred, withdrawn) ==
    IF cred.header # "authorization" \/ cred.form # "jwt" THEN "not mine"
    ELSE IF cred.sender \in DOMAIN Identities /\ ~withdrawn THEN "identity" ELSE "invalid"

\* StaticBearerResolver::resolve: either header, and a token without dots.
StaticBearer(cred) ==
    IF cred.header = "none" \/ cred.form # "opaque" THEN "not mine"
    ELSE IF cred.sender \in DOMAIN Identities THEN "identity" ELSE "invalid"

\* AuthResolverChain::authenticate over the resolvers from_env pushed: the
\* first one whose credential it is decides.
Chain(cf, cred, withdrawn) ==
    (IF cf.jwt THEN <<JwtBearer(cred, withdrawn)>> ELSE <<>>)
    \o (IF cf.static THEN <<StaticBearer(cred)>> ELSE <<>>)

\* authenticate_metadata: the chain, or, when no resolver is configured, any
\* token as a fully privileged sender.
AuthenticateMetadata(cf, cred, withdrawn) ==
    LET verdicts == SelectSeq(Chain(cf, cred, withdrawn), LAMBDA v : v # "not mine") IN
    CASE cf.jwt \/ cf.static ->
            IF verdicts # <<>> /\ Head(verdicts) = "identity"
            THEN Identities[cred.sender] ELSE Nobody
      [] cred.header = "none" -> Nobody
      [] OTHER -> [sender |-> cred.sender, allowed_modes |-> AnyMode, can_start |-> TRUE,
                   is_observer |-> FALSE]

\* metadata_from_headers: HTTP forwards the authorization header alone.
MetadataFromHeaders(cred) ==
    IF cred.header = "authorization" THEN cred ELSE [cred EXCEPT !.header = "none"]

Metadata(request) ==
    IF request.binding = "http" THEN MetadataFromHeaders(request.cred) ELSE request.cred

-----------------------------------------------------------------------------
(* The orders of the checks.                                               *)

\* dispatch_table: the rows that need no credential, and the streaming ones.
PublicRpcs == {"Initialize", "GetManifest", "ListModes", "WatchModeRegistry"}
StreamingRpcs == {"WatchModeRegistry", "WatchSignals"}
ControlRpcs == {"CancelSession", "SuspendSession", "ResumeSession"}

\* A seam that leaves the rate limit to the gRPC interceptors.
SendSeamUncharged == <<"shape", "sender", "mode", "engine", "process">>

\* send_authenticated and authorize_send.
SendSeam == <<"shape", "sender", "mode", "rate", "engine", "process">>

\* The handlers of the service: send, get_session, get_decision_receipt, the
\* control calls, initialize, get_manifest and the lists and watches.
Handler(rpc) ==
    CASE rpc = "Send" -> <<"shape", "authenticate">> \o SendSeam
      [] rpc \in ControlRpcs -> <<"authenticate", "known", "authority", "control">>
      [] rpc = "GetSession" -> <<"authenticate", "known", "member", "access", "known", "answer">>
      [] rpc = "GetDecisionReceipt" ->
            <<"authenticate", "known", "member", "access", "rate", "answer">>
      [] rpc = "StreamSession" -> <<"authenticate", "open">>
      [] rpc = "Initialize" -> <<"versions", "answer">>
      [] rpc = "GetManifest" -> <<"agent", "answer">>
      [] rpc \in {"ListModes", "WatchModeRegistry"} -> <<"answer">>
      [] OTHER -> <<"authenticate", "answer">>

\* A binding that reads and decodes the body before it authenticates.
HttpStagesBodyFirst(rpc) ==
    <<"preflight", "route", "method", "content_type", "body", "decode">>
    \o (IF rpc = "Send" THEN <<"authenticate">> \o SendSeam ELSE Handler(rpc))

\* The HTTP binding up to the handler (handle, answer, route_request and
\* serve): authentication comes before the body.
HttpStages(rpc) ==
    <<"preflight", "route", "method", "content_type">>
    \o (IF rpc \in StreamingRpcs THEN <<"accept">> ELSE <<>>)
    \o (IF rpc \in PublicRpcs THEN <<>> ELSE <<"authenticate">>)
    \o <<"body", "decode">>
    \o (IF rpc = "Send" THEN SendSeam ELSE Handler(rpc))

\* A stream path that the engine does not gate.
FrameStagesUngated ==
    <<"shape", "scoped", "bound", "sender", "session", "mode", "rate", "live", "process">>

\* process_stream_envelope.
FrameStages ==
    <<"shape", "scoped", "bound", "sender", "session", "mode", "engine", "rate", "live", "process">>

Stages(request) ==
    CASE request.binding = "http" -> HttpStages(request.rpc)
      [] request.binding = "stream" -> FrameStages
      [] OTHER -> Handler(request.rpc)

-----------------------------------------------------------------------------
(* The checks.  Each answers Pass, an error of the vocabulary or, for HTTP, *)
(* a bare status.                                                          *)

Pass == "pass"

Ambient == {"Signal", "Progress"}

\* validate_envelope_shape.
EnvelopeShape(env) ==
    LET blank == env.mode = "" IN
    IF ~env.version THEN "InvalidMacpVersion"
    ELSE IF \/ env.id = ""
            \/ env.type = "Signal" /\ (env.session # "" \/ ~blank)
            \/ env.type = "Progress" /\ (env.session = "") # blank
            \/ env.type \notin Ambient /\ (env.session = "" \/ blank)
         THEN "InvalidEnvelope"
    ELSE IF env.oversized THEN "PayloadTooLarge"
    ELSE Pass

\* apply_authenticated_sender, its check.
SenderBinding(identity, env) ==
    IF env.sender \notin {"", identity.sender} THEN "Unauthenticated" ELSE Pass

\* authorize_mode.
AuthorizeMode(identity, env) ==
    IF env.type = "SessionStart" /\ ~identity.can_start THEN "Forbidden"
    ELSE IF env.mode \notin identity.allowed_modes THEN "Forbidden"
    ELSE Pass

\* enforce_ingress_policy: whether the engine is asked at all.  A message of
\* a session that is not there is left to the kernel.
EngineAsked(cf, env, sess) ==
    cf.engine /\ (env.type = "SessionStart" \/ (env.session # "" /\ sess # NoSession))

\* process_stream_envelope, its look at the session.
FrameSession(env, sess) ==
    IF env.type = "SessionStart" \/ sess = NoSession THEN Pass
    ELSE IF env.mode # sess.mode \/ sess.state # "Open" THEN "InvalidEnvelope"
    ELSE Pass

\* Runtime::process: process_session_start, process_signal or the message's
\* preconditions and authorization, in the order of the module Kernel.
KernelVerdict(env, sess) ==
    IF env.type = "SessionStart" THEN
        IF env.session # "s" THEN "InvalidSessionId"
        ELSE IF env.mode \notin Modes THEN "UnknownMode"
        ELSE IF sess = NoSession THEN "accepted"
        ELSE IF env.id = sess.start.id /\ env.sender = sess.start.sender THEN "duplicate"
        ELSE "SessionAlreadyExists"
    ELSE IF env.type \in Ambient THEN IF env.undecodable THEN "InvalidPayload" ELSE "broadcast"
    ELSE IF sess = NoSession \/ env.session # "s" THEN "UnknownSession"
    ELSE IF env.id \in sess.seen THEN "duplicate"
    ELSE IF env.mode # sess.mode THEN "InvalidEnvelope"
    ELSE IF sess.state # "Open" THEN "SessionNotOpen"
    ELSE IF env.sender \notin sess.participants THEN "Forbidden"
    ELSE IF env.undecodable THEN "InvalidPayload"
    ELSE "accepted"

KernelAccepts == {"accepted", "duplicate", "broadcast"}

\* authorize_session_read, but for the engine.
MayRead(identity, sess) ==
    identity.is_observer \/ identity.sender = sess.initiator \/ identity.sender \in sess.participants

\* What the stage makes of a request.  at.identity is who it authenticated
\* as, at.bound the session its stream is bound to, and pick the decisions of
\* the environment: whether the limiter refuses, and what the engine says.
\* The handler of an HTTP call that is not Send authenticates it again.
Check(stage, request, at, sess, pick) ==
    LET env == [request.env EXCEPT !.sender = at.identity.sender]
        fault(f, err) == IF f \in request.faults THEN err ELSE Pass
        refuse(bad, err) == IF bad THEN err ELSE Pass
    IN
    CASE stage = "preflight" -> fault("options", "204")
      [] stage = "route" -> fault("path", "404")
      [] stage = "method" -> fault("verb", "405")
      [] stage = "content_type" -> fault("media", "415")
      [] stage = "accept" -> fault("accept", "406")
      [] stage = "authenticate" ->
            refuse(AuthenticateMetadata(conf, Metadata(request), rotated) = Nobody, "Unauthenticated")
      [] stage = "body" ->
            IF "oversized" \in request.faults THEN "PayloadTooLarge"
            ELSE fault("unreadable", "InvalidRequest")
      [] stage = "decode" ->
            IF "json" \in request.faults THEN "InvalidRequest"
            ELSE refuse(request.rpc = "Send" /\ "payload" \in request.faults, "InvalidEnvelope")
      [] stage = "versions" -> fault("versions", "InvalidMacpVersion")
      [] stage = "agent" -> fault("agent", "AgentNotFound")
      [] stage = "shape" -> EnvelopeShape(request.env)
      [] stage = "scoped" -> refuse(request.env.session \in {"", "blank"} \/ request.env.mode = "", "InvalidEnvelope")
      [] stage = "bound" -> refuse(at.bound \notin {"", request.env.session}, "InvalidEnvelope")
      [] stage = "sender" -> SenderBinding(at.identity, request.env)
      [] stage = "session" -> FrameSession(env, sess)
      [] stage = "mode" -> AuthorizeMode(at.identity, env)
      [] stage = "rate" -> refuse(pick.limited, "RateLimited")
      [] stage = "engine" -> refuse(EngineAsked(conf, env, sess) /\ pick.engine # "Allow", "PolicyDenied")
      [] stage = "known" -> refuse(sess = NoSession, "UnknownSession")
      [] stage = "member" -> refuse(sess # NoSession /\ ~MayRead(at.identity, sess), "Forbidden")
      [] stage = "access" -> refuse(conf.engine /\ pick.engine # "Allow", "Forbidden")
      [] stage = "authority" ->
            refuse(sess # NoSession /\ at.identity.sender \notin {sess.initiator} \cup Delegates, "Forbidden")
      [] stage = "process" -> KernelVerdict(env, sess)
      [] OTHER -> Pass

-----------------------------------------------------------------------------
(* The answers.                                                            *)

\* is_stream_terminal_error.
StreamTerminalErrors ==
    {"Unauthenticated", "PayloadTooLarge", "RateLimited", "StorageFailed", "InvalidSessionId",
     "InvalidPolicyDefinition", "SessionAlreadyExists"}

BareStatuses == {"204", "404", "405", "406", "415"}

\* How a refusal reaches the client: an Ack for every decision about an
\* Envelope (finish_send, invalid_envelope_ack), an inline error or the end
\* of the stream (StreamFailure), a bare HTTP status, or an error of the
\* request (status_from_error, RequestError).
Answer(request, stage, err) ==
    IF err \in BareStatuses THEN [how |-> "bare", code |-> err]
    ELSE IF request.binding = "stream" THEN
        [how |-> IF stage \in {"scoped", "bound", "session"} \/ err \in StreamTerminalErrors
                 THEN "ends" ELSE "inline",
         code |-> ErrorCode[err]]
    ELSE IF request.rpc = "Send" /\ ~(request.binding = "http" /\
               (stage \in {"authenticate", "body"} \/ err = "InvalidRequest"))
    THEN [how |-> "ack", code |-> ErrorCode[err]]
    ELSE [how |-> "error", code |-> ErrorCode[err],
          status |-> IF request.binding = "http" THEN StatusResponse(CodedStatus(err))
                     ELSE CodedStatus(err).grpc]

Done(code) == [how |-> "ok", code |-> code]

\* The answer to a request that nothing interrupts, with the session as sess
\* and the environment's decisions as pick.
Verdict(request, sess, pick) ==
    LET at == [identity |-> AuthenticateMetadata(conf, Metadata(request), rotated), bound |-> ""]
        stages == Stages(request)
        result(i) == Check(stages[i], request, at, sess, pick)
        stops == {i \in 1..Len(stages) : result(i) \notin {Pass} \cup KernelAccepts}
    IN  IF stops = {} THEN Done(result(Len(stages)))
        ELSE LET i == CHOOSE i \in stops : \A j \in stops : i <= j
             IN  Answer(request, stages[i], result(i))

-----------------------------------------------------------------------------
(* The calls.                                                              *)

\* The client makes its next call.  A frame has the identity its stream was
\* opened with.
Begin(c) ==
    /\ call[c] = NoCall /\ plan[c] # <<>>
    /\ LET request == Head(plan[c]) IN
        /\ request.binding = "stream" => stream[c].open
        /\ call' = [call EXCEPT ![c] =
            [stage |-> 1, request |-> request, charges |-> 0, consulted |-> "no",
             identity |-> IF request.binding = "stream" THEN stream[c].identity ELSE Nobody,
             bound |-> IF request.binding = "stream" THEN stream[c].bound ELSE ""]]
    /\ plan' = [plan EXCEPT ![c] = Tail(@)]
    /\ UNCHANGED <<conf, rotated, session, history, stream>>

\* The client cannot make it: its stream is gone.
Skip(c) ==
    /\ call[c] = NoCall /\ plan[c] # <<>>
    /\ Head(plan[c]).binding = "stream" /\ ~stream[c].open
    /\ plan' = [plan EXCEPT ![c] = Tail(@)]
    /\ UNCHANGED <<conf, rotated, session, history, call, stream>>

StageOf(c) == Stages(call[c].request)[call[c].stage]

\* The effect of an accepted envelope: a new session, or the message in it.
Accepted(env) ==
    IF env.type = "SessionStart"
    THEN [state |-> "Open", mode |-> env.mode, initiator |-> env.sender,
          start |-> [id |-> env.id, sender |-> env.sender], seen |-> {env.id},
          participants |-> DOMAIN Identities]
    ELSE [session EXCEPT !.seen = @ \cup {env.id},
                         !.state = IF env.type = "Commitment" THEN "Resolved" ELSE @]

Entry(c, env) ==
    [env |-> env, identity |-> call[c].identity, charges |-> call[c].charges,
     consulted |-> call[c].consulted]

\* Runtime::process for the call's envelope, sender bound.
Apply(c, env, verdict) ==
    /\ session' = IF verdict = "accepted" THEN Accepted(env) ELSE session
    /\ history' = IF verdict = "duplicate" THEN history ELSE Append(history, Entry(c, env))

\* A control call's effect, if the session still allows it.
Controlled(rpc) ==
    CASE rpc = "SuspendSession" /\ session.state = "Open" -> "Suspended"
      [] rpc = "ResumeSession" /\ session.state = "Suspended" -> "Open"
      [] rpc = "CancelSession" /\ session.state \in {"Open", "Suspended"} -> "Cancelled"
      [] OTHER -> session.state

\* The stage passes, and its effect takes place.
Passes(c, pick) ==
    LET stage == StageOf(c)
        request == call[c].request
        env == [request.env EXCEPT !.sender = call[c].identity.sender]
        next == [call[c] EXCEPT !.stage = @ + 1]
        last == call[c].stage = Len(Stages(request))
    IN
    /\ call' = [call EXCEPT ![c] =
        IF last THEN NoCall ELSE
        CASE stage = "authenticate" ->
                [next EXCEPT !.identity = AuthenticateMetadata(conf, Metadata(request), rotated)]
          [] stage = "rate" -> [next EXCEPT !.charges = @ + 1]
          [] stage = "engine" ->
                [next EXCEPT !.consulted = IF EngineAsked(conf, env, session) THEN pick.engine ELSE "absent"]
          [] OTHER -> next]
    /\ stream' = [stream EXCEPT ![c] =
        CASE stage = "open" -> [open |-> TRUE, identity |-> call[c].identity, bound |-> ""]
          [] stage = "live" -> [@ EXCEPT !.bound = env.session]
          [] OTHER -> @]
    /\ CASE stage = "process" -> Apply(c, env, KernelVerdict(env, session))
         [] stage = "control" ->
                /\ session' = [session EXCEPT !.state = Controlled(request.rpc)]
                /\ UNCHANGED history
         [] OTHER -> UNCHANGED <<session, history>>
    /\ UNCHANGED <<conf, rotated, plan>>

\* The stage refuses, and the call is answered.
Refuses(c, err) ==
    /\ call' = [call EXCEPT ![c] = NoCall]
    /\ stream' = IF Answer(call[c].request, StageOf(c), err).how = "ends"
                 THEN [stream EXCEPT ![c] = Closed] ELSE stream
    /\ UNCHANGED <<conf, rotated, session, history, plan>>

Step(c, pick) ==
    /\ call[c] # NoCall
    /\ LET err == Check(StageOf(c), call[c].request, call[c], session, pick) IN
        IF err \in {Pass} \cup KernelAccepts THEN Passes(c, pick) ELSE Refuses(c, err)

\* The request timeout: the handler is dropped where it stands, before or
\* after the kernel took the envelope.
TimedOut(c) ==
    /\ call[c] # NoCall /\ call[c].request.binding # "stream"
    /\ call' = [call EXCEPT ![c] = NoCall]
    /\ UNCHANGED <<conf, rotated, session, history, plan, stream>>

\* The token's key is withdrawn, or the token expires.
Withdraw ==
    /\ ~rotated /\ conf.jwt
    /\ rotated' = TRUE
    /\ UNCHANGED <<conf, session, history, plan, call, stream>>

Picks == [limited : BOOLEAN, engine : {"Allow", "Deny"}]

IngressNext ==
    \/ \E c \in Clients : Begin(c) \/ Skip(c) \/ TimedOut(c) \/ \E pick \in Picks : Step(c, pick)
    \/ Withdraw

IngressSpec == IngressInit /\ [][IngressNext]_ingressVars

-----------------------------------------------------------------------------

\* What enters the kernel was let in (authorize_send, send_authenticated,
\* process_stream_envelope): over every binding an accepted or broadcast
\* envelope bears the sender its credential authenticated, in a mode that
\* identity may use, was charged to its sender once and, where an engine is
\* installed and the session was there to be asked about, was allowed by it.
Gated ==
    \A i \in 1..Len(history) :
        LET e == history[i] IN
        /\ e.identity # Nobody
        /\ e.env.sender = e.identity.sender
        /\ AuthorizeMode(e.identity, e.env) = Pass
        /\ e.charges = 1
        /\ conf.engine => e.consulted \in {"Allow", "absent"}

\* The promise of with_policy_engine: session starts and session-scoped
\* sends are gated on the engine.
EngineConsulted ==
    \A i \in 1..Len(history) :
        conf.engine /\ history[i].env.session # "" => history[i].consulted = "Allow"

Willing == [limited |-> FALSE, engine |-> "Allow"]

\* Verdicts are compared where no call is under way: nothing interrupts them.
Quiet == \A c \in Clients : call[c] = NoCall

\* A caller that does not authenticate learns nothing of the session (serve,
\* send): the answer to an authenticated call is the same whether there is
\* one and whatever its state, and over HTTP it is a bare status or 401.
StrangersLearnNothing ==
    Quiet => \A p \in Probes :
        p.binding # "stream" /\ p.rpc \notin PublicRpcs
        /\ AuthenticateMetadata(conf, Metadata(p), rotated) = Nobody =>
            LET answer == Verdict(p, session, Willing) IN
            /\ answer = Verdict(p, NoSession, Willing)
            /\ p.binding = "http" => answer.how = "bare" \/ answer.status = 401

Over(p, binding) == [p EXCEPT !.binding = binding]

Accepts(answer) == answer.how = "ok"

\* A sender refused over one binding is not served over another (the comment
\* on the stream path's engine check): for one envelope and one credential,
\* gRPC and HTTP answer the same Ack, and a stream takes no envelope they
\* refuse.  It refuses, of those they take, only ambient ones and those of a
\* session that is not open or has another mode.
BindingsAgree ==
    Quiet => \A p \in Probes, pick \in Picks :
        p.rpc = "Send" /\ p.binding = "grpc" /\ p.faults = {} /\ p.cred.header = "authorization"
        /\ AuthenticateMetadata(conf, p.cred, rotated) # Nobody =>
            LET grpc == Verdict(Over(p, "grpc"), session, pick)
                http == Verdict(Over(p, "http"), session, pick)
                frame == Verdict(Over(p, "stream"), session, pick)
            IN  /\ grpc = http
                /\ Accepts(frame) => frame = grpc
                /\ Accepts(grpc) /\ ~Accepts(frame) =>
                    \/ p.env.session \in {"", "blank"}
                    \/ session # NoSession /\ (session.state # "Open" \/ session.mode # p.env.mode)

\* One gate on every entrance: what enters was let in, every binding answers
\* alike, and a stranger learns nothing by knocking (server.rs, dispatch.rs).
EntrancesGuarded == Gated /\ BindingsAgree /\ StrangersLearnNothing
=============================================================================
