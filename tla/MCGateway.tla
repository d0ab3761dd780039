----------------------------- MODULE MCGateway ------------------------------
(***************************************************************************)
(* Model checking what stands between the network and the kernel: the rate *)
(* limits, the keys that verify tokens, the checks of a request over the   *)
(* three bindings, its JSON form, and the receipts that leave it.          *)
(*                                                                         *)
(* They share nothing, so each behaviour is of one of them, chosen once    *)
(* (part); the others rest where they began.                               *)
(***************************************************************************)
EXTENDS RateLimit, Jwks, Ingress, Receipts, JsonCodec

VARIABLE part

CONSTANTS Parts   \* the machines to check

-----------------------------------------------------------------------------
(* The load of the limiter, and the tokens.                                *)

MCLimits == [start |-> 1, message |-> 2]

\* Two senders race for one bucket each; or one sender uses both its buckets.
MCLoads ==
    {[s \in Senders |-> {"message"}],
     [s \in Senders |-> IF s = "a" THEN {"start", "message"} ELSE {}]}

Token(signer, kid, claims) == [signer |-> signer, kid |-> kid, alg |-> TRUE, claims |-> claims]

MCTokens ==
    {Token("k1", "k1", TRUE), Token("k1", "none", TRUE), Token("k2", "k1", TRUE),
     Token("k2", "k2", FALSE)}

-----------------------------------------------------------------------------
(* The requests.                                                           *)

Id(sender, modes, start) ==
    [sender |-> sender, allowed_modes |-> modes, can_start |-> start, is_observer |-> FALSE]

MCIdentities == [alice |-> Id("alice", {"m"}, TRUE), bob |-> Id("bob", AnyMode, FALSE)]

Cred(header, form, sender) == [header |-> header, form |-> form, sender |-> sender]

Envelope(type, session_id, mode, id) ==
    [type |-> type, session |-> session_id, mode |-> mode, sender |-> "", id |-> id,
     version |-> TRUE, oversized |-> FALSE, undecodable |-> FALSE]

Request(rpc, binding, cred, envelope) ==
    [rpc |-> rpc, binding |-> binding, cred |-> cred, env |-> envelope, faults |-> {}]

Start == Envelope("SessionStart", "s", "m", "1")
Message == Envelope("Proposal", "s", "m", "2")
Commitment == Envelope("Commitment", "s", "m", "3")
SignalEnvelope == Envelope("Signal", "", "", "4")

Alice == Cred("authorization", "opaque", "alice")
Bob == Cred("authorization", "jwt", "bob")
NoCredential == Cred("none", "opaque", "alice")
Mallory == Cred("authorization", "opaque", "mallory")

MCSettings ==
    {[jwt |-> FALSE, static |-> FALSE, engine |-> TRUE],
     [jwt |-> TRUE, static |-> TRUE, engine |-> TRUE],
     [jwt |-> FALSE, static |-> TRUE, engine |-> FALSE]}

\* Alice starts the session and then controls or reads it; Bob opens a stream
\* and sends over it, or sends over HTTP and reads.
MCPlans ==
    {[c \in Clients |-> IF c = "c1" THEN alice ELSE bob] :
        alice \in {<<Request("Send", "grpc", Alice, Start),
                     Request("CancelSession", "grpc", Alice, SignalEnvelope)>>,
                   <<Request("Send", "http", Alice, Start),
                     Request("SuspendSession", "grpc", Alice, SignalEnvelope)>>},
        bob \in {<<Request("StreamSession", "grpc", Bob, SignalEnvelope),
                   Request("Send", "stream", Bob, Message),
                   Request("Send", "stream", Bob, Commitment)>>,
                 <<Request("Send", "http", Bob, Commitment),
                   Request("GetDecisionReceipt", "http", Bob, SignalEnvelope)>>}}

Envelopes ==
    [type : {"SessionStart", "Proposal", "Signal", "Progress"}, session : {"", "blank", "s"},
     mode : {"", "m", "x"}, sender : {"", "bob"}, id : {"1", "2"},
     version : {TRUE}, oversized : {FALSE}, undecodable : {FALSE}]
    \cup {[Message EXCEPT !.version = FALSE], [Message EXCEPT !.oversized = TRUE],
          [Message EXCEPT !.id = ""], [Message EXCEPT !.undecodable = TRUE],
          [SignalEnvelope EXCEPT !.undecodable = TRUE]}

Credentials == {Alice, Bob, NoCredential, Mallory, Cred("x-macp-token", "opaque", "alice")}

MCProbes ==
    [rpc : {"Send"}, binding : {"grpc"}, cred : Credentials, env : Envelopes, faults : {{}}]
    \cup [rpc : {"Send", "GetSession", "GetDecisionReceipt", "CancelSession", "WatchSignals"},
          binding : {"http"}, cred : Credentials, env : {Message},
          faults : SUBSET {"path", "oversized", "json", "payload"}]
    \cup [rpc : {"Send", "WatchSignals"}, binding : {"http"}, cred : Credentials, env : {Message},
          faults : SUBSET {"options", "verb", "media", "accept"}]

-----------------------------------------------------------------------------
(* The Commitments of two sessions, and the environments of an issuer: its *)
(* signing key, its retired keys, and the ways in which they are refused.  *)

Action(text) == Field(2, "len", text, <<>>)
Supersedes(body) == Field(9, "len", "", body)

MCWires ==
    [s |-> <<Action("b"), Action("a"), Field(8, "varint", "1", <<>>)>>,
     t |-> <<Action("a"), Supersedes(<<Field(1, "len", "s", <<>>)>>),
             Supersedes(<<Field(2, "len", "h", <<>>)>>)>>,
     u |-> <<Action("a"), Field(10, "len", "a", <<>>)>>]

UnsetKey == [form |-> "unset", okp |-> TRUE, d |-> "", x |-> "", kid |-> ""]
Pem(key) == [UnsetKey EXCEPT !.form = "pem", !.d = key]
Jwk(key, x, kid) == [UnsetKey EXCEPT !.form = "jwk", !.d = key, !.x = x, !.kid = kid]

KeyEnv(text, kid, retired) ==
    [path |-> text, inline |-> UnsetKey, kid |-> kid, runtime_id |-> "r",
     retired |-> [array |-> TRUE, keys |-> retired]]

MCKeyEnvs ==
    {KeyEnv(UnsetKey, "", retired) : retired \in {<<>>, <<Public("1", "ka")>>}}
    \cup {KeyEnv(text, kid, retired) :
            text \in {Pem("ka"), Jwk("ka", "ka", "1"), Jwk("kb", "", ""), Jwk("ka", "kb", "1"),
                      [Jwk("ka", "", "1") EXCEPT !.okp = FALSE]},
            kid \in {"", "1", "2"},
            retired \in {<<>>, <<Public("1", "ka")>>, <<Public("1", "ka"), Public("2", "kb")>>,
                         <<[Public("1", "ka") EXCEPT !.private = TRUE]>>}}
    \cup {[KeyEnv(Pem("ka"), "1", <<>>) EXCEPT !.inline = Pem("kb")],
          [KeyEnv(Pem("ka"), "1", <<>>) EXCEPT !.runtime_id = ""],
          [KeyEnv(Pem("ka"), "1", <<>>) EXCEPT !.retired.array = FALSE]}

-----------------------------------------------------------------------------
(* The messages of the JSON mapping: one payload for each sort of field.   *)

FieldOf(name, number, kind, card) ==
    [name |-> name, number |-> number, kind |-> kind, card |-> card, oneof |-> "",
     of |-> NoSchema, names |-> <<>>, keys |-> <<>>]
Nested(name, number, message) == [FieldOf(name, number, "message", "single") EXCEPT !.of = message]

SendRequest == <<"macp.v1", "SendRequest">>
RegisterRequest == <<"macp.v1", "RegisterPolicyRequest">>
StreamResponse == <<"macp.v1", "StreamSessionResponse">>
SessionStartName == <<"macp.v1", "SessionStart">>
CommitmentName == <<"macp.v1", "Commitment">>
CommitmentRefName == <<"macp.v1", "CommitmentRef">>
EvaluationName == <<"macp.modes.decision.v1", "Evaluation">>

MCPackages == [decision |-> "macp.modes.decision.v1"]

MCSchema ==
    SendRequest :> <<Nested("envelope", 1, EnvelopeName)>>
    @@ RegisterRequest :> <<Nested("policy_descriptor", 1, DescriptorName)>>
    @@ StreamResponse :> <<[Nested("envelope", 1, EnvelopeName) EXCEPT !.oneof = "response"],
                           [Nested("error", 2, CommitmentRefName) EXCEPT !.oneof = "response"]>>
    @@ EnvelopeName :> <<FieldOf("message_id", 4, "string", "single"),
                         FieldOf("message_type", 3, "string", "single"),
                         FieldOf("mode", 2, "string", "single"), FieldOf("payload", 8, "bytes", "single"),
                         FieldOf("session_id", 5, "string", "single"),
                         FieldOf("timestamp_unix_ms", 7, "int64", "single")>>
    @@ DescriptorName :> <<FieldOf("policy_id", 1, "string", "single"),
                           FieldOf("rules", 4, "string", "single")>>
    @@ SessionStartName :> <<[FieldOf("extensions", 9, "bytes", "map") EXCEPT !.keys = <<"", "a">>],
                             FieldOf("participants", 2, "string", "list"),
                             FieldOf("ttl_ms", 6, "int64", "single")>>
    @@ CommitmentName :> <<FieldOf("outcome_positive", 8, "bool", "single"),
                           Nested("supersedes", 9, CommitmentRefName)>>
    @@ CommitmentRefName :> <<FieldOf("session_id", 1, "string", "single")>>
    @@ EvaluationName :> <<FieldOf("confidence", 3, "double", "single"),
                           [FieldOf("recommendation", 2, "enum", "single") EXCEPT !.names = (0 :> "NONE" @@ 1 :> "APPROVE")]>>

MCMinMs == -10

Num(m, e) == <<"number", FALSE, m, e>>
Obj(members) == <<"object", members>>

\* An Envelope as JSON, and a request with it.
Said(mode, type, members) ==
    Obj(<< <<"session_id", TextOf("s")>>, <<"mode", TextOf(mode)>>,
           <<"message_type", TextOf(type)>> >> \o members)
Sent(envelope) == <<SendRequest, Obj(<< <<"envelope", envelope>> >>)>>
Inline(mode, type, members) == Sent(Said(mode, type, << <<"payload", Obj(members)>> >>))

StartFields ==
    {<<"ttl_ms", ttl>> : ttl \in {Num(50, 0), Num(150, 0), Num(15, -1), Num(250, 0), Num(5, 1),
                                  <<"string", "number", TRUE, 150, 0>>, TextOf("soon"), Null}}
    \cup {<<"participants", p>> : p \in {<<"array", <<TextOf("a"), TextOf("")>>>>, <<"array", <<Null>>>>, Num(1, 0)}}
    \cup {<<"extensions", e>> : e \in {Obj(<< <<"a", Base64(Garbage)>>, <<"", Base64(<<>>)>> >>),
                                        Obj(<< <<"a", Null>> >>),
                                        Obj(<< <<"a", Base64(<<>>)>>, <<"a", Base64(Garbage)>> >>)}}

EvaluationFields ==
    {<<"confidence", c>> : c \in {Num(5, -1), <<"number", TRUE, 0, 0>>, TextOf("NaN"), TextOf("Infinity"),
                                  Num(1, 9), TextOf("high")}}
    \cup {<<"recommendation", r>> : r \in {TextOf("APPROVE"), TextOf("ABSTAIN"), Num(7, 0), Num(15, -1)}}

Timestamps == {<<"string", "rfc3339", 3, 7>>, <<"string", "rfc3339", 12, 0>>, TextOf("nope"), Num(5, 0)}

MCBodies ==
    {Inline("x", "SessionStart", <<f>>) : f \in StartFields}
    \cup {Inline("decision", "Evaluation", <<f>>) : f \in EvaluationFields}
    \cup {Inline("", "Commitment", <<f>>) :
             f \in {<<"outcome_positive", <<"bool", TRUE>>>>, <<"outcome_positive", TextOf("yes")>>,
                    <<"supersedes", Obj(<<>>)>>, <<"supersedes", Num(1, 0)>>}}
    \cup {Inline("x", "Evaluation", <<>>), Inline("decision", "Other", <<>>),
          Sent(Said("x", "Other", << <<"payload_b64", Base64(Garbage)>> >>)),
          Sent(Said("x", "Other", << <<"payload_b64", TextOf("%")>> >>)),
          Sent(Said("", "Commitment", << <<"payload", TextOf("{}")>> >>)),
          Sent(Said("", "Commitment", << <<"payload", Obj(<<>>)>>, <<"payload_b64", Base64(<<>>)>> >>)),
          Sent(Said("", "Commitment", << <<"payload", Null>> >>)),
          Sent(Obj(<< <<"message_id", Num(7, 0)>>, <<"session_id", TextOf("s")>>,
                      <<"payload_b64", Base64(<<>>)>> >>)),
          Sent(Num(1, 0)), <<SendRequest, Num(1, 0)>>,
          Sent(Said("x", "Other", << <<"payload_b64", Base64(<<>>)>>,
                                     <<"deep", Obj(<< <<"a", Obj(<< <<"a", Obj(<< <<"a", Null>> >>)>> >>)>> >>)>> >>)),
          <<StreamResponse, Obj(<< <<"envelope", Said("x", "Other", << <<"payload_b64", Base64(<<>>)>> >>)>>,
                                   <<"error", Obj(<<>>)>> >>)>>}
    \cup {Sent(Said("", "Commitment", << <<"payload", Obj(<<>>)>>, <<"timestamp", t>> >>)) : t \in Timestamps}
    \cup {<<RegisterRequest, Obj(<< <<"policy_descriptor", Obj(<< <<"rules", r>> >>)>> >>)>> :
             r \in {Obj(<< <<"b", Null>>, <<"a", Num(1, 0)>> >>), TextOf("not json"), Num(1, 0),
                    <<"string", "json", "spaced", <<"object", [a |-> Num(1, 0)]>>>>,
                    <<"string", "json", "spaced", Num(1, 0)>>}}

\* Bytes a peer may send: canonical, in another order, with unknown fields
\* outside and inside, with a written default, with a NaN of its own.
PeerPayloads ==
    {<<"x", "Commitment", bytes>> :
       bytes \in {<<>>, Garbage, << <<8, <<"int", 1>> >> >>, << <<8, <<"int", 0>> >> >>,
                  << <<9, <<"message", <<>> >> >>, <<8, <<"int", 1>> >> >>,
                  << <<9, <<"message", << <<1, TextOf("s")>>, <<7, <<"int", 1>> >> >> >> >> >>,
                  << <<8, <<"int", 1>> >>, <<30, <<"int", 1>> >> >>}}
    \cup {<<"decision", "Evaluation", << <<3, c>> >> >> :
            c \in {Double(FALSE, 5, -1), Double(TRUE, 0, 0), NaN, <<"nan", "signalling">>, <<"inf", TRUE>>}}
    \cup {<<"x", "SessionStart", << <<6, <<"int", ttl>> >> >> >> : ttl \in {99, 100, -150}}
    \cup {<<"x", "Other", << <<6, <<"int", 1>> >> >> >>}

MCReceived ==
    {<<SendRequest, "envelope" :> <<"message",
        ("mode" :> TextOf(p[1]) @@ "message_type" :> TextOf(p[2]) @@ "timestamp_unix_ms" :> <<"int", ms>>)
        @@ IF p[3] = <<>> THEN <<>> ELSE "payload" :> <<"bytes", p[3]>> >> >> :
        p \in PeerPayloads, ms \in {5, 12, -12}}
    \cup {<<RegisterRequest, "policy_descriptor" :> <<"message", "rules" :> r>> >> :
            r \in {<<"string", "json", "spaced", <<"object", [a |-> Num(1, 0)]>>>>,
                   <<"string", "json", "spaced", Num(1, 0)>>, TextOf("not json")}}

-----------------------------------------------------------------------------

\* Where a machine rests that is not the one checked.  The bindings rest with
\* a call under way: verdicts are compared only where there is none.
RateRests == RateInit /\ load = [s \in Senders |-> {"message"}]
JwksRests == JwksInit /\ published = {"k1"}
IngressRests ==
    /\ conf = [jwt |-> FALSE, static |-> TRUE, engine |-> FALSE]
    /\ plan = [c \in Clients |-> <<>>]
    /\ rotated = FALSE /\ session = NoSession /\ history = <<>>
    /\ call = [c \in Clients |->
                [stage |-> 1, request |-> Request("ListModes", "grpc", Alice, SignalEnvelope)]]
    /\ stream = [c \in Clients |-> Closed]

Init ==
    /\ part \in Parts
    /\ IF part = "rate" THEN RateInit ELSE RateRests
    /\ IF part = "keys" THEN JwksInit ELSE JwksRests
    /\ IF part = "ingress" THEN IngressInit ELSE IngressRests
    /\ ReceiptsInit
    /\ JsonInit

Next ==
    /\ UNCHANGED part
    /\ \/ part = "rate" /\ RateNext /\ UNCHANGED <<jwksVars, ingressVars, receiptVars, jsonVars>>
       \/ part = "keys" /\ JwksNext /\ UNCHANGED <<rateVars, ingressVars, receiptVars, jsonVars>>
       \/ part = "ingress" /\ IngressNext /\ UNCHANGED <<rateVars, jwksVars, receiptVars, jsonVars>>
       \/ part = "receipts" /\ ReceiptsNext /\ UNCHANGED <<rateVars, jwksVars, ingressVars, jsonVars>>
       \/ part = "json" /\ JsonNext /\ UNCHANGED <<rateVars, jwksVars, ingressVars, receiptVars>>

vars == <<part, rateVars, jwksVars, ingressVars, receiptVars, jsonVars>>

Spec == Init /\ [][Next]_vars
=============================================================================
