----------------------------- MODULE JsonCodec -----------------------------
(***************************************************************************)
(* The canonical JSON mapping of MACP messages (src/http/json): a message  *)
(* that came over either transport is served as JSON, respelled by the     *)
(* client or a proxy on the way, and posted back.                          *)
(*                                                                         *)
(* Texts keep what the codec looks at.  A JSON value is a tuple: a number  *)
(* token is <<"number", negative, m, e>> for m * 10^e, a string says what  *)
(* its characters are (<<"string", form, ...>>), an object is its members  *)
(* in order.  Bytes are wire fields <<number, value>>.  The protos are not *)
(* part of the repository: Schema and Packages stand for the descriptor    *)
(* pool (pool.rs), a message name being <<package, name>>.                 *)
(***************************************************************************)
EXTENDS Integers, Sequences, FiniteSets, SequencesExt

CONSTANTS
    Schema,         \* message -> its fields, in the order of their names
    Packages,       \* mode -> the package of its payloads
    Bodies,         \* the request bodies a client posts: <<request, text>>
    Received,       \* the messages that came over gRPC: <<request, message>>
    MaxSafeInteger, \* 2^53 - 1, scaled
    MaxInt64,       \* 2^63 - 1, scaled
    MaxInt32,       \* 2^31 - 1, scaled
    MaxDouble,      \* the power of ten beyond the range of an f64, scaled
    MinMs, MaxMs,   \* the years RFC 3339 can write, scaled
    MAX_DEPTH, MAX_TEXT_DEPTH,
    MaxRespells     \* bound on the respellings of one text

VARIABLES
    said,           \* what was first received, <<>> before that
    document,       \* the JSON text in the client's hands
    taken,          \* what the last decoding of a text gave
    respells

jsonVars == <<said, document, taken, respells>>

Null == <<"null">>
TextOf(s) == <<"string", "text", s>>
Base64(bytes) == <<"string", "base64", "standard", bytes>>
IsString(json) == json[1] = "string"
IsJsonObject(json) == json[1] = "object"
SetOf(seq) == {seq[i] : i \in DOMAIN seq}

EnvelopeName == <<"macp.v1", "Envelope">>
DescriptorName == <<"macp.v1", "PolicyDescriptor">>
NoSchema == <<"">>

\* payload_descriptor.
CORE_MESSAGE_TYPES ==
    {"Signal", "Progress", "SessionStart", "SessionCancel", "SessionSuspend", "SessionResume"}

PayloadDescriptor(mode, type) ==
    LET package == IF type \in CORE_MESSAGE_TYPES \cup {"Commitment"} THEN "macp.v1"
                   ELSE IF mode \in DOMAIN Packages THEN Packages[mode] ELSE ""
        name == <<package, type>>
    IN IF name \in DOMAIN Schema THEN name ELSE NoSchema

-----------------------------------------------------------------------------
(* parse_json: an object becomes its members by name, a name given twice   *)
(* at any depth is no JSON.                                                *)

NotJson == <<"not json">>

RECURSIVE ParseJson(_, _)
ParseJson(t, depth) ==
    IF depth >= MAX_TEXT_DEPTH THEN NotJson
    ELSE CASE t[1] = "object" ->
                LET names == {t[2][i][1] : i \in DOMAIN t[2]}
                    value == [n \in names |->
                                ParseJson(t[2][CHOOSE i \in DOMAIN t[2] : t[2][i][1] = n][2], depth + 1)]
                IN IF Cardinality(names) # Len(t[2]) \/ \E n \in names : value[n] = NotJson
                   THEN NotJson ELSE <<"object", value>>
           [] t[1] = "array" ->
                LET items == [i \in DOMAIN t[2] |-> ParseJson(t[2][i], depth + 1)]
                IN IF NotJson \in SetOf(items) THEN NotJson ELSE <<"array", items>>
           [] OTHER -> t

\* A member that is null is absent.
Member(obj, name) == IF name \in DOMAIN obj THEN obj[name] ELSE Null

-----------------------------------------------------------------------------
(* Numbers.                                                                *)

Signed(negative, n) == IF negative THEN -n ELSE n

\* The digits of a number, or of a string that is written as one.
IsNumeral(json) == json[1] = "number" \/ (IsString(json) /\ json[2] = "number")
Numeral(json) == SubSeq(json, Len(json) - 2, Len(json))

\* Mutant: what follows the point is cut off.
IntegralRounded(numeral) == TRUE

\* parse_decimal_integer: exact, or nothing.
Integral(numeral) == numeral[3] >= 0 \/ numeral[2] % 10 ^ (-numeral[3]) = 0
Whole(numeral) == Signed(numeral[1], IF numeral[3] >= 0 THEN numeral[2] * 10 ^ numeral[3]
                                     ELSE numeral[2] \div 10 ^ (-numeral[3]))

InRange(n, lo, hi) == lo <= n /\ n <= hi

RECURSIVE Double(_, _, _)
Double(negative, m, e) ==
    CASE m = 0 -> <<"double", negative, 0, 0>>
      [] m # 0 /\ m % 10 = 0 -> Double(negative, m \div 10, e + 1)
      [] OTHER -> <<"double", negative, m, e>>

NaN == <<"nan", "quiet">>
Zero == Double(FALSE, 0, 0)
IsNegativeZero(value) == value = Double(TRUE, 0, 0)

-----------------------------------------------------------------------------
(* Fields.                                                                 *)

SupportsPresence(f) == f.card = "optional" \/ f.oneof # "" \/ (f.card = "single" /\ f.kind = "message")

DefaultOf(f) ==
    CASE f.card = "list" -> <<"list", <<>>>>
      [] f.card = "map" -> <<"map", <<>>>>
      [] f.card \notin {"list", "map"} ->
           CASE f.kind = "double" -> Zero
             [] f.kind \in {"int64", "enum"} -> <<"int", 0>>
             [] f.kind = "bool" -> <<"bool", FALSE>>
             [] f.kind = "bytes" -> <<"bytes", <<>>>>
             [] f.kind = "message" -> <<"message", <<>>>>
             [] OTHER -> TextOf("")

Get(f, message) == IF f.name \in DOMAIN message THEN message[f.name] ELSE DefaultOf(f)

\* The library compares with ==, to which -0.0 is the default.
IsDefault(f, value) == value = DefaultOf(f) \/ IsNegativeZero(value)
HasField(f, message) ==
    /\ f.name \in DOMAIN message
    /\ SupportsPresence(f) \/ ~IsDefault(f, message[f.name])

\* store: a decoded default is cleared, -0.0 is not one.
Stored(f, value) == SupportsPresence(f) \/ ~IsDefault(f, value) \/ IsNegativeZero(value)

-----------------------------------------------------------------------------
(* canonical_bytes.                                                        *)

ByNumber(name) == SortSeq(Schema[name], LAMBDA f, g : f.number < g.number)

RECURSIVE WriteMessage(_, _)
WriteSingle(f, value) ==
    CASE value[1] = "message" -> <<"message", WriteMessage(f.of, value[2])>>
      [] value[1] = "bool" -> <<"int", IF value[2] THEN 1 ELSE 0>>
      [] value[1] = "nan" -> NaN
      [] OTHER -> value

\* Keys in the order of their bytes; the key and the value always written.
WriteField(f, value) ==
    CASE value[1] = "map" ->
           LET keys == SelectSeq(f.keys, LAMBDA k : k \in DOMAIN value[2])
           IN [i \in DOMAIN keys |->
                 <<f.number, <<"message", << <<1, TextOf(keys[i])>>,
                                             <<2, WriteSingle(f, value[2][keys[i]])>> >> >> >>]
      [] value[1] = "list" -> [i \in DOMAIN value[2] |-> <<f.number, WriteSingle(f, value[2][i])>>]
      [] OTHER -> << <<f.number, WriteSingle(f, value)>> >>

\* has_field takes -0.0 for the default; it is not one.
Writes(f, message) == HasField(f, message) \/ IsNegativeZero(Get(f, message))

WriteMessage(name, message) ==
    FlattenSeq([i \in DOMAIN ByNumber(name) |->
                  LET f == ByNumber(name)[i]
                  IN IF Writes(f, message) THEN WriteField(f, Get(f, message)) ELSE <<>>])

CanonicalBytes(name, message) == WriteMessage(name, message)

\* DynamicMessage::decode: <<message, whether a field is unknown>>, or
\* Undecodable.  Of several values of a single field the last one counts.
Undecodable == <<"undecodable">>
Garbage == << <<0, Null>> >>

WireKinds(f) == CASE f.card = "map" \/ f.kind = "message" -> {"message"}
                  [] f.kind = "double" -> {"double", "nan", "inf"}
                  [] f.kind \in {"int64", "enum", "bool"} -> {"int"}
                  [] OTHER -> {f.kind}

RECURSIVE FromWire(_, _)
ReadSingle(f, value) ==
    CASE f.kind = "message" -> <<"message", FromWire(f.of, value[2])[1]>>
      [] f.kind = "bool" -> <<"bool", value[2] # 0>>
      [] OTHER -> value

FromWire(name, wire) ==
    LET fields == SetOf(Schema[name])
        Of(f) == SelectSeq(wire, LAMBDA w : w[1] = f.number)
        Key(w) == w[2][2][1][2][3]
        bad == \E w \in SetOf(wire) :
                 \/ w[1] = 0
                 \/ \E f \in fields : w[1] = f.number /\ w[2][1] \notin WireKinds(f)
        Value(f) ==
            CASE f.card = "list" -> <<"list", [i \in DOMAIN Of(f) |-> ReadSingle(f, Of(f)[i][2])]>>
              [] f.card = "map" ->
                   <<"map", [k \in {Key(w) : w \in SetOf(Of(f))} |->
                               ReadSingle(f, (CHOOSE w \in SetOf(Of(f)) : Key(w) = k)[2][2][2][2])]>>
              [] OTHER -> ReadSingle(f, Last(Of(f))[2])
        present == {f \in fields : Of(f) # <<>>}
    IN IF bad THEN Undecodable
       ELSE <<[n \in {f.name : f \in present} |-> Value(CHOOSE f \in present : f.name = n)],
              \E w \in SetOf(wire) : \A f \in fields : f.number # w[1]>>

-----------------------------------------------------------------------------
(* encode_message.                                                         *)

Clamp(ms) == IF ms < MinMs THEN MinMs ELSE IF ms > MaxMs THEN MaxMs ELSE ms

EncodeInt64(n) ==
    LET digits == <<n < 0, IF n < 0 THEN -n ELSE n, 0>>
    IN IF digits[2] > MaxSafeInteger THEN <<"string", "number">> \o digits ELSE <<"number">> \o digits

EncodeFloat(value) ==
    CASE value[1] = "nan" -> TextOf("NaN")
      [] value[1] = "inf" -> TextOf(IF value[2] THEN "-Infinity" ELSE "Infinity")
      [] OTHER -> <<"number">> \o Tail(value)

\* Rules that are a JSON object are inlined.  The text of rules is kept
\* parsed, beside its layout.
RECURSIVE ToText(_)
ToText(json) ==
    IF ~IsJsonObject(json) THEN json
    ELSE LET names == SetToSeq(DOMAIN json[2])
         IN <<"object", [i \in DOMAIN names |-> <<names[i], ToText(json[2][names[i]])>>]>>

IsObjectText(string) == string[2] = "json" /\ IsJsonObject(string[4])
EncodeRules(string) == IF IsObjectText(string) THEN ToText(string[4]) ELSE string

RECURSIVE EncodeMessage(_, _)
EncodeSingle(f, value) ==
    CASE f.kind = "double" -> EncodeFloat(value)
      [] f.kind = "int64" -> EncodeInt64(value[2])
      [] f.kind = "enum" -> IF value[2] \in DOMAIN f.names THEN TextOf(f.names[value[2]])
                            ELSE EncodeInt64(value[2])
      [] f.kind = "bytes" -> Base64(value[2])
      [] f.kind = "message" -> EncodeMessage(f.of, value[2])
      [] OTHER -> value

EncodeField(f, value) ==
    CASE f.card = "list" -> <<"array", [i \in DOMAIN value[2] |-> EncodeSingle(f, value[2][i])]>>
      [] f.card = "map" ->
           LET keys == SelectSeq(f.keys, LAMBDA k : k \in DOMAIN value[2])
           IN <<"object", [i \in DOMAIN keys |-> <<keys[i], EncodeSingle(f, value[2][keys[i]])>>]>>
      [] OTHER -> EncodeSingle(f, value)

\* Mutant: bytes that decode are taken to be what their message writes.
LosslessDecoded(name, decoded, bytes) == ~decoded[2]

\* Nested unknown fields, another order or a written default show in the bytes.
Lossless(name, decoded, bytes) == ~decoded[2] /\ CanonicalBytes(name, decoded[1]) = bytes

\* lossless_payload
PayloadMember(mode, type, bytes) ==
    LET name == PayloadDescriptor(mode, type)
        decoded == FromWire(name, bytes)
    IN IF name # NoSchema /\ decoded # Undecodable /\ Lossless(name, decoded, bytes)
       THEN <<"payload", EncodeMessage(name, decoded[1])>>
       ELSE <<"payload_b64", Base64(bytes)>>

EncodeMessage(name, message) ==
    LET FieldOf(n) == CHOOSE f \in SetOf(Schema[name]) : f.name = n
        At(n) == Get(FieldOf(n), message)
        Emitted(f) == /\ SupportsPresence(f) => HasField(f, message)
                      /\ name = EnvelopeName => f.name \notin {"timestamp_unix_ms", "payload"}
        emitted == SelectSeq(Schema[name], Emitted)
        Json(f) == IF name = DescriptorName /\ f.name = "rules" THEN EncodeRules(Get(f, message))
                   ELSE EncodeField(f, Get(f, message))
        transforms == IF name # EnvelopeName THEN <<>>
                      ELSE << <<"timestamp", <<"string", "rfc3339", Clamp(At("timestamp_unix_ms")[2]), 0>> >>,
                              PayloadMember(At("mode")[3], At("message_type")[3], At("payload")[2]) >>
    IN <<"object", [i \in DOMAIN emitted |-> <<emitted[i].name, Json(emitted[i])>>] \o transforms>>

-----------------------------------------------------------------------------
(* decode_message.  A result is <<"ok", value>>, <<"dropped">> for an enum *)
(* name nobody knows, or the error of a request or of an Envelope.         *)

Ok(value) == <<"ok", value>>
UnknownName == <<"dropped">>
InvalidRequest == <<"INVALID_REQUEST">>
InvalidEnvelope(session, message) == <<"INVALID_ENVELOPE", session, message>>
Fails(result) == result[1] \notin {"ok", "dropped"}

Only(test, value) == IF test THEN Ok(value) ELSE InvalidRequest

DecodeInteger(json, lo, hi) ==
    IF ~IsNumeral(json) THEN InvalidRequest
    ELSE Only(Integral(Numeral(json)) /\ InRange(Whole(Numeral(json)), lo, hi), <<"int", Whole(Numeral(json))>>)

DecodeFloat(json) ==
    CASE json = TextOf("NaN") -> Ok(NaN)
      [] json = TextOf("Infinity") -> Ok(<<"inf", FALSE>>)
      [] json = TextOf("-Infinity") -> Ok(<<"inf", TRUE>>)
      [] OTHER -> IF ~IsNumeral(json) THEN InvalidRequest
                  ELSE LET n == Numeral(json)
                           value == Double(n[1], n[2], n[3])
                       IN Only(value[4] < MaxDouble, value)

\* Both forms become the compact text of the object.
DecodeRules(json) ==
    CASE IsJsonObject(json) -> Ok(<<"string", "json", "compact", json>>)
      [] IsString(json) -> Ok(IF IsObjectText(json) THEN [json EXCEPT ![3] = "compact"] ELSE json)
      [] OTHER -> InvalidRequest

RECURSIVE DecodeObject(_, _, _)
DecodeSingle(f, json, depth) ==
    CASE f.kind = "double" -> DecodeFloat(json)
      [] f.kind = "int64" -> DecodeInteger(json, -MaxInt64 - 1, MaxInt64)
      [] f.kind = "enum" ->
           LET known == {n \in DOMAIN f.names : TextOf(f.names[n]) = json}
           IN IF IsString(json) THEN IF known = {} THEN UnknownName ELSE Ok(<<"int", CHOOSE n \in known : TRUE>>)
              ELSE DecodeInteger(json, -MaxInt32 - 1, MaxInt32)
      [] f.kind = "bool" -> Only(json[1] = "bool", json)
      [] f.kind = "string" -> Only(IsString(json), json)
      [] f.kind = "bytes" -> IF IsString(json) /\ json[2] = "base64" THEN Ok(<<"bytes", json[4]>>)
                             ELSE InvalidRequest
      [] f.kind = "message" ->
           LET result == DecodeObject(f.of, json, depth + 1)
           IN IF Fails(result) THEN result ELSE Ok(<<"message", result[2]>>)

\* An element or entry whose enum name is unknown goes; a null one is refused.
DecodeField(f, json, depth) ==
    IF f.card \notin {"list", "map"} THEN DecodeSingle(f, json, depth)
    ELSE IF json[1] # (IF f.card = "list" THEN "array" ELSE "object") THEN InvalidRequest
    ELSE LET items == [k \in DOMAIN json[2] |-> IF json[2][k] = Null THEN InvalidRequest
                                                ELSE DecodeSingle(f, json[2][k], depth)]
             kept == {k \in DOMAIN items : items[k] # UnknownName}
         IN IF \E k \in kept : Fails(items[k]) THEN InvalidRequest
            ELSE IF f.card = "map" THEN Ok(<<"map", [k \in kept |-> items[k][2]]>>)
            ELSE LET list == SelectSeq(items, LAMBDA r : r # UnknownName)
                 IN Ok(<<"list", [i \in DOMAIN list |-> list[i][2]]>>)

\* The message of decoded members; the first failure in the order of the
\* names is the answer, a second member of a oneof failing as such.
MessageOf(set, results) ==
    LET clash(i) == \E j \in 1 .. i - 1 : set[i].oneof # "" /\ set[i].oneof = set[j].oneof
        outcome == [i \in DOMAIN set |-> IF clash(i) THEN InvalidRequest ELSE results[i]]
        failed == SelectSeq(outcome, Fails)
        stored == {i \in DOMAIN set : results[i] # UnknownName /\ Stored(set[i], results[i][2])}
    IN IF failed # <<>> THEN Head(failed)
       ELSE Ok([n \in {set[i].name : i \in stored} |->
                  results[CHOOSE i \in stored : set[i].name = n][2]])

\* decode_fields, without the members the caller handles.
DecodeFields(name, obj, skip, depth) ==
    LET set == SelectSeq(Schema[name], LAMBDA f : f.name \notin skip /\ Member(obj, f.name) # Null)
        Decoded(f) == IF name = DescriptorName /\ f.name = "rules" THEN DecodeRules(obj[f.name])
                      ELSE DecodeField(f, obj[f.name], depth)
    IN MessageOf(set, [i \in DOMAIN set |-> Decoded(set[i])])

\* The payload of an Envelope: its canonical bytes, or the bytes given.
DecodePayload(schema, inline, b64, depth) ==
    LET Bytes(decoded) == IF Fails(decoded) THEN decoded
                          ELSE Ok(<<"bytes", CanonicalBytes(schema, decoded[2])>>)
    IN IF b64 # Null THEN Ok(<<"bytes", b64[4]>>) ELSE Bytes(DecodeObject(schema, inline, depth + 1))

\* decode_envelope, once the plain members are decoded: whatever fails inside
\* is told in band, with the ids that are strings.
EnvelopeWith(obj, plain, depth) ==
    LET Id(n) == IF IsString(Member(obj, n)) THEN obj[n] ELSE TextOf("")
        InBand == InvalidEnvelope(Id("session_id"), Id("message_id"))
        Said(n) == IF n \in DOMAIN plain[2] THEN plain[2][n][3] ELSE ""
        time == Member(obj, "timestamp")
        inline == Member(obj, "payload")
        b64 == Member(obj, "payload_b64")
        schema == PayloadDescriptor(Said("mode"), Said("message_type"))
        With(n, value, default) == IF value = default THEN <<>> ELSE n :> value
        Complete(payload) ==
            IF Fails(payload) THEN InBand
            ELSE Ok(plain[2] @@ With("timestamp_unix_ms", <<"int", IF time = Null THEN 0 ELSE time[3]>>, <<"int", 0>>)
                             @@ With("payload", payload[2], <<"bytes", <<>>>>))
    IN IF \/ Fails(plain)
          \/ ~(time = Null \/ (IsString(time) /\ time[2] = "rfc3339"))
          \/ (inline = Null) = (b64 = Null)
          \/ b64 # Null /\ ~(IsString(b64) /\ b64[2] = "base64")
          \/ inline # Null /\ (schema = NoSchema \/ ~IsJsonObject(inline))
       THEN InBand
       ELSE Complete(DecodePayload(schema, inline, b64, depth))

DecodeEnvelope(obj, depth) ==
    EnvelopeWith(obj, DecodeFields(EnvelopeName, obj, {"timestamp_unix_ms", "payload"}, depth), depth)

DecodeObject(name, json, depth) ==
    CASE depth >= MAX_DEPTH -> InvalidRequest
      [] depth < MAX_DEPTH /\ ~IsJsonObject(json) ->
           IF name = EnvelopeName THEN InvalidEnvelope(TextOf(""), TextOf("")) ELSE InvalidRequest
      [] OTHER -> IF name = EnvelopeName THEN DecodeEnvelope(json[2], depth)
                  ELSE DecodeFields(name, json[2], {}, depth)

\* decode_request
DecodeRequest(name, t) ==
    LET json == ParseJson(t, 0) IN IF json = NotJson THEN InvalidRequest ELSE DecodeObject(name, json, 0)

-----------------------------------------------------------------------------
(* Other spellings of the same text.                                       *)

Quoted(json) == IF IsString(json) THEN <<"number">> \o Numeral(json) ELSE <<"string">> \o json
Scaled(json) == [json EXCEPT ![Len(json) - 1] = @ * 10, ![Len(json)] = @ - 1]

RECURSIVE Respellings(_, _)
ValueSpellings(f, v) ==
    CASE IsNumeral(v) -> IF f.card = "single" /\ f.kind \in {"int64", "double"}
                         THEN {Quoted(v), Scaled(v)} ELSE {}
      [] IsString(v) /\ v[2] = "base64" -> {[v EXCEPT ![3] = "url_safe"]}
      [] IsString(v) /\ v[2] = "rfc3339" -> {[v EXCEPT ![4] = 1]}
      [] IsString(v) /\ v[2] = "json" -> {[v EXCEPT ![3] = "spaced"], EncodeRules(v)}
      [] IsJsonObject(v) /\ f.kind = "message" -> Respellings(f.of, v)
      [] OTHER -> {}

\* The schema's field, or the member that stands for one in an Envelope.
At(t, n) == LET at == {i \in DOMAIN t[2] : t[2][i][1] = n}
            IN IF at = {} THEN Null ELSE t[2][Min(at)][2]

FieldFor(name, t, n) ==
    LET special == name = EnvelopeName /\ n \in {"payload", "payload_b64", "timestamp"}
        Words(m) == IF IsString(At(t, m)) THEN At(t, m)[3] ELSE ""
        schema == PayloadDescriptor(Words("mode"), Words("message_type"))
    IN IF special THEN {[kind |-> IF n = "payload" /\ schema # NoSchema THEN "message" ELSE n,
                         card |-> "single", of |-> schema]}
       ELSE {f \in SetOf(Schema[name]) : f.name = n}

Respellings(name, t) ==
    LET ms == t[2]
        absent == {f \in SetOf(Schema[name]) : At(t, f.name) = Null /\ f.name # "payload"
                                               /\ \A i \in DOMAIN ms : ms[i][1] # f.name}
        plain == {f \in absent : ~SupportsPresence(f) /\ f.name # "timestamp_unix_ms"}
    IN (IF At(t, "x_vendor") = Null THEN {<<"object", Append(ms, <<"x_vendor", TextOf("")>>)>>} ELSE {})
       \cup {<<"object", Reverse(ms)>>}
       \cup {<<"object", Append(ms, <<f.name, Null>>)>> : f \in absent}
       \cup {<<"object", Append(ms, <<f.name, EncodeField(f, DefaultOf(f))>>)>> : f \in plain}
       \cup UNION {UNION {{<<"object", [ms EXCEPT ![i] = <<@[1], v>>]>> : v \in ValueSpellings(f, ms[i][2])}
                             : f \in FieldFor(name, t, ms[i][1])} : i \in DOMAIN ms}

-----------------------------------------------------------------------------

NothingSaid == <<>>

JsonInit == said = NothingSaid /\ document = Null /\ taken = <<>> /\ respells = 0

\* A request over HTTP.
PostBody ==
    /\ said = NothingSaid
    /\ \E body \in Bodies :
         /\ said' = <<body[1], DecodeRequest(body[1], body[2]), body[2]>>
         /\ document' = body[2]
         /\ taken' = said'[2]
    /\ UNCHANGED respells

\* The same message over gRPC, served as JSON (encode_response).
ReceiveMessage ==
    /\ said = NothingSaid
    /\ \E message \in Received :
         /\ said' = <<message[1], Ok(message[2]), Null>>
         /\ document' = EncodeMessage(message[1], message[2])
         /\ taken' = Ok(message[2])
    /\ UNCHANGED respells

\* encode_response
ServeJson ==
    /\ said # NothingSaid /\ ~Fails(taken)
    /\ document' = EncodeMessage(said[1], taken[2])
    /\ UNCHANGED <<said, taken, respells>>

\* A client or a proxy writes the same text in another way.
Respell ==
    /\ said # NothingSaid /\ IsJsonObject(document) /\ respells < MaxRespells
    /\ document' \in Respellings(said[1], document)
    /\ respells' = respells + 1
    /\ UNCHANGED <<said, taken>>

PostBack ==
    /\ said # NothingSaid
    /\ taken' = DecodeRequest(said[1], document)
    /\ UNCHANGED <<said, document, respells>>

JsonNext == PostBody \/ ReceiveMessage \/ ServeJson \/ Respell \/ PostBack

-----------------------------------------------------------------------------

EnvelopeIn(result) == IF Fails(result) \/ "envelope" \notin DOMAIN result[2] THEN <<>>
                    ELSE result[2].envelope[2]
EnvelopeText == At(said[3], "envelope")
Posted == said # NothingSaid /\ said[3] # Null /\ IsJsonObject(said[3]) /\ IsJsonObject(EnvelopeText)

\* What JSON can carry of a message: years up to 9999, and the rules rather
\* than their layout.
Carried(result) ==
    LET env == EnvelopeIn(result)
        Rules(d) == [d EXCEPT !.rules = IF IsObjectText(@) THEN [@ EXCEPT ![3] = "compact"] ELSE @]
    IN CASE "timestamp_unix_ms" \in DOMAIN env ->
              Ok("envelope" :> <<"message", [env EXCEPT !.timestamp_unix_ms = <<"int", Clamp(@[2])>>]>>)
         [] ~Fails(result) /\ "policy_descriptor" \in DOMAIN result[2] ->
              Ok("policy_descriptor" :> <<"message", Rules(result[2].policy_descriptor[2])>>)
         [] OTHER -> result

\* A message is the same message whichever binding it comes and goes by: told
\* as JSON and posted back, however often and however spelled, it decodes to
\* the bytes it had, or to the refusal it got; and a payload that came inline
\* goes out inline (lossless_payload, canonical_bytes, decode_message).
SameMessage ==
    said # NothingSaid =>
        /\ Carried(taken) = Carried(said[2])
        /\ Posted /\ ~Fails(said[2]) /\ At(EnvelopeText, "payload") # Null =>
             At(At(EncodeMessage(said[1], said[2][2]), "envelope"), "payload_b64") = Null

\* A request is taken for exactly what it says: no integer is rounded, and
\* what is wrong inside an Envelope is answered in band under the ids it
\* names, what is wrong around it as a bad request (integer, decode_envelope).
TakenAsWritten ==
    Posted =>
        LET Id(n) == IF IsString(At(EnvelopeText, n)) THEN At(EnvelopeText, n) ELSE TextOf("")
            env == EnvelopeIn(said[2])
            ttl == At(At(EnvelopeText, "payload"), "ttl_ms")
            kept == Get(CHOOSE f \in SetOf(Schema[<<"macp.v1", "SessionStart">>]) : f.name = "ttl_ms",
                        FromWire(<<"macp.v1", "SessionStart">>, env.payload[2])[1])[2]
            n == Numeral(ttl)
        IN /\ Fails(said[2]) =>
                said[2] = IF ParseJson(said[3], 0) = NotJson \/ said[1][2] # "SendRequest" THEN InvalidRequest
                          ELSE InvalidEnvelope(Id("session_id"), Id("message_id"))
           /\ env # <<>> /\ IsJsonObject(At(EnvelopeText, "payload")) /\ IsNumeral(ttl)
                /\ At(EnvelopeText, "message_type") = TextOf("SessionStart") =>
                IF n[3] < 0 THEN kept * 10 ^ (-n[3]) = Signed(n[1], n[2])
                ELSE kept = Signed(n[1], n[2] * 10 ^ n[3])

\* JSON is only a spelling (json/encode.rs, json/decode.rs): a message survives
\* the trip and a request is taken for what it says.
CodecFaithful == SameMessage /\ TakenAsWritten
=============================================================================
