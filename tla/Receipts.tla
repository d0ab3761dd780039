------------------------------ MODULE Receipts ------------------------------
(***************************************************************************)
(* Decision receipts: the configuration of the issuer and its keys         *)
(* (src/receipts.rs, crates/macp-core/src/receipt/keys.rs), the building   *)
(* of a receipt (receipt/build.rs) and its verification away from the      *)
(* runtime (receipt/verify.rs, crates/macp-cli/src/main.rs).               *)
(*                                                                         *)
(* The runtime is restarted with other keys while the receipts it stored   *)
(* stay, and a verifier adds the key set that is published now to those it *)
(* fetched before.  A signature names the key and the very header and body *)
(* that were signed: none can be made without the key.  That one receipt   *)
(* is kept per session is the subject of Registry and Backends.            *)
(*                                                                         *)
(* First the hash of a Commitment (crates/macp-core/src/                   *)
(* commitment_hash.rs), of its decoded payload and of its protobuf         *)
(* encoding.  SHA-256 is free of collisions here: a hash is the canonical  *)
(* text it is of.  The strings are members of small sets, "" among them,   *)
(* and an encoding is the sequence of its fields.  The seven string fields *)
(* are treated alike, so an instance names those it tells apart.           *)
(***************************************************************************)
EXTENDS Naturals, Sequences, FiniteSets, SequencesExt

CONSTANT StringFields   \* the string fields of a payload

TagOf ==
    [commitment_id |-> 1, action |-> 2, authority_scope |-> 3, reason |-> 4, mode_version |-> 5,
     policy_version |-> 6, configuration_version |-> 7, outcome_positive |-> 8, supersedes |-> 9]

ASSUME CommitmentHashConstants == StringFields \subseteq {f \in DOMAIN TagOf : TagOf[f] \in 1 .. 7}

PayloadTags == 1 .. 9
CommitmentRefTags == 1 .. 2

\* CommitmentRef, by tag: the session and the hash that a Commitment supersedes.
NoReference == [set |-> FALSE, session_id |-> "", commitment_hash |-> ""]

-----------------------------------------------------------------------------
(* JSON values, and the projection of a payload.                           *)

Str(s) == <<"string", s>>
Bool(b) == <<"bool", b>>
Object(members) == <<"object", members>>

ProjectReference(r) ==
    Object([session_id |-> Str(r.session_id), commitment_hash |-> Str(r.commitment_hash)])

\* Every string and outcome_positive are there, empty or not; supersedes only
\* when it is set.
Project(p) ==
    Object([m \in StringFields \cup {"outcome_positive"}
                  \cup (IF p.supersedes.set THEN {"supersedes"} ELSE {}) |->
              CASE m = "outcome_positive" -> Bool(p.outcome_positive)
                [] m = "supersedes" -> ProjectReference(p.supersedes)
                [] OTHER -> Str(p.text[m])])

\* The members in the one order of their names, behind the label.
Canonicalize(p) == <<"macp-commitment-hash/1", Project(p)>>

Hash(p) == [form |-> "canonical", of |-> Canonicalize(p)]

\* The prefix and 64 lowercase digits: any other spelling is refused.
IsCanonical(h) == h.form = "canonical"

-----------------------------------------------------------------------------
(* The encoding.  A field is its tag, its wire type, the text of a string  *)
(* or a number, and the fields of a nested message.  A "cut" field runs    *)
(* past the end; the text "bad" is not UTF-8.                              *)

Field(tag, type, text, body) == [tag |-> tag, type |-> type, text |-> text, body |-> body]

WireTypes == {"varint", "fixed32", "fixed64", "len"}

FieldFault(f, known) ==
    CASE f.tag = 0 -> "malformed"
      [] f.tag # 0 /\ f.tag \notin known -> "unknown"
      [] f.tag \in known /\ f.type \notin WireTypes -> "malformed"
      [] OTHER -> "none"

FirstFault(faults) ==
    IF \E i \in DOMAIN faults : faults[i] # "none"
    THEN faults[CHOOSE i \in DOMAIN faults :
                  faults[i] # "none" /\ \A j \in 1 .. i - 1 : faults[j] = "none"]
    ELSE "none"

ScanReference(body) ==
    FirstFault([i \in DOMAIN body |-> FieldFault(body[i], CommitmentRefTags)])

\* scan_known_fields: what a decoder would drop in silence is a fault here.
ScanKnownFields(wire) ==
    FirstFault([i \in DOMAIN wire |->
        IF FieldFault(wire[i], PayloadTags) = "none" /\ wire[i].tag = TagOf.supersedes
              /\ wire[i].type = "len"
        THEN ScanReference(wire[i].body)
        ELSE FieldFault(wire[i], PayloadTags)])

\* The last occurrence of a scalar counts.
LastOf(fields, tag, default) ==
    LET at == {i \in DOMAIN fields : fields[i].tag = tag}
    IN IF at = {} THEN default ELSE fields[CHOOSE i \in at : \A j \in at : j <= i].text

\* The decoder (prost): a known field has its type and strings are UTF-8;
\* fields it does not know are dropped; the occurrences of supersedes merge.
DecodesAs(f, type) == f.type = type /\ f.text # "bad"

Decodes(wire) ==
    \A i \in DOMAIN wire :
        LET f == wire[i] IN
        CASE f.tag \in 1 .. 7 -> DecodesAs(f, "len")
          [] f.tag = TagOf.outcome_positive -> DecodesAs(f, "varint")
          [] f.tag = TagOf.supersedes ->
               /\ f.type = "len"
               /\ \A j \in DOMAIN f.body :
                    f.body[j].tag \in CommitmentRefTags => DecodesAs(f.body[j], "len")
          [] OTHER -> f.type \in WireTypes

Decode(wire) ==
    LET refs == SelectSeq(wire, LAMBDA f : f.tag = TagOf.supersedes)
        merged == FlattenSeq([i \in DOMAIN refs |-> refs[i].body])
    IN [text |-> [f \in StringFields |-> LastOf(wire, TagOf[f], "")],
        outcome_positive |-> LastOf(wire, TagOf.outcome_positive, "0") # "0",
        supersedes |->
          IF refs = <<>> THEN NoReference
          ELSE [set |-> TRUE, session_id |-> LastOf(merged, 1, ""),
                commitment_hash |-> LastOf(merged, 2, "")]]

\* commitment_hash_of_wire has an answer; and it.
Hashable(wire) == ScanKnownFields(wire) = "none" /\ Decodes(wire)
HashOfWire(wire) == Hash(Decode(wire))

VerifyCommitmentHash(wire, claimed) ==
    CASE ~Hashable(wire) -> "cannot_verify"
      [] Hashable(wire) /\ IsCanonical(claimed) /\ claimed = HashOfWire(wire) -> "match"
      [] OTHER -> "mismatch"

-----------------------------------------------------------------------------
(* Receipts.                                                               *)

CONSTANTS
    Wires,        \* the resolving Commitment's encoding, by session
    KeyEnvs,      \* the environments the runtime may be started with
    MaxBoots      \* bound: starts of the runtime

\* Encodings and documents are sequences, and only the reference is nested.
ASSUME ReceiptConstants ==
    /\ \A s \in DOMAIN Wires :
        /\ Wires[s] \in Seq(ToSet(Wires[s]))
        /\ \A f \in ToSet(Wires[s]) :
            f.body \in Seq(ToSet(f.body)) /\ (f.tag # TagOf.supersedes => f.body = <<>>)
    /\ \A e \in KeyEnvs : e.retired.keys \in Seq(ToSet(e.retired.keys))

VARIABLES
    issuer,     \* ReceiptConfig of the running process, or Down
    boots,      \* starts so far
    stored,     \* the receipt of each session, in storage
    trusted,    \* TrustedKeys of the verifier: kid to key
    signatures, \* history: what was ever signed
    named       \* history: the keys ever published, with their kids

receiptVars == <<issuer, boots, stored, trusted, signatures, named>>

NoSigner == [kid |-> "", key |-> ""]
Down == [up |-> FALSE, signer |-> NoSigner, keys |-> <<>>, name |-> ""]
NoneStored == [format |-> "none"]

-----------------------------------------------------------------------------
(* Keys.  A key text is a PEM or a JWK with members d, x and kid; "" is a  *)
(* member that is missing and "bad" one that does not decode.  The public  *)
(* key of a private key has its name.                                      *)

LoadRefused(text, kid) ==
    \/ text.form \notin {"pem", "jwk"}
    \/ text.d = "bad"
    \/ text.form = "pem" /\ kid = ""
    \/ /\ text.form = "jwk"
       /\ \/ ~text.okp \/ text.d = ""
          \/ text.kid # "" /\ kid # "" /\ text.kid # kid
          \/ text.kid = "" /\ kid = ""
          \/ text.x # "" /\ text.x # text.d

Load(text, kid) == [key |-> text.d, kid |-> IF text.form = "jwk" /\ text.kid # "" THEN text.kid ELSE kid]

\* KeySet::retired_from_jwks: a set of public keys, each under its own kid.
RetiredRefused(doc) ==
    \/ ~doc.array
    \/ \E i \in DOMAIN doc.keys :
         LET k == doc.keys[i] IN
         \/ k.kid = "" \/ k.private \/ ~k.okp \/ k.x \in {"", "bad"}
         \/ \E j \in 1 .. i - 1 : doc.keys[j].kid = k.kid

Public(kid, key) == [kid |-> kid, x |-> key, okp |-> TRUE, private |-> FALSE]

\* Mutant: the active key takes the place of any retired key with its kid.
WithActiveClashesReplacing(keys, signer) == FALSE

\* KeySet::with_active: the active key first; a kid never names two keys.
WithActiveClashes(keys, signer) ==
    \E i \in DOMAIN keys : keys[i].kid = signer.kid /\ keys[i].x # signer.key

WithActive(keys, signer) ==
    <<Public(signer.kid, signer.key)>> \o RemoveFirstMatch(keys, LAMBDA k : k.kid = signer.kid)

-----------------------------------------------------------------------------
(* ReceiptConfig::from_env.  A text that is "unset" was not given.         *)

Given(text) == text.form # "unset"
SigningText(e) == IF Given(e.path) THEN e.path ELSE e.inline
Signs(e) == Given(SigningText(e))

EnvRefused(e) ==
    \/ Given(e.path) /\ Given(e.inline)
    \/ Signs(e) /\ LoadRefused(SigningText(e), e.kid)
    \/ ~Signs(e) /\ e.kid # ""
    \/ RetiredRefused(e.retired)
    \/ Signs(e) /\ e.runtime_id = ""
    \/ Signs(e) /\ WithActiveClashes(e.retired.keys, Load(SigningText(e), e.kid))

FromEnv(e) ==
    LET signer == IF Signs(e) THEN Load(SigningText(e), e.kid) ELSE NoSigner IN
    [up |-> TRUE, signer |-> signer,
     keys |-> IF Signs(e) THEN WithActive(e.retired.keys, signer) ELSE e.retired.keys,
     name |-> IF e.runtime_id = "" THEN "macp-runtime" ELSE e.runtime_id]

-----------------------------------------------------------------------------
(* Building.  A receipt is its format, its attestations and its body, the  *)
(* other members, whose canonical text does not depend on their order.     *)

ReceiptBody(r) == [m \in DOMAIN r \ {"attestations"} |-> r[m]]

JwsHeader(kid) == [object |-> TRUE, alg |-> "EdDSA", kid |-> kid]

Jws(signer, body) ==
    [type |-> "jws", parts |-> 3, detached |-> TRUE, header |-> JwsHeader(signer.kid),
     signature |-> [key |-> signer.key, header |-> JwsHeader(signer.kid), body |-> body]]

Unsigned(s, wire, name) ==
    [format |-> "macp-receipt/1", session |-> s, commitment |-> Project(Decode(wire)),
     hash |-> HashOfWire(wire), wire |-> [form |-> "bytes", bytes |-> wire], name |-> name]

Build(s, wire, config) ==
    LET body == Unsigned(s, wire, config.name)
        attestations == IF config.signer = NoSigner THEN <<>> ELSE <<Jws(config.signer, body)>>
    IN [m \in DOMAIN body \cup {"attestations"} |->
          IF m = "attestations" THEN attestations ELSE body[m]]

-----------------------------------------------------------------------------
(* Verification.                                                           *)

\* payload_of: only the frozen members, each of its type; absent ones take
\* their defaults.
IsObject(v) == v[1] = "object"
StringsOnly(members, names) == \A m \in names \cap DOMAIN members : members[m][1] = "string"
StringOr(members, m) == IF m \in DOMAIN members THEN members[m][2] ELSE ""

IsReference(v) ==
    /\ IsObject(v)
    /\ DOMAIN v[2] \subseteq {"session_id", "commitment_hash"}
    /\ StringsOnly(v[2], DOMAIN v[2])

IsPayload(v) ==
    /\ IsObject(v)
    /\ DOMAIN v[2] \subseteq StringFields \cup {"outcome_positive", "supersedes"}
    /\ StringsOnly(v[2], StringFields)
    /\ "outcome_positive" \in DOMAIN v[2] => v[2].outcome_positive[1] = "bool"
    /\ "supersedes" \in DOMAIN v[2] => IsReference(v[2].supersedes)

PayloadOf(v) ==
    LET members == v[2] IN
    [text |-> [f \in StringFields |-> StringOr(members, f)],
     outcome_positive |-> "outcome_positive" \in DOMAIN members /\ members.outcome_positive[2],
     supersedes |->
       IF "supersedes" \notin DOMAIN members THEN NoReference
       ELSE [set |-> TRUE, session_id |-> StringOr(members.supersedes[2], "session_id"),
             commitment_hash |-> StringOr(members.supersedes[2], "commitment_hash")]]

Integrity(r) ==
    CASE ~IsPayload(r.commitment) -> "cannot_verify"
      [] IsPayload(r.commitment) /\ r.hash # Hash(PayloadOf(r.commitment)) -> "mismatch"
      [] OTHER ->
           CASE r.wire.form = "absent" -> "match"
             [] r.wire.form = "garbage" -> "cannot_verify"
             [] OTHER ->
                  LET outcome == VerifyCommitmentHash(r.wire.bytes, r.hash) IN
                  IF outcome = "match" /\ Project(Decode(r.wire.bytes)) # r.commitment
                  THEN "mismatch" ELSE outcome

\* Mutant: the signature is checked, but not over the body shown.
AttestationUnbound(a, body, keys) ==
    CASE a.type # "jws" -> "unsupported"
      [] a.type = "jws" /\ (a.parts # 3 \/ ~a.detached) -> "invalid"
      [] OTHER ->
           CASE a.header.alg # "EdDSA" -> "unsupported"
             [] a.header.alg = "EdDSA" /\ a.header.kid \notin DOMAIN keys -> "unknown_key"
             [] OTHER -> IF /\ a.signature.key = keys[a.header.kid]
                            /\ a.signature.header = a.header
                         THEN "valid" ELSE "invalid"

Attestation(a, body, keys) ==
    CASE a.type # "jws" -> "unsupported"
      [] a.type = "jws" /\ (a.parts # 3 \/ ~a.detached) -> "invalid"
      [] OTHER ->
           CASE ~a.header.object \/ a.header.alg # "EdDSA" -> "unsupported"
             [] a.header.object /\ a.header.alg = "EdDSA" /\ a.header.kid \notin DOMAIN keys ->
                  "unknown_key"
             [] OTHER ->
                  IF a.signature = [key |-> keys[a.header.kid], header |-> a.header, body |-> body]
                  THEN "valid" ELSE "invalid"

VerifyReceipt(r, keys) ==
    CASE r.format # "macp-receipt/1" ->
           [integrity |-> "none", attestations |-> <<>>, verdict |-> "refused"]
      [] r.format = "macp-receipt/1" /\ Integrity(r) # "match" ->
           [integrity |-> Integrity(r), attestations |-> <<>>, verdict |-> "unverified"]
      [] OTHER ->
           LET outcomes == [i \in DOMAIN r.attestations |->
                              Attestation(r.attestations[i], ReceiptBody(r), keys)]
           IN [integrity |-> "match", attestations |-> outcomes,
               verdict |-> IF \E i \in DOMAIN outcomes : outcomes[i] = "valid"
                           THEN "attested" ELSE "integrity_only"]

\* add_jwks: the Ed25519 keys of a document join, a later one replacing an
\* earlier one under the same kid; a key without kid or x ends it there.
AddJwks(doc, keys) ==
    LET usable == {i \in DOMAIN doc : doc[i].okp}
        stop == {i \in usable : doc[i].kid = "" \/ doc[i].x = ""}
        taken == {i \in usable : \A j \in stop : i < j}
        kids == {doc[i].kid : i \in taken}
    IN [kid \in DOMAIN keys \cup kids |->
          IF kid \in kids THEN doc[Max({i \in taken : doc[i].kid = kid})].x ELSE keys[kid]]

-----------------------------------------------------------------------------

ReceiptsInit ==
    /\ issuer = Down /\ boots = 0 /\ stored = [s \in DOMAIN Wires |-> NoneStored]
    /\ trusted = <<>> /\ signatures = {} /\ named = {}

\* A start with an environment that is refused is a process that exits.
BootReceipts(e) ==
    /\ ~issuer.up /\ boots < MaxBoots /\ ~EnvRefused(e)
    /\ issuer' = FromEnv(e) /\ boots' = boots + 1
    /\ named' = named \cup {[kid |-> issuer'.keys[i].kid, key |-> issuer'.keys[i].x] :
                              i \in DOMAIN issuer'.keys}
    /\ UNCHANGED <<stored, trusted, signatures>>

HaltReceipts ==
    /\ issuer.up
    /\ issuer' = Down
    /\ UNCHANGED <<boots, stored, trusted, signatures, named>>

\* decision_receipt for a session without one: nothing is issued for bytes
\* that cannot be hashed, and the store may fail after the signature is made.
IssueReceipt(s) ==
    LET receipt == Build(s, Wires[s], issuer) IN
    /\ issuer.up /\ stored[s] = NoneStored /\ Hashable(Wires[s])
    /\ stored' \in {stored, [stored EXCEPT ![s] = receipt]}
    /\ signatures' = signatures
         \cup {receipt.attestations[i].signature : i \in DOMAIN receipt.attestations}
    /\ UNCHANGED <<issuer, boots, trusted, named>>

\* The verifier fetches the published keys (GetReceiptKeys).
FetchReceiptKeys ==
    /\ issuer.up
    /\ trusted' = AddJwks(issuer.keys, trusted)
    /\ UNCHANGED <<issuer, boots, stored, signatures, named>>

ReceiptsNext ==
    \/ \E e \in KeyEnvs : BootReceipts(e)
    \/ HaltReceipts
    \/ \E s \in DOMAIN Wires : IssueReceipt(s)
    \/ FetchReceiptKeys

ReceiptsSpec == ReceiptsInit /\ [][ReceiptsNext]_receiptVars

-----------------------------------------------------------------------------
(* Properties.                                                             *)

KidsKept == \A p, q \in named : p.kid = q.kid => p.key = q.key

Issued == {s \in DOMAIN Wires : stored[s] # NoneStored}

\* What the runtime issued keeps verifying, whatever keys it is restarted
\* with: its integrity needs no key and always holds; a verifier that has the
\* signer's key finds it attested; and as long as no kid was given to a second
\* key, no verifier ever finds a signature invalid, only its key unknown
\* (receipt/build.rs build against receipt/verify.rs verify).
ReceiptsStand ==
    \A s \in Issued :
        LET v == VerifyReceipt(stored[s], trusted) IN
        /\ v.integrity = "match"
        /\ \A i \in DOMAIN v.attestations :
             LET signature == stored[s].attestations[i].signature IN
             /\ KidsKept => v.attestations[i] \in {"valid", "unknown_key"}
             /\ signature.header.kid \in DOMAIN trusted
                  /\ trusted[signature.header.kid] = signature.key => v.verdict = "attested"

\* What is published can be relied on: no private member, one key under each
\* kid, every retired key that the operator listed still among them, and the
\* key that signs now (receipt/keys.rs KeySet).
PublishedSound ==
    issuer.up =>
        LET keys == issuer.keys IN
        /\ \A i, j \in DOMAIN keys :
             ~keys[i].private /\ (keys[i].kid = keys[j].kid => i = j)
        /\ issuer.signer # NoSigner => \E i \in DOMAIN keys :
             keys[i].kid = issuer.signer.kid /\ keys[i].x = issuer.signer.key
        /\ \E e \in KeyEnvs :
             /\ FromEnv(e) = issuer
             /\ \A i \in DOMAIN e.retired.keys : \E j \in DOMAIN keys :
                  keys[j].kid = e.retired.keys[i].kid /\ keys[j].x = e.retired.keys[i].x

\* The keys of the runtime serve its receipts, over every rotation.
KeysServe == ReceiptsStand /\ PublishedSound

\* A stored receipt as it may reach a verifier: with a member replaced by that
\* of another receipt,
Swapped(r) ==
    {[r EXCEPT ![m] = q[m]] : q \in {stored[s] : s \in Issued}, m \in DOMAIN r}
    \cup {[q EXCEPT !.attestations = r.attestations] : q \in {stored[s] : s \in Issued}}

\* or left out, spelled otherwise or added to,
Respelled(r) ==
    {[r EXCEPT !.wire = [form |-> form, bytes |-> <<>>]] : form \in {"absent", "garbage"}}
    \cup {[r EXCEPT !.hash.form = "uppercase"], [r EXCEPT !.format = "macp-receipt/2"]}
    \cup {[r EXCEPT !.commitment[2] = [m \in DOMAIN @ \ {d} |-> @[m]]] : d \in DOMAIN r.commitment[2]}
    \cup {[r EXCEPT !.commitment[2] = [m \in DOMAIN @ \cup {"other"} |->
                                         IF m = "other" THEN Str("a") ELSE @[m]]]}
    \cup {[r EXCEPT !.commitment[2].outcome_positive = Bool(~@[2])],
          [r EXCEPT !.commitment[2].outcome_positive = Str("true")]}

Lengthened(r) ==
    {[r EXCEPT !.wire.bytes = @ \o <<f>>] : f \in
       {Field(10, "len", "a", <<>>), Field(2, "len", "b", <<>>), Field(0, "len", "", <<>>),
        Field(9, "len", "", <<Field(3, "len", "a", <<>>)>>), Field(8, "len", "1", <<>>)}}

\* or with an attestation that claims something else.
Reclaimed(r) ==
    {[r EXCEPT !.attestations[i].header.kid = kid] : i \in DOMAIN r.attestations, kid \in DOMAIN trusted}
    \cup {[r EXCEPT !.attestations[i].header.alg = "none"] : i \in DOMAIN r.attestations}
    \cup {[r EXCEPT !.attestations[i].parts = 2] : i \in DOMAIN r.attestations}
    \cup {[r EXCEPT !.attestations[i].type = "vendor"] : i \in DOMAIN r.attestations}

Altered(r) == Swapped(r) \cup Respelled(r) \cup Lengthened(r) \cup Reclaimed(r)

\* What a verifier is told is so: a receipt is attested only when its whole
\* body was signed by the key that the verifier has under that kid, and its
\* integrity matches only when every reading of it, the members shown and the
\* bytes, gives the Commitment that the hash is of and no field besides
\* (receipt/verify.rs integrity and attestation; commitment_hash.rs
\* scan_known_fields).
AttestedAsSigned ==
    \A s \in Issued : \A r \in Altered(stored[s]) :
        LET v == VerifyReceipt(r, trusted) IN
        /\ v.verdict = "attested" =>
             \E g \in signatures :
                 /\ g.body = ReceiptBody(r) /\ g.header.kid \in DOMAIN trusted
                 /\ trusted[g.header.kid] = g.key
        /\ v.integrity = "match" =>
             /\ r.hash = Hash(PayloadOf(r.commitment))
             /\ r.wire.form = "bytes" =>
                  /\ Project(Decode(r.wire.bytes)) = r.commitment
                  /\ \A i \in DOMAIN r.wire.bytes :
                       LET f == r.wire.bytes[i] IN
                       /\ f.tag \in PayloadTags
                       /\ \A j \in DOMAIN f.body : f.body[j].tag \in CommitmentRefTags

\* A receipt means what it says, for as long as a verifier has the keys
\* (keys.rs, verify.rs): the runtime's keys serve every receipt it issued, and
\* no other text passes for one.
ReceiptsSound == KeysServe /\ AttestedAsSigned
=============================================================================
