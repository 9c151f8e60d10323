--------------------------- MODULE BinaryRecords ---------------------------
(***************************************************************************)
(* The fixed-size records of src/src/binary/ and the message parser of     *)
(* src/src/protocol/parser.rs.  A record is a table of fields, each with   *)
(* its first byte and the first byte after it, once for the reads of       *)
(* from_bytes, once for the writes of as_bytes and once for the compact    *)
(* bytes a signature covers.  Integers and arrays alike are the bytes they *)
(* take.                                                                   *)
(***************************************************************************)
EXTENDS Integers, Sequences, FiniteSets, FiniteSetsExt

CONSTANTS
    Inputs,           \* records [kind, bytes]: what from_bytes is given
    MessageInputs     \* records [len, magic, type, flags, payload_len]

VARIABLES input, decoded

recordVars == <<input, decoded>>

Size == [ToolInvocation |-> 24, SignedInvocation |-> 120, SignedToolDef |-> 144]

ReadsAt == [
    ToolInvocation   |-> [tool_id |-> <<0, 4>>, arg_layout |-> <<8, 16>>, args_offset |-> <<16, 20>>,
                          args_len |-> <<20, 24>>],
    SignedInvocation |-> [tool_id |-> <<0, 4>>, nonce |-> <<8, 16>>, timestamp |-> <<16, 24>>,
                          args_hash |-> <<24, 56>>, signature |-> <<56, 120>>],
    SignedToolDef    |-> [tool_id |-> <<0, 4>>, schema_hash |-> <<4, 36>>, capabilities |-> <<40, 48>>,
                          signature |-> <<48, 112>>, public_key |-> <<112, 144>>]]

WritesAt == [
    ToolInvocation   |-> [tool_id |-> <<0, 4>>, arg_layout |-> <<8, 16>>, args_offset |-> <<16, 20>>,
                          args_len |-> <<20, 24>>],
    SignedInvocation |-> [tool_id |-> <<0, 4>>, nonce |-> <<8, 16>>, timestamp |-> <<16, 24>>,
                          args_hash |-> <<24, 56>>, signature |-> <<56, 120>>],
    SignedToolDef    |-> [tool_id |-> <<0, 4>>, schema_hash |-> <<4, 36>>, capabilities |-> <<40, 48>>,
                          signature |-> <<48, 112>>, public_key |-> <<112, 144>>]]

\* Bytes that must be zero.
Reserved == [ToolInvocation |-> 4 .. 7, SignedInvocation |-> 4 .. 7, SignedToolDef |-> 36 .. 39]

\* Mutant: the time of an invocation is not signed.
SignedAtTimeless == [
    SignedInvocation |-> [tool_id |-> <<0, 4>>, nonce |-> <<4, 12>>, args_hash |-> <<12, 44>>],
    SignedToolDef    |-> [tool_id |-> <<0, 4>>, schema_hash |-> <<4, 36>>, capabilities |-> <<36, 44>>]]

\* signed_bytes
SignedAt == [
    SignedInvocation |-> [tool_id |-> <<0, 4>>, nonce |-> <<4, 12>>, timestamp |-> <<12, 20>>,
                          args_hash |-> <<20, 52>>],
    SignedToolDef    |-> [tool_id |-> <<0, 4>>, schema_hash |-> <<4, 36>>, capabilities |-> <<36, 44>>]]
SIGNED_BYTES_SIZE == [SignedInvocation |-> 52, SignedToolDef |-> 44]

\* What from_bytes is given is of a kind, and a message of none.
ASSUME RecordsAssumption ==
    /\ \A i \in Inputs :
          /\ i.kind \in DOMAIN Size /\ "magic" \notin DOMAIN i
          /\ \A p \in DOMAIN i.bytes.set : p \in Nat /\ i.bytes.set[p] # 0
    /\ \A m \in MessageInputs : "magic" \in DOMAIN m /\ m.len \in Nat /\ m.payload_len \in Nat

\* A byte string is its length and the values of its bytes that are not zero.
ByteOf(b, p) == IF p \in DOMAIN b.set THEN b.set[p] ELSE 0

\* from_bytes: the length is exact, and reserved bytes are zero.
FromBytesOk(kind, b) ==
    /\ b.len = Size[kind]
    /\ \A p \in Reserved[kind] : ByteOf(b, p) = 0

FromBytes(kind, b) ==
    [f \in DOMAIN ReadsAt[kind] |->
        [k \in 0 .. ReadsAt[kind][f][2] - ReadsAt[kind][f][1] - 1 |-> ByteOf(b, ReadsAt[kind][f][1] + k)]]

\* as_bytes and signed_bytes: the fields at their places, zero elsewhere.
Placing(table, record, size) ==
    [p \in 0 .. size - 1 |->
        LET here == {f \in DOMAIN table : p >= table[f][1] /\ p < table[f][2]}
        IN  IF here = {} THEN 0
            ELSE LET f == CHOOSE x \in here : TRUE IN record[f][p - table[f][1]]]

AsBytes(kind, record) == Placing(WritesAt[kind], record, Size[kind])
SignedBytes(kind, record) == Placing(SignedAt[kind], record, SIGNED_BYTES_SIZE[kind])

----------------------------------------------------------------------------
(* Messages: an envelope of 8 bytes and its payload *)

EnvelopeSize == 8
MessageTypes == 1 .. 6
KNOWN_FLAG_BITS == 0 .. 7      \* streaming, compressed and signed

\* MessageParser::parse
ParseMessage(m) ==
    IF m.len < EnvelopeSize THEN "InsufficientData"
    ELSE IF ~m.magic THEN "InvalidMagic"
    ELSE IF m.type \notin MessageTypes THEN "UnknownMessageType"
    ELSE IF m.flags \notin KNOWN_FLAG_BITS THEN "ValidationFailed"
    ELSE IF m.len < EnvelopeSize + m.payload_len THEN "InsufficientData"
    ELSE IF m.len # EnvelopeSize + m.payload_len THEN "ValidationFailed"
    ELSE "ok"

\* extract_flags and to_u8
ExtractFlags(flags) ==
    [streaming |-> flags % 2 = 1, compressed |-> (flags \div 2) % 2 = 1, signed |-> (flags \div 4) % 2 = 1]
ToU8(f) ==
    (IF f.streaming THEN 1 ELSE 0) + (IF f.compressed THEN 2 ELSE 0) + (IF f.signed THEN 4 ELSE 0)

----------------------------------------------------------------------------
(* The inputs, as behaviours of one step *)

NotDecoded == <<>>

RecordsInit == input \in Inputs \cup MessageInputs /\ decoded = NotDecoded

IsMessageInput == "magic" \in DOMAIN input

Decoding ==
    /\ decoded = NotDecoded
    /\ decoded' = IF IsMessageInput THEN <<ParseMessage(input)>>
                  ELSE IF FromBytesOk(input.kind, input.bytes)
                  THEN <<"ok", FromBytes(input.kind, input.bytes)>> ELSE <<"error">>
    /\ UNCHANGED input

Zero(kind) == FromBytes(kind, [len |-> Size[kind], set |-> <<>>])

\* The bytes that the signature and its key take.
Seal(kind) ==
    UNION {ReadsAt[kind][f][1] .. ReadsAt[kind][f][2] - 1 :
              f \in DOMAIN ReadsAt[kind] \cap {"signature", "public_key"}}

\* Bytes that are accepted are the bytes that would be written, so a record has
\* one encoding; and whatever is changed outside the signature changes
\* what the signature covers.  Of a message, no bit and no byte is lost
\* between the envelope and its parts.
RecordsCanonical ==
    decoded # NotDecoded /\ decoded[1] = "ok" =>
        IF IsMessageInput
        THEN ToU8(ExtractFlags(input.flags)) = input.flags /\ input.len - EnvelopeSize = input.payload_len
        ELSE LET kind == input.kind
                 changed == {p \in DOMAIN input.bytes.set : p < Size[kind] /\ p \notin Seal(kind)}
             IN  /\ \A p \in 0 .. Size[kind] - 1 : AsBytes(kind, decoded[2])[p] = ByteOf(input.bytes, p)
                 /\ (changed # {} /\ kind \in DOMAIN SignedAt) =>
                        SignedBytes(kind, decoded[2]) # SignedBytes(kind, Zero(kind))
=============================================================================
