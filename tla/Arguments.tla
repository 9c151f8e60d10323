----------------------------- MODULE Arguments -----------------------------
(***************************************************************************)
(* The arguments of a tools/call: encode_json_arguments and                *)
(* tool_input_schema_json (src/src/compat/complete_adapter.rs) on the side *)
(* of the MCP client, SchemaValidator::validate_shared_args                *)
(* (src/src/protocol/schema.rs) and the reads of SharedArgs                *)
(* (src/src/dispatch/handler.rs) on the side of the tool.  A field is a    *)
(* record [type, offset, size, range]; range is <<>> or <<min, max>>.  A   *)
(* JSON value is [kind, n, bytes]: n its number, bytes its UTF-8 text or   *)
(* its serialization.                                                      *)
(***************************************************************************)
EXTENDS Integers, Sequences, FiniteSets, FiniteSetsExt

CONSTANTS
    Schemas,          \* records [fields, required]
    ArgumentSets,     \* arguments objects: functions from names to JSON values
    MaxFields,        \* 16
    MaxU16            \* u16::MAX

\* ArgType
ArgTypes == {"Null", "Bool", "I32", "I64", "F64", "String", "Bytes", "Array", "Object"}
U16 == 0 .. MaxU16

\* Places and sizes are u16; only new_enum gives a field
\* a range, and makes it an I32.
FieldDefOk(field) ==
    /\ field.type \in ArgTypes /\ field.offset \in U16 /\ field.size \in U16
    /\ field.range = <<>> \/ (field.type = "I32" /\ field.range \in Nat \X Nat)

ASSUME ArgumentsAssumption ==
    /\ MaxFields \in Nat /\ MaxU16 \in Nat
    /\ \A s \in Schemas :
          /\ s.fields \in Seq({s.fields[i] : i \in DOMAIN s.fields})
          /\ \A i \in DOMAIN s.fields : FieldDefOk(s.fields[i])
    /\ \A args \in ArgumentSets : \A name \in DOMAIN args :
          LET bytes == args[name].bytes IN bytes \in Seq({bytes[k] : k \in DOMAIN bytes})

VARIABLES schema, arguments, call

argumentVars == <<schema, arguments, call>>

FieldNames == <<"first", "second", "third">>    \* field i is called FieldNames[i]
NameOf(i) == FieldNames[i]

End(field) == field.offset + field.size

MaxLen(s) == IF s.fields = <<>> THEN 0 ELSE Max({End(s.fields[i]) : i \in DOMAIN s.fields})

\* The bytes of a fixed-width number: its k-th byte is a value of its own.
ToLeBytes(n, width) == [k \in 1 .. width |-> <<n, k>>]

FitsI32(n) == n < 2 ^ 8        \* i32::try_from, scaled down; i64 holds every n

\* What encode_json_argument demands of a value ...
ValueFits(field, v) ==
    CASE field.type = "Null" -> v.kind = "null"
      [] field.type = "Bool" -> field.size >= 1 /\ v.kind = "bool"
      [] field.type = "I32" /\ field.range # <<>> ->
            field.size >= 1 /\ v.kind = "number" /\ v.n >= field.range[1] /\ v.n <= field.range[2]
      [] field.type = "I32" /\ field.range = <<>> -> field.size >= 4 /\ v.kind = "number" /\ FitsI32(v.n)
      [] field.type \in {"I64", "F64"} -> field.size >= 8 /\ v.kind = "number"
      [] field.type \in {"String", "Bytes"} -> v.kind = "string" /\ Len(v.bytes) <= field.size
      [] field.type \in {"Array", "Object"} ->
            v.kind = (IF field.type = "Array" THEN "array" ELSE "object") /\ Len(v.bytes) <= field.size

\* ... and the bytes write_field puts at the offset.
ValueBytes(field, v) ==
    CASE field.type = "Null" -> <<>>
      [] field.type = "Bool" \/ (field.type = "I32" /\ field.range # <<>>) -> <<v.n>>
      [] field.type = "I32" /\ field.range = <<>> -> ToLeBytes(v.n, 4)
      [] field.type \in {"I64", "F64"} -> ToLeBytes(v.n, 8)
      [] OTHER -> v.bytes

Given(args, i) == NameOf(i) \in DOMAIN args

\* encode_json_arguments
EncodeError(s, args) ==
    \/ \E name \in DOMAIN args : \A i \in DOMAIN s.fields : NameOf(i) # name
    \/ Len(s.fields) > MaxFields
    \/ \E i \in DOMAIN s.fields :
          IF Given(args, i) THEN ~ValueFits(s.fields[i], args[NameOf(i)]) ELSE i \in s.required

\* Mutant: a field is written after the one before, not at its offset.
WrittenByPacked(s, args, i, pos) ==
    Given(args, i) /\ pos > i /\ pos <= i + Len(ValueBytes(s.fields[i], args[NameOf(i)]))

\* Position pos of the buffer is written by field i.
WrittenBy(s, args, i, pos) ==
    /\ Given(args, i)
    /\ pos > s.fields[i].offset
    /\ pos <= s.fields[i].offset + Len(ValueBytes(s.fields[i], args[NameOf(i)]))

Buffer(s, args) ==
    [pos \in 1 .. MaxLen(s) |->
        LET writers == {i \in DOMAIN s.fields : WrittenBy(s, args, i, pos)}
        IN  IF writers = {} THEN 0
            ELSE LET i == Max(writers)      \* the last write stays
                 IN  ValueBytes(s.fields[i], args[NameOf(i)])[pos - s.fields[i].offset]]

Layout(s, args) ==
    [i \in 1 .. MaxFields |->
        IF i \in DOMAIN s.fields /\ Given(args, i) THEN s.fields[i].type ELSE "Null"]

\* validate_shared_args
PresentFields(s, layout) == {i \in DOMAIN s.fields : layout[i] # "Null"}

DeclaredLen(s, layout) ==
    IF PresentFields(s, layout) = {} THEN 0 ELSE Max({End(s.fields[i]) : i \in PresentFields(s, layout)})

InRange(field, byte) == field.range # <<>> => byte >= field.range[1] /\ byte <= field.range[2]

SharedArgsValid(s, data, layout) ==
    /\ Len(s.fields) <= MaxFields
    /\ \A i \in PresentFields(s, layout) :
          LET field == s.fields[i]
          IN  /\ layout[i] = field.type
              /\ End(field) <= Len(data)
              /\ field.range # <<>> => field.offset < Len(data) /\ InRange(field, data[field.offset + 1])
    /\ \A i \in Len(s.fields) + 1 .. MaxFields : layout[i] = "Null"
    /\ Len(data) <= DeclaredLen(s, layout)
    /\ s.required \subseteq PresentFields(s, layout)

\* read_bytes_at and its siblings: `width` bytes at the offset of a field.
ReadAt(data, offset, width) ==
    IF offset + width > Len(data) THEN "OutOfBounds" ELSE SubSeq(data, offset + 1, offset + width)

----------------------------------------------------------------------------
(* A tools/call, as a behaviour of one step *)

NoCall == <<>>

ArgumentsInit == schema \in Schemas /\ arguments \in ArgumentSets /\ call = NoCall

\* handle_tools_call, from the arguments to execute_authorized.
CallTool ==
    /\ call = NoCall
    /\ LET data   == Buffer(schema, arguments)
           layout == Layout(schema, arguments)
       IN  call' = IF EncodeError(schema, arguments) THEN [outcome |-> "invalid params"]
                   ELSE IF ~SharedArgsValid(schema, data, layout) THEN [outcome |-> "validation failed"]
                   ELSE [outcome |-> "executed", data |-> data, layout |-> layout]
    /\ UNCHANGED <<schema, arguments>>

----------------------------------------------------------------------------
(* Properties *)

\* tool_input_schema_json: what tools/list tells the client about a field.  A
\* client that keeps to it passes values of the right type and length.
AdvertisedType(field) ==
    CASE field.type = "Null" -> "null"
      [] field.type = "Bool" -> "bool"
      [] field.type \in {"I32", "I64", "F64"} -> "number"
      [] field.type \in {"String", "Bytes"} -> "string"
      [] field.type = "Array" -> "array"
      [] field.type = "Object" -> "object"

Conforms ==
    /\ \A name \in DOMAIN arguments : \E i \in DOMAIN schema.fields : NameOf(i) = name
    /\ \A i \in DOMAIN schema.fields :
         /\ i \in schema.required => Given(arguments, i)
         /\ Given(arguments, i) =>
              LET v == arguments[NameOf(i)]
                  f == schema.fields[i]
              IN  /\ v.kind = AdvertisedType(f)
                  /\ (f.type \in {"String", "Bytes"} /\ f.size > 0) => Len(v.bytes) <= f.size
                  /\ f.range # <<>> => v.n >= f.range[1] /\ v.n <= f.range[2]

\* Nothing in InputSchema keeps its fields apart.
Apart(s) ==
    \A i, j \in DOMAIN s.fields :
        i = j \/ End(s.fields[i]) <= s.fields[j].offset \/ End(s.fields[j]) <= s.fields[i].offset

\* Where the fields of a schema do not overlap, a tool that runs reads every
\* argument exactly as the client gave it, whichever were left out; and a tool
\* never runs on arguments that break the advertised schema.
ArgumentsArrive ==
    call # NoCall /\ call.outcome = "executed" =>
        /\ Conforms
        /\ \A i \in DOMAIN schema.fields : Given(arguments, i) =>
             LET f     == schema.fields[i]
                 bytes == ValueBytes(f, arguments[NameOf(i)])
             IN  /\ call.layout[i] = f.type
                 /\ Apart(schema) => ReadAt(call.data, f.offset, Len(bytes)) = bytes

\* README: tools/list "publishes registered handler input schemas", and
\* tools/call "translates JSON arguments through those schemas": a conforming
\* call that the encoder accepts is not refused by the validator.
EncodedIsValid == call # NoCall => call.outcome # "validation failed"
=============================================================================
