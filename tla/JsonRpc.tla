------------------------------ MODULE JsonRpc ------------------------------
(***************************************************************************)
(* The JSON-RPC 2.0 envelope (src/src/compat/json_rpc.rs): which texts     *)
(* parse as a request or as a response, with which error, and what the     *)
(* formatters write.  A text is a record: its size, its syntax, its        *)
(* outermost shape and the fields of that object, each with a class of     *)
(* values.  The parser of serde_json is external; of sanitize_text only    *)
(* the two facts are kept that it changes sensitive text and nothing else, *)
(* and that its result is not sensitive.                                   *)
(***************************************************************************)
EXTENDS Naturals, Sequences, FiniteSets, FiniteSetsExt

CONSTANTS
    MaxJsonSize,      \* DEFAULT_MAX_JSONRPC_REQUEST_SIZE
    Docs,             \* the texts that are parsed
    WrittenSizes      \* sizes a formatted text may have

ASSUME JsonAssumption == MaxJsonSize \in Nat /\ WrittenSizes \subseteq Nat

VARIABLES
    doc,              \* a text from the peer
    parsed            \* what parse_request and parse_response make of it

jsonVars == <<doc, parsed>>

REQUEST_ENVELOPE_FIELDS  == {"jsonrpc", "method", "params", "id"}
RESPONSE_ENVELOPE_FIELDS == {"jsonrpc", "result", "error", "id"}

\* The classes of values a field can have; "absent" when it is missing.
VersionClasses == {"absent", "2.0", "other string", "number"}
IdClasses == {"absent", "null", "string", "long string", "sensitive string",
             "integer", "fraction", "object"}
Structured == {"object", "array"}

StringIds == {"string", "long string", "sensitive string"}

Get(fields, name) == IF name \in DOMAIN fields THEN fields[name] ELSE "absent"

\* The error of the first check that fails.
FirstError(checks) ==
    LET failed == {i \in DOMAIN checks : checks[i][1]}
    IN  IF failed = {} THEN "none" ELSE checks[Min(failed)][2]

BadMethodName(m) == m \in {"empty", "rpc.", "control"}

\* validate_request_id
IdChecks(id) ==
    << <<id = "long string", "RequestIdTooLarge">>,
       <<id = "sensitive string", "RequestIdSensitive">> >>

\* parse_request_id_value
ParseIdChecks(id) ==
    << <<id \notin {"absent", "null", "integer"} \cup StringIds, "InvalidStructure">> >> \o IdChecks(id)

\* The checks on the text that requests and responses have in common.
TextChecks(d) ==
    << <<d.size > MaxJsonSize, "RequestTooLarge">>,
       <<d.syntax = "duplicate", "DuplicateField">>,
       <<d.syntax = "malformed", "InvalidJson">> >>

VersionChecks(f) ==
    << <<Get(f, "jsonrpc") \in {"absent", "number"}, "MissingVersion">>,
       <<Get(f, "jsonrpc") # "2.0", "InvalidVersion">> >>

\* parse_request_with_limit and parse_request_value
RequestError(d) ==
    LET f == d.fields
    IN  FirstError(
            TextChecks(d)
            \o << <<d.shape = "array", "BatchUnsupported">>,
                  <<d.shape # "object", "InvalidStructure">>,
                  <<~(DOMAIN f \subseteq REQUEST_ENVELOPE_FIELDS), "InvalidStructure">> >>
            \o VersionChecks(f)
            \o << <<Get(f, "method") \in {"absent", "number"}, "MissingMethod">>,
                  <<BadMethodName(Get(f, "method")), "InvalidStructure">>,
                  <<DOMAIN f \cap {"result", "error"} # {}, "InvalidStructure">>,
                  <<Get(f, "params") \notin Structured \cup {"absent"}, "InvalidStructure">> >>
            \o ParseIdChecks(Get(f, "id")))

ParseRequest(d) ==
    [error |-> RequestError(d), method |-> Get(d.fields, "method"),
     params |-> Get(d.fields, "params"), id |-> Get(d.fields, "id")]

IsNotification(request) == request.id = "absent"

\* Mutant: a response may carry both a result and an error, or neither.
ResponseErrorLoose(d) ==
    LET f == d.fields
    IN  FirstError(
            TextChecks(d)
            \o << <<d.shape # "object", "InvalidStructure">>,
                  <<~(DOMAIN f \subseteq RESPONSE_ENVELOPE_FIELDS), "InvalidStructure">> >>
            \o VersionChecks(f) \o ParseIdChecks(Get(f, "id"))
            \o << <<Get(f, "id") = "absent", "MissingId">>,
                  <<Get(f, "error") \notin {"absent", "error", "sensitive error"}, "InvalidStructure">> >>)

\* parse_response_with_limit and parse_response_value; a result may be null,
\* an error must be an error object.
ResponseError(d) ==
    LET f == d.fields
    IN  FirstError(
            TextChecks(d)
            \o << <<d.shape # "object", "InvalidStructure">>,
                  <<~(DOMAIN f \subseteq RESPONSE_ENVELOPE_FIELDS), "InvalidStructure">> >>
            \o VersionChecks(f)
            \o << <<DOMAIN f \cap {"method", "params"} # {}, "InvalidStructure">> >>
            \o ParseIdChecks(Get(f, "id"))
            \o << <<Get(f, "id") = "absent", "MissingId">>,
                  <<Get(f, "error") \notin {"absent", "error", "sensitive error"}, "InvalidStructure">>,
                  <<(Get(f, "result") # "absent") = (Get(f, "error") # "absent"), "InvalidStructure">> >>)

ParseResponse(d) ==
    [error |-> ResponseError(d), result |-> Get(d.fields, "result"),
     failure |-> Get(d.fields, "error"), id |-> Get(d.fields, "id")]

\* A text the formatters write: the fields that are present.  Its size is not
\* that of the text that was parsed: a number may be written with more digits,
\* and what sanitize_text puts in may be longer than what it takes out.
Written(fields, size) ==
    [size |-> size, syntax |-> "ok", shape |-> "object",
     fields |-> [n \in {x \in DOMAIN fields : fields[x] # "absent"} |-> fields[n]]]

\* format_request: the checks, and the text.
FormatRequestError(r) ==
    FirstError(<< <<BadMethodName(r.method), "InvalidStructure">> >> \o IdChecks(r.id))

FormatRequest(r, size) ==
    Written([jsonrpc |-> "2.0", method |-> r.method, params |-> r.params, id |-> r.id], size)

\* validate_response_shape
FormatResponseError(r) ==
    FirstError(<< <<r.id = "absent", "MissingId">>,
                  <<(r.result # "absent") = (r.failure # "absent"), "InvalidStructure">> >>
               \o IdChecks(r.id))

\* format_response: the error's message and data are sanitized.
SanitizedError(e) == IF e = "sensitive error" THEN "error" ELSE e

FormatResponse(r, size) ==
    Written([jsonrpc |-> "2.0", result |-> r.result, error |-> SanitizedError(r.failure), id |-> r.id],
            size)

----------------------------------------------------------------------------
(* The texts, as behaviours of one step *)

NotParsed == <<>>

JsonInit == doc \in Docs /\ parsed = NotParsed

ParseDoc ==
    /\ parsed = NotParsed
    /\ parsed' = <<ParseRequest(doc), ParseResponse(doc)>>
    /\ UNCHANGED doc

\* A text of this size, parsed again, gives the message it was written from;
\* it is refused for its size and nothing else.
ReadsBack(again, size, message) ==
    IF size > MaxJsonSize THEN again.error = "RequestTooLarge" ELSE again = message

\* What the parsers accept, the formatters accept too, and the text they write
\* parses to the same message (an error without its sensitive parts) unless it
\* has become longer than the limit, which is then the error reported; no text
\* is both a request and a response.
EnvelopeReadsBack ==
    parsed # NotParsed =>
        LET q == parsed[1]
            a == parsed[2]
        IN  /\ q.error # "none" \/ a.error # "none"
            /\ q.error = "none" =>
                 /\ FormatRequestError(q) = "none"
                 /\ \A size \in WrittenSizes :
                      ReadsBack(ParseRequest(FormatRequest(q, size)), size, q)
            /\ a.error = "none" =>
                 /\ FormatResponseError(a) = "none"
                 /\ \A size \in WrittenSizes :
                      ReadsBack(ParseResponse(FormatResponse(a, size)), size,
                                [a EXCEPT !.failure = SanitizedError(a.failure)])
=============================================================================
