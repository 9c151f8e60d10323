------------------------------ MODULE MCBlocks ------------------------------
(* The parts that share no state with one another: the services of an MCP  *)
(* server, its transports and their codecs, and the guard of signed calls. *)
(* A behaviour runs one of them, so that TLC adds up their state spaces    *)
(* instead of multiplying them.                                            *)
EXTENDS Elicitation, Cancellation, Subscriptions, SseTransport, StdioServer, FrameCodec,
        SignedRouter, Arguments, Delta, LegacyAdapter, Context, BinaryRecords

VARIABLE block

Blocks == {"elicitation", "cancellation", "subscriptions", "tracker", "roots", "events", "posts",
           "stdio", "json", "frames", "signed", "arguments", "delta",
           "legacy", "context", "records"}

serviceVars   == <<elicitVars, cancelVars, subscriptionVars>>
transportVars == <<sseVars, stdioVars, jsonVars, frameVars, recordVars>>
callVars      == <<signedVars, argumentVars, deltaVars, legacyVars, contextVars>>
blockVars     == <<serviceVars, transportVars, callVars, block>>

AnyInput == CHOOSE i \in Inputs : TRUE
NoFields == [fields |-> <<>>, required |-> {}]

\* A block that does not run keeps to one of its initial states.
BlocksInit ==
    /\ block \in Blocks
    /\ ElicitInit /\ SseInit /\ FrameInit /\ SignedInit
    /\ CancelInit
    /\ block # "cancellation" => wid = CHOOSE f \in [Workers -> Ids] : TRUE
    /\ SubscriptionInit
    /\ block # "subscriptions" => suri = CHOOSE f \in [Callers -> Resources] : TRUE
    /\ (block # "stdio" => stdin = <<>>) /\ StdioInit
    /\ IF block = "json" THEN JsonInit ELSE doc = Garbled /\ parsed = NotParsed
    /\ IF block = "records" THEN RecordsInit ELSE input = AnyInput /\ decoded = NotDecoded
    /\ IF block = "arguments" THEN ArgumentsInit
       ELSE schema = NoFields /\ arguments = <<>> /\ call = NoCall
    /\ (block # "delta" => sender = <<>>) /\ DeltaInit
    /\ (block # "legacy" => manifest = {}) /\ LegacyInit /\ ContextInit

ServiceStep ==
    \/ block = "elicitation" /\ ElicitNext /\ UNCHANGED <<cancelVars, subscriptionVars>>
    \/ block = "cancellation" /\ CancelNext /\ UNCHANGED <<elicitVars, subscriptionVars>>
    \/ block = "subscriptions" /\ SubscribeNext /\ UNCHANGED <<elicitVars, cancelVars, trackerVars, rootVars>>
    \/ block = "tracker" /\ TrackerNext /\ UNCHANGED <<elicitVars, cancelVars, subscribeVars, rootVars>>
    \/ block = "roots" /\ RootsNext /\ UNCHANGED <<elicitVars, cancelVars, subscribeVars, trackerVars>>

TransportStep ==
    \/ block = "events" /\ EventsNext /\ UNCHANGED <<postVars, stdioVars, jsonVars, frameVars, recordVars>>
    \/ block = "posts" /\ PostNext /\ UNCHANGED <<eventVars, stdioVars, jsonVars, frameVars, recordVars>>
    \/ block = "stdio" /\ StdioNext /\ UNCHANGED <<sseVars, jsonVars, frameVars, recordVars>>
    \/ block = "json" /\ ParseDoc /\ UNCHANGED <<sseVars, stdioVars, frameVars, recordVars>>
    \/ block = "frames" /\ FrameNext /\ UNCHANGED <<sseVars, stdioVars, jsonVars, recordVars>>
    \/ block = "records" /\ Decoding /\ UNCHANGED <<sseVars, stdioVars, jsonVars, frameVars>>

CallStep ==
    \/ block = "signed" /\ SignedNext /\ UNCHANGED <<argumentVars, deltaVars, legacyVars, contextVars>>
    \/ block = "arguments" /\ CallTool /\ UNCHANGED <<signedVars, deltaVars, legacyVars, contextVars>>
    \/ block = "delta" /\ DeltaNext /\ UNCHANGED <<signedVars, argumentVars, legacyVars, contextVars>>
    \/ block = "legacy" /\ LegacyNext /\ UNCHANGED <<signedVars, argumentVars, deltaVars, contextVars>>
    \/ block = "context" /\ ContextNext /\ UNCHANGED <<signedVars, argumentVars, deltaVars, legacyVars>>

BlocksNext ==
    \/ ServiceStep /\ UNCHANGED <<transportVars, callVars, block>>
    \/ TransportStep /\ UNCHANGED <<serviceVars, callVars, block>>
    \/ CallStep /\ UNCHANGED <<serviceVars, transportVars, block>>

\* The runtime polls a create() whose channel or timer is ready.
BlocksSpec ==
    /\ BlocksInit /\ [][BlocksNext]_blockVars
    /\ \A e \in Elicits :
          WF_blockVars(block = "elicitation" /\ CreateStep(e)
                       /\ UNCHANGED <<cancelVars, subscriptionVars, transportVars, callVars, block>>)

----------------------------------------------------------------------------
(* Instances *)

MCPercent == {0 - 1, 50}

\* Messages of every kind POSTed: allowed, unknown, malformed, and too large.
Post(method, id, size, kept, form) ==
    [method |-> method, id |-> id, size |-> size, kept |-> kept, form |-> form]
MCPostPool ==
    {Post("ping", "given", 1, 1, "ok"), Post("tools/list", "given", 2, 2, "ok"),
     Post("tools/call", "given", 3, 2, "ok"), Post("tools/call", "given", 4, 1, "ok"),
     Post("ping", "missing", 1, 1, "ok"), Post("notifications/initialized", "missing", 1, 1, "ok"),
     Post("notifications/initialized", "given", 1, 1, "ok"),
     Post("roots/list", "given", 1, 1, "ok"), Post("ping", "given", 1, 1, "malformed")}

\* JSON texts: every combination of the fields that matter, and the shapes
\* and syntax errors a text can have besides.
Fields(f) == [n \in {x \in DOMAIN f : f[x] # "absent"} |-> f[n]]
Doc(size, syntax, shape, f) == [size |-> size, syntax |-> syntax, shape |-> shape, fields |-> f]
Req(method)  == Doc(1, "ok", "object", [jsonrpc |-> "2.0", method |-> method, id |-> "integer"])
Note(method) == Doc(1, "ok", "object", [jsonrpc |-> "2.0", method |-> method])
Batch == Doc(1, "ok", "array", <<>>)

MCDocs ==
    {Doc(1, "ok", "object", Fields(f)) :
        f \in [jsonrpc : VersionClasses, method : {"absent", "number", "rpc.", "ping"},
               params : {"absent", "object", "scalar"}, id : IdClasses,
               result : {"absent", "null"}, error : {"absent", "bad", "sensitive error"}]}
    \cup {Doc(1, "ok", "object", Fields([jsonrpc |-> "2.0", method |-> m, result |-> r,
                                         id |-> "integer", extra |-> "null"])) :
              m \in {"absent", "ping"}, r \in {"absent", "null"}}
    \cup {Doc(n, s, h, <<>>) : n \in 1 .. 2, s \in {"ok", "duplicate", "malformed"},
                               h \in {"array", "other"}}
    \cup {Doc(2, "ok", "object", Req("ping").fields), Garbled}

\* The letters of the stdio streams, lines made of them, and streams of lines:
\* with and without a newline at the end.
MCTexts == [i |-> Req("initialize"), d |-> Note("notifications/initialized"),
            q |-> Req("tools/list"), u |-> Note("ping"), b |-> Batch]
MCLines == {<<"i">>, <<"d">>, <<"q">>, <<"u">>, <<"b", "s">>, <<"s">>, <<"q", "h", "t">>,
            <<"i", "q">>, <<"q", "h", "t", "s">>}
Ended(lines) == FoldLeft(LAMBDA acc, l : acc \o l \o <<"n">>, <<>>, lines)
MCStreams ==
    LET all == {Ended(ls) : ls \in UNION {[1 .. n -> MCLines] : n \in 0 .. 2}}
               \cup {Ended(<<<<"i">>, l>> \o ls) : l \in {<<"d">>, <<"q">>}, ls \in [1 .. 2 -> MCLines]}
    IN  all \cup {SubSeq(s, 1, Len(s) - 1) : s \in all \ {<<>>}}

\* Lengths of one and of two bytes, one the receiver and one the sender refuses,
\* and one that the length field cannot hold.
MCPayloads == {<<>>, <<0>>, <<1>>, <<1, 1, 0>>, <<1, 0, 1, 0>>, <<0, 0, 0, 0, 0>>,
               [i \in 1 .. 10 |-> 1]}

Invocation(tool, nonce, timestamp) == [tool |-> tool, nonce |-> nonce, timestamp |-> timestamp]
MCInvocations ==
    {Invocation(1, n, t) : n \in {1, 2}, t \in {0, 2}} \cup {Invocation(9, 3, 1), Invocation(2, 3, 1)}

\* Schemas of at most two fields, in and out of order, too many and overlapping ones.
Value(kind, n, bytes) == [kind |-> kind, n |-> n, bytes |-> bytes]
MCValues ==
    {Value("bool", 1, <<>>), Value("number", 2, <<>>), Value("number", 300, <<>>),
     Value("string", 0, <<"a">>), Value("string", 0, <<"a", "b", "c">>),
     Value("null", 0, <<>>), Value("array", 0, <<"[", "]">>)}
MCArgumentSets ==
    UNION {[given -> MCValues] : given \in SUBSET {"first", "second"}}
    \cup {[other |-> Value("bool", 1, <<>>)]}
Field(type, size, range) == [type |-> type, size |-> size, range |-> range]
FieldKinds ==
    {Field("Bool", 1, <<>>), Field("I32", 4, <<>>), Field("I32", 1, <<1, 3>>), Field("I64", 4, <<>>),
     Field("I64", 8, <<>>), Field("String", 2, <<>>), Field("Array", 2, <<>>), Field("Null", 1, <<>>)}
Placed(f, offset) == [type |-> f.type, offset |-> offset, size |-> f.size, range |-> f.range]
MCSchemas ==
    {NoFields}
    \cup {[fields |-> <<Placed(f, 0)>>, required |-> r] : f \in FieldKinds, r \in SUBSET {1}}
    \cup {[fields |-> <<Placed(f, 0), Placed(g, f.size)>>, required |-> r] :
              f \in FieldKinds, g \in FieldKinds, r \in SUBSET {1, 2}}
    \cup {[fields |-> <<Placed(f, g.size), Placed(g, 0)>>, required |-> {1}] : f \in FieldKinds, g \in FieldKinds}
    \cup {[fields |-> <<Placed(f, 0), Placed(f, f.size), Placed(f, 2 * f.size)>>, required |-> {}] : f \in FieldKinds}
    \cup {[fields |-> <<Placed(f, 0), Placed(f, 1)>>, required |-> {}] :
              f \in {Field("String", 2, <<>>), Field("I32", 4, <<>>)}}

\* Records: zero but for one byte or two, and of every wrong length by one.
Bytes(len, set) == [len |-> len, set |-> set]
MCInputs ==
    UNION {{[kind |-> k, bytes |-> Bytes(Size[k] + d, <<>>)] : d \in {0 - 1, 0, 1}}
           \cup {[kind |-> k, bytes |-> Bytes(Size[k], [q \in {p, (7 * p) % Size[k]} |-> 1])] :
                    p \in 0 .. Size[k] - 1} : k \in DOMAIN Size}
MCMessageInputs ==
    [len : {7, 8, 9, 10}, magic : BOOLEAN, type : {0, 1, 6, 7}, flags : 0 .. 9, payload_len : 0 .. 2]

\* Messages to the legacy adapter: good calls under ids that repeat, and one
\* for every reason to refuse.
Legacy(entry, error, method, id, key, shape, name, args) ==
    [entry |-> entry, error |-> error, method |-> method, id |-> id, key |-> key,
     shape |-> shape, name |-> name, args |-> args]
Call(key, name, args) == Legacy("handle_request", "none", "tools/call", "given", key, "object", name, args)
MCLegacyPool ==
    {Call("1", "x", "absent"), Call("2", "x", "empty"), Call("3", "y", "absent"), Call("1", "y", "absent"),
     Call("2", "z", "absent"), Call("3", "x", "given"), Call("3", "absent", "absent"),
     Legacy("handle_request", "InvalidJson", "none", "missing", "none", "absent", "absent", "absent"),
     Legacy("handle_request", "none", "tools/call", "missing", "none", "object", "x", "absent"),
     Legacy("handle_request", "none", "tools/call", "given", "3", "array", "x", "absent"),
     Legacy("handle_request", "none", "other", "given", "3", "absent", "absent", "absent"),
     Legacy("handle_request", "none", "tools/list", "given", "3", "absent", "absent", "absent"),
     Legacy("tools/list", "none", "tools/call", "given", "3", "object", "x", "absent"),
     Legacy("initialize", "none", "initialize", "given", "3", "absent", "absent", "absent")}

MCStates == {<<>>, <<1>>, <<1, 0, 0, 0, 1>>, <<0, 0, 0, 0, 0, 0>>, <<1, 1>>}
=============================================================================
