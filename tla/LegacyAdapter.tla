--------------------------- MODULE LegacyAdapter ---------------------------
(***************************************************************************)
(* McpAdapter (src/src/compat/adapter.rs), the older adapter for tools     *)
(* only.  It is set up first (&mut self); then threads share it and call   *)
(* handle_request, or one of its public handlers directly.  A tools/call   *)
(* takes two steps: up to the replay guard, which is behind a mutex, and   *)
(* the execution.  A message is a record of what the handlers tell apart:  *)
(* [entry, error, method, id, key, shape, name, args], where error is the  *)
(* verdict of the JSON-RPC parser, key the text of the id, shape that of   *)
(* the params and args that of the arguments.                              *)
(***************************************************************************)
EXTENDS Naturals, Sequences, FiniteSets

CONSTANTS
    LegacyThreads,
    LegacyNames,         \* tool names
    LegacyTools,         \* tool ids that are registered, or tried to be
    LegacyMax,           \* CapabilityManifest::MAX_TOOLS
    LegacyManifests,     \* sets of tool ids that may have been negotiated
    LegacyHandlers,      \* tool ids the router has a handler for
    LegacyArgless,       \* those of them that run without arguments
    LegacyPool,          \* messages
    LegacyWindow,        \* RequestReplayGuard's max_entries
    MaxLegacyTools, MaxLegacyRequests     \* bounds

ASSUME LegacyAssumption == LegacyWindow \in Nat /\ IsFiniteSet(LegacyThreads)

VARIABLES
    name_ids, id_names,  \* tool_cache and id_to_name, as sets of pairs
    manifest,            \* {} or {the negotiated tool ids}
    window,              \* the order of the replay guard, oldest first
    lthread, lreq,       \* thread -> progress, and the message it handles
    lstarted,            \* registrations and requests so far
    lreceipts,           \* audit events recorded
    lrecorded, lran      \* history: keys the guard accepted; <<key, name, tool>> of what ran

legacyVars == <<name_ids, id_names, manifest, window, lthread, lreq, lstarted, lreceipts,
                lrecorded, lran>>

NoMessage == "none"

LegacyInit ==
    /\ name_ids = {} /\ id_names = {}
    /\ manifest \in {{}} \cup {{tools} : tools \in LegacyManifests}
    /\ window = <<>>
    /\ lthread = [t \in LegacyThreads |-> "idle"] /\ lreq = [t \in LegacyThreads |-> NoMessage]
    /\ lstarted = [tools |-> 0, requests |-> 0]
    /\ lreceipts = 0 /\ lrecorded = <<>> /\ lran = <<>>

\* An error is answered, and recorded in the audit log.
Rejected == lreceipts' = lreceipts + 1
Answered == UNCHANGED lreceipts

ToolNamed(name) == {pair[2] : pair \in {p \in name_ids : p[1] = name}}

LegacyRegistrable(name, tool) ==
    /\ tool < LegacyMax
    /\ ToolNamed(name) = {}
    /\ \A pair \in id_names : pair[1] # tool

\* register_tool, before the adapter is shared.
LegacyRegister(name, tool) ==
    /\ lstarted.requests = 0
    /\ lstarted.tools < MaxLegacyTools
    /\ lstarted' = [lstarted EXCEPT !.tools = @ + 1]
    /\ IF LegacyRegistrable(name, tool)
       THEN /\ name_ids' = name_ids \cup {<<name, tool>>}
            /\ id_names' = {p \in id_names : p[1] # tool} \cup {<<tool, name>>}
            /\ Answered
       ELSE Rejected /\ UNCHANGED <<name_ids, id_names>>
    /\ UNCHANGED <<manifest, window, lthread, lreq, lrecorded, lran>>

----------------------------------------------------------------------------
(* Requests *)

IsLegacyNotification(m) == m.id = "missing"

\* require_request_method_response of the handler that gets the message; a
\* message of handle_request gets there by its method.
RightHandler(m) ==
    m.entry \in {"handle_request", m.method} /\ ~IsLegacyNotification(m)

LegacyMethods == {"initialize", "tools/list", "tools/call"}

\* handle_tools_list: nothing is listed without a manifest that has tools.
LegacyListed == \E tools \in manifest : tools # {}

\* handle_tools_call up to the replay guard, with its checks in order.
CallRefused(m) ==
    \/ m.shape # "object"                      \* tools_call_params_object
    \/ m.name = "absent"
    \/ ToolNamed(m.name) = {}
    \/ manifest = {}
    \/ m.args \notin {"absent", "empty"}       \* translate_legacy_tool_arguments

\* What handle_request and the handlers refuse at once.
LegacyRefused(m) ==
    \/ m.error # "none"
    \/ ~RightHandler(m)
    \/ m.method \notin LegacyMethods
    \/ m.method = "tools/list" /\ ~LegacyListed
    \/ m.method = "tools/call" /\ (CallRefused(m) \/ \E i \in DOMAIN window : window[i] = m.key)

\* Mutant: the guard forgets one key too many.
LegacyRecordShort(key) ==
    LET grown == Append(window, key)
    IN  /\ window' = SubSeq(grown, IF Len(grown) >= LegacyWindow THEN 2 ELSE 1, Len(grown))
        /\ lrecorded' = Append(lrecorded, key)

\* check_and_record of a key that is not in the guard.
LegacyRecord(key) ==
    LET grown == Append(window, key)
    IN  /\ window' = SubSeq(grown, IF Len(grown) > LegacyWindow THEN 2 ELSE 1, Len(grown))
        /\ lrecorded' = Append(lrecorded, key)

\* handle_request, or a handler called directly, up to the execution.
LegacyRequest(t, m) ==
    /\ lthread[t] = "idle" /\ lstarted.requests < MaxLegacyRequests
    /\ lstarted' = [lstarted EXCEPT !.requests = @ + 1]
    /\ IF LegacyRefused(m) THEN Rejected ELSE Answered
    /\ IF m.method = "tools/call" /\ ~LegacyRefused(m)
       THEN /\ LegacyRecord(m.key)
            /\ lthread' = [lthread EXCEPT ![t] = "execute"] /\ lreq' = [lreq EXCEPT ![t] = m]
       ELSE UNCHANGED <<window, lrecorded, lthread, lreq>>
    /\ UNCHANGED <<name_ids, id_names, manifest, lran>>

\* execute_authorized; the handler may fail.
LegacyExecute(t) ==
    LET m == lreq[t]
    IN  /\ lthread[t] = "execute"
        /\ lthread' = [lthread EXCEPT ![t] = "idle"] /\ lreq' = [lreq EXCEPT ![t] = NoMessage]
        /\ \E tool \in ToolNamed(m.name) :
             \/ /\ \A tools \in manifest : tool \in tools
                /\ tool \in LegacyHandlers \cap LegacyArgless
                /\ lran' = Append(lran, <<m.key, m.name, tool>>)
                /\ Answered \/ Rejected
             \/ /\ (\E tools \in manifest : tool \notin tools) \/ tool \notin LegacyHandlers \cap LegacyArgless
                /\ Rejected /\ UNCHANGED lran
        /\ UNCHANGED <<name_ids, id_names, manifest, window, lstarted, lrecorded>>

LegacyNext ==
    \/ \E name \in LegacyNames, tool \in LegacyTools : LegacyRegister(name, tool)
    \/ \E t \in LegacyThreads : LegacyExecute(t) \/ \E m \in LegacyPool : LegacyRequest(t, m)

----------------------------------------------------------------------------

Count(s, Test(_)) == Cardinality({i \in DOMAIN s : Test(s[i])})

\* However the threads interleave, a tool runs only when its id is negotiated
\* and it is the one tool of the name that was asked for, in both tables; an id
\* of a request comes through the guard again only after LegacyWindow others,
\* and each time the tool runs at most once for it.
LegacyGuarded ==
    /\ \A i \in DOMAIN lran :
         /\ manifest # {} /\ \A tools \in manifest : lran[i][3] \in tools
         /\ ToolNamed(lran[i][2]) = {lran[i][3]}
         /\ <<lran[i][3], lran[i][2]>> \in id_names
         /\ Count(lran, LAMBDA r : r[1] = lran[i][1]) <= Count(lrecorded, LAMBDA k : k = lran[i][1])
    /\ \A i, j \in DOMAIN lrecorded : i < j /\ lrecorded[i] = lrecorded[j] => j - i > LegacyWindow
=============================================================================
