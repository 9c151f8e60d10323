----------------------------- MODULE McpAdapter -----------------------------
(***************************************************************************)
(* CompleteMcpAdapter (src/src/compat/complete_adapter.rs): the requests   *)
(* of one MCP session, handled by tasks that share the adapter.            *)
(*                                                                         *)
(* handle_request parses and filters a message and hands it to the handler *)
(* of its method.  A handler is one step where it holds what it reads, and *)
(* several where it gives up a lock in between: initialize, tools/call and *)
(* the methods on a resource.  A request is a record of what the handlers  *)
(* tell apart; the wording of answers is left out.                         *)
(***************************************************************************)
EXTENDS Manifest, FiniteSets, Sequences

CONSTANTS
    Tasks,          \* tasks that call handle_request
    Messages,       \* the messages clients send
    ToolNames, PromptNames, Uris, FileUris, Keys,
    RouterTools,    \* tool ids the router has a handler for
    HandlerPool,    \* resource handlers the application may register
    Serves,         \* handler -> the uris its template matches
    Holds,          \* handler -> the uris it can read
    Subscribable,   \* handlers with supports_subscribe()
    RootPool,       \* roots the application may configure
    Within,         \* root -> the file uris within it
    HasPolicy, PolicyTools, PolicyResources, PolicyPrompts,  \* authorization_policy
    Versions,       \* protocol versions the negotiator accepts
    ReplayWindow,   \* RequestReplayGuard's max_entries
    MaxAudit,       \* SecurityAuditLog's max_events
    MaxRequests,    \* bound: messages received
    MaxChanges      \* bound: steps of the application

ASSUME AdapterAssumption ==
    /\ ReplayWindow \in Nat /\ MaxAudit \in Nat /\ MaxRequests \in Nat /\ MaxChanges \in Nat
    /\ FileUris \subseteq Uris /\ Subscribable \subseteq HandlerPool

VARIABLES
    serving,                      \* FALSE while the adapter is set up (&mut self)
    tool_cache, prompt_ids,       \* name -> id + 1, 0 when not registered
    resources,                    \* the handlers, in the order of their ids
    roots, subscriptions, log_level, tokens,
    protocol_version, negotiated, initialize_seen, initialized_seen,
    seen, order,                  \* the replay guard
    audit,                        \* the audit log: [len, dropped]
    pc, req, offer,               \* each task's progress, message and offer
    received, refused, changes,   \* history: messages taken, refusals with a receipt;
                                  \*   steps of the application
    winner,                       \* history: the initialize that was accepted
    recorded,                     \* history: keys the replay guard accepted
    used                          \* history: <<kind, id>> of what was handed out

setupVars   == <<serving, tool_cache, prompt_ids>>
appVars     == <<resources, roots>>
sessionVars == <<protocol_version, negotiated, initialize_seen, initialized_seen>>
guardVars   == <<seen, order, recorded>>
stateVars   == <<subscriptions, log_level, tokens>>
vars == <<setupVars, appVars, sessionVars, guardVars, stateVars,
          audit, pc, req, offer, received, refused, changes, winner, used>>

NoRequest == [id |-> "none", key |-> "none", method |-> "none", form |-> "ok", name |-> "none",
              args |-> "fit", tools |-> {}, resources |-> {}, prompts |-> {}]

Init ==
    /\ serving = FALSE
    /\ tool_cache = [n \in ToolNames |-> 0] /\ prompt_ids = [n \in PromptNames |-> 0]
    /\ resources = <<>> /\ roots = {}
    /\ protocol_version = "2024-11-05" /\ negotiated = NewManifest
    /\ initialize_seen = FALSE /\ initialized_seen = FALSE
    /\ seen = {} /\ order = <<>> /\ recorded = <<>>
    /\ subscriptions = {} /\ log_level = "info" /\ tokens = [k \in Keys |-> "none"]
    /\ audit = [len |-> 0, dropped |-> 0]
    /\ pc = [t \in Tasks |-> "idle"]
    /\ req = [t \in Tasks |-> NoRequest]
    /\ offer = [t \in Tasks |-> NewManifest]
    /\ received = 0 /\ refused = 0 /\ changes = 0 /\ winner = NoRequest /\ used = {}

----------------------------------------------------------------------------
(* Answers and receipts *)

\* Mutant: an event that pushes out another is not counted.
RecordSilent(a) == IF a.len >= MaxAudit THEN a ELSE [a EXCEPT !.len = @ + 1]

\* SecurityAuditLog::record.
Record(a) ==
    IF MaxAudit = 0 \/ a.len >= MaxAudit
    THEN [a EXCEPT !.dropped = @ + 1]
    ELSE [a EXCEPT !.len = @ + 1]

\* The task is done with its message.
Finish(t) == /\ UNCHANGED changes
             /\ pc' = [pc EXCEPT ![t] = "idle"]
             /\ req' = [req EXCEPT ![t] = NoRequest]
             /\ offer' = [offer EXCEPT ![t] = NewManifest]

Answer(t) == Finish(t) /\ UNCHANGED <<audit, refused>>

\* adapter_error_response and its like: a receipt, then the error.  The error
\* of a notification is not sent, the receipt is left all the same.
Refuse(t) == Finish(t) /\ audit' = Record(audit) /\ refused' = refused + 1

GoOn(t, step) == /\ pc' = [pc EXCEPT ![t] = step]
                 /\ UNCHANGED <<req, offer, audit, refused, changes>>

\* What a refused message leaves alone.
NoEffect == UNCHANGED <<setupVars, appVars, sessionVars, guardVars, stateVars, received, winner, used>>

----------------------------------------------------------------------------
(* The application: set-up, resources, roots, cancellation tokens *)

\* A step of the application leaves requests and session alone.
Application ==
    /\ changes < MaxChanges /\ changes' = changes + 1
    /\ UNCHANGED <<sessionVars, guardVars, pc, req, offer, received, winner, used>>

\* register_tool; a refused registration leaves a receipt.
RegisterTool(n, id) ==
    /\ ~serving
    /\ \/ /\ id < MAX_TOOLS /\ tool_cache[n] = 0
          /\ \A o \in ToolNames : tool_cache[o] # id + 1
          /\ tool_cache' = [tool_cache EXCEPT ![n] = id + 1]
          /\ UNCHANGED <<audit, refused>>
       \/ /\ \/ id >= MAX_TOOLS
             \/ tool_cache[n] # 0
             \/ \E o \in ToolNames : tool_cache[o] = id + 1
          /\ audit' = Record(audit) /\ refused' = refused + 1
          /\ UNCHANGED tool_cache
    /\ UNCHANGED <<serving, prompt_ids, appVars, stateVars>> /\ Application

\* register_prompt: the id is the number of prompts so far.  A duplicate name
\* or a full table is an error of the caller's; it leaves no receipt.
RegisterPrompt(n) ==
    LET count == Cardinality({o \in PromptNames : prompt_ids[o] # 0})
    IN  /\ ~serving
        /\ \/ /\ prompt_ids[n] = 0 /\ count < MAX_PROMPTS
              /\ prompt_ids' = [prompt_ids EXCEPT ![n] = count + 1]
              /\ UNCHANGED <<serving, tool_cache, appVars, stateVars, audit, refused>>
              /\ Application
           \/ /\ prompt_ids[n] # 0 \/ count >= MAX_PROMPTS
              /\ UNCHANGED vars

Serve ==
    /\ ~serving /\ serving' = TRUE
    /\ UNCHANGED <<tool_cache, prompt_ids, appVars, sessionVars, guardVars, stateVars, audit,
                   pc, req, offer, received, refused, changes, winner, used>>

\* ResourceRegistry::register, at any time: the id is the position.  A full
\* registry is an error of the caller's; it leaves no receipt.
RegisterResource(h) ==
    \/ /\ Len(resources) < MAX_RESOURCES
       /\ resources' = Append(resources, h)
       /\ UNCHANGED <<setupVars, roots, stateVars, audit, refused>> /\ Application
    \/ /\ Len(resources) >= MAX_RESOURCES
       /\ UNCHANGED vars

\* add_root, remove_root and clear of RootsRegistry.
ChangeRoots ==
    /\ \/ \E r \in RootPool \ roots : roots' = roots \cup {r}
       \/ \E r \in roots : roots' = roots \ {r}
       \/ roots # {} /\ roots' = {}
    /\ UNCHANGED <<setupVars, resources, stateVars, audit, refused>> /\ Application

\* CancellationManager::create_token and CancellationToken::complete.
ChangeToken(k) ==
    /\ \/ tokens[k] = "none" /\ tokens' = [tokens EXCEPT ![k] = "active"]
       \/ tokens[k] = "active" /\ tokens' = [tokens EXCEPT ![k] = "completed"]
    /\ UNCHANGED <<setupVars, appVars, subscriptions, log_level, audit, refused>> /\ Application

----------------------------------------------------------------------------
(* handle_request: what is decided before a handler runs *)

NotificationOnly == {"notifications/initialized", "notifications/cancelled"}
ServerToClient   == {"roots/list", "elicitation/create", "sampling/createMessage"}
ResourceMethods  == {"resources/read", "resources/subscribe", "resources/unsubscribe"}
RequiresInitialized ==
    ResourceMethods \cup ServerToClient \cup
    {"tools/list", "tools/call", "resources/list", "prompts/list", "prompts/get",
     "logging/setLevel", "completion/complete"}
Handled == (RequiresInitialized \ ServerToClient) \cup NotificationOnly \cup {"initialize", "ping"}

IsNotification(m) == m.id = "missing"

\* Mutant: the lifecycle is not looked at.
AcceptedAnyTime(m) ==
    /\ m.method \in Handled
    /\ IsNotification(m) <=> m.method \in NotificationOnly

\* The message parses and reaches the handler of its method.
Accepted(m) ==
    /\ m.method \in Handled
    /\ IsNotification(m) <=> m.method \in NotificationOnly
    /\ m.method \in RequiresInitialized => initialized_seen

\* A message that does not parse, asks for a shutdown, is a notification of a
\* request or the reverse, comes too early, or has no handler is refused.
HandleRequest(t, m) ==
    /\ serving /\ pc[t] = "idle" /\ received < MaxRequests
    /\ received' = received + 1
    /\ \/ /\ Accepted(m)
          /\ pc' = [pc EXCEPT ![t] = m.method] /\ req' = [req EXCEPT ![t] = m]
          /\ UNCHANGED <<offer, audit, refused, changes>>
       \/ /\ ~Accepted(m)
          /\ Refuse(t)
    /\ UNCHANGED <<setupVars, appVars, sessionVars, guardVars, stateVars, winner, used>>

----------------------------------------------------------------------------
(* Lifecycle *)

\* Mutant: the flag is read here and set with the answer.
InitializeUnclaimed(t) ==
    /\ pc[t] = "initialize"
    /\ req[t].form = "ok" /\ req[t].name \in Versions /\ ~initialize_seen
    /\ winner' = req[t] /\ GoOn(t, "version")
    /\ UNCHANGED <<setupVars, appVars, sessionVars, guardVars, stateVars, received, used>>

\* handle_initialize: parameters, version, then the claim under the lock.
Initialize(t) ==
    /\ pc[t] = "initialize"
    /\ \/ /\ req[t].form = "ok" /\ req[t].name \in Versions /\ ~initialize_seen
          /\ initialize_seen' = TRUE /\ winner' = req[t]
          /\ GoOn(t, "version")
          /\ UNCHANGED <<protocol_version, negotiated, initialized_seen>>
       \/ /\ req[t].form # "ok" \/ req[t].name \notin Versions \/ initialize_seen
          /\ Refuse(t)
          /\ UNCHANGED <<sessionVars, winner>>
    /\ UNCHANGED <<setupVars, appVars, guardVars, stateVars, received, used>>

InitializeVersion(t) ==
    /\ pc[t] = "version"
    /\ protocol_version' = req[t].name
    /\ GoOn(t, "offer")
    /\ UNCHANGED <<setupVars, appVars, guardVars, stateVars, received, winner, used,
                   negotiated, initialize_seen, initialized_seen>>

ToolIds     == {tool_cache[n] - 1 : n \in {n \in ToolNames : tool_cache[n] # 0}}
PromptIds   == {prompt_ids[n] - 1 : n \in {n \in PromptNames : prompt_ids[n] # 0}}
ResourceIds == {i - 1 : i \in DOMAIN resources}

\* The server's manifest with the handlers registered by now, cut down to the
\* policy when there is one.
ServerOffer ==
    LET server == WithIds(ToolIds, ResourceIds, PromptIds)
    IN  IF HasPolicy
        THEN Intersect(server, WithIds(PolicyTools, PolicyResources, PolicyPrompts))
        ELSE server

InitializeOffer(t) ==
    /\ pc[t] = "offer"
    /\ offer' = [offer EXCEPT ![t] = ServerOffer]
    /\ pc' = [pc EXCEPT ![t] = "grant"]
    /\ NoEffect /\ UNCHANGED <<req, audit, refused, changes>>

\* client_manifest_from_initialize.
ClientManifest(m) == WithIds(m.tools, m.resources, m.prompts)

InitializeGrant(t) ==
    /\ pc[t] = "grant"
    /\ negotiated' = Intersect(ClientManifest(req[t]), offer[t])
    /\ Answer(t)
    /\ UNCHANGED <<setupVars, appVars, guardVars, stateVars, received, winner, used,
                   protocol_version, initialize_seen, initialized_seen>>

\* handle_initialized: accepted once, and as soon as an initialize was claimed.
Initialized(t) ==
    /\ pc[t] = "notifications/initialized"
    /\ \/ /\ req[t].form = "ok" /\ initialize_seen /\ ~initialized_seen
          /\ initialized_seen' = TRUE /\ Answer(t)
       \/ /\ req[t].form # "ok" \/ ~initialize_seen \/ initialized_seen
          /\ Refuse(t) /\ UNCHANGED initialized_seen
    /\ UNCHANGED <<setupVars, appVars, guardVars, stateVars, received, winner, used,
                   protocol_version, negotiated, initialize_seen>>

\* handle_ping.
Ping(t) == pc[t] = "ping" /\ Answer(t) /\ NoEffect

\* handle_cancelled: an active token becomes cancelled, anything else stays.
Cancelled(t) ==
    /\ pc[t] = "notifications/cancelled"
    /\ \/ /\ req[t].form = "ok"
          /\ tokens' = [tokens EXCEPT ![req[t].name] = IF @ = "active" THEN "cancelled" ELSE @]
          /\ Answer(t)
       \/ req[t].form # "ok" /\ Refuse(t) /\ UNCHANGED tokens
    /\ UNCHANGED <<setupVars, appVars, sessionVars, guardVars, subscriptions, log_level,
                   received, winner, used>>

\* handle_logging_set_level.
SetLevel(t) ==
    /\ pc[t] = "logging/setLevel"
    /\ \/ req[t].form = "ok" /\ log_level' = req[t].name /\ Answer(t)
       \/ req[t].form # "ok" /\ Refuse(t) /\ UNCHANGED log_level
    /\ UNCHANGED <<setupVars, appVars, sessionVars, guardVars, subscriptions, tokens,
                   received, winner, used>>

----------------------------------------------------------------------------
(* Tools *)

Use(kind, ids) == used' = used \cup {<<kind, id>> : id \in ids}
NoStateChange  == UNCHANGED <<setupVars, appVars, sessionVars, stateVars, received, winner>>

\* handle_tools_list shows the tools that were granted.
ToolsList(t) ==
    /\ pc[t] = "tools/list"
    /\ \/ /\ req[t].form = "ok" /\ AnyBit(negotiated.tools)
          /\ Use("tool", {id \in ToolIds : HasTool(negotiated, id)}) /\ Answer(t)
       \/ /\ req[t].form # "ok" \/ ~AnyBit(negotiated.tools)
          /\ Refuse(t) /\ UNCHANGED used
    /\ NoStateChange /\ UNCHANGED guardVars

ToolId(m) == tool_cache[m.name] - 1

\* handle_tools_call up to the replay guard: parameters, name, capability,
\* schema and the encoding of the arguments.
Callable(m) ==
    /\ m.form = "ok" /\ m.name \in ToolNames /\ tool_cache[m.name] # 0
    /\ HasTool(negotiated, ToolId(m))
    /\ ToolId(m) \in RouterTools
    /\ m.args # "unfit"

ToolsCall(t) ==
    /\ pc[t] = "tools/call"
    /\ \/ Callable(req[t]) /\ GoOn(t, "record")
       \/ ~Callable(req[t]) /\ Refuse(t)
    /\ NoEffect

\* Mutant: the entry that leaves the window is kept in the queue's stead.
RecordCallEvictsNewest(t) ==
    /\ pc[t] = "record"
    /\ req[t].key \notin seen
    /\ order' = IF Len(order) >= ReplayWindow THEN order ELSE Append(order, req[t].key)
    /\ seen' = {order'[i] : i \in DOMAIN order'}
    /\ recorded' = Append(recorded, req[t].key)
    /\ GoOn(t, "execute")
    /\ NoStateChange /\ UNCHANGED used

\* record_tool_call_request_id and RequestReplayGuard::check_and_record.  The
\* key is the text of the id, whether it was a number or a string.
RecordCall(t) ==
    LET key   == req[t].key
        grown == Append(order, key)
        kept  == IF Len(grown) > ReplayWindow
                 THEN SubSeq(grown, Len(grown) - ReplayWindow + 1, Len(grown)) ELSE grown
    IN  /\ pc[t] = "record"
        /\ \/ /\ key \notin seen
              /\ order' = kept /\ seen' = {kept[i] : i \in DOMAIN kept}
              /\ recorded' = Append(recorded, key)
              /\ GoOn(t, "execute")
           \/ key \in seen /\ Refuse(t) /\ UNCHANGED guardVars
        /\ NoStateChange /\ UNCHANGED used

\* execute_authorized of the router, with the capabilities read again; the
\* arguments may still fail the schema's validation.
ExecuteCall(t) ==
    LET id == ToolId(req[t])
        ok == HasTool(negotiated, id) /\ id \in RouterTools /\ req[t].args = "fit"
    IN  /\ pc[t] = "execute"
        /\ \/ ok /\ Use("tool", {id}) /\ Answer(t)
           \/ ~ok /\ Refuse(t) /\ UNCHANGED used
        /\ NoStateChange /\ UNCHANGED guardVars

----------------------------------------------------------------------------
(* Resources and prompts *)

\* handler_id_for_uri, match_uri: the first handler whose template matches,
\* 0 when there is none.
HandlerOf(u) ==
    LET matching == {i \in DOMAIN resources : u \in Serves[resources[i]]}
    IN  IF matching = {} THEN 0 ELSE CHOOSE i \in matching : \A j \in matching : i <= j

\* handle_resources_list.
ResourcesList(t) ==
    /\ pc[t] = "resources/list"
    /\ \/ /\ req[t].form = "ok" /\ AnyBit(negotiated.resources)
          /\ Use("resource", {id \in ResourceIds : HasResource(negotiated, id)}) /\ Answer(t)
       \/ /\ req[t].form # "ok" \/ ~AnyBit(negotiated.resources)
          /\ Refuse(t) /\ UNCHANGED used
    /\ NoStateChange /\ UNCHANGED guardVars

\* require_resource_uri_capability.
UriGranted(u) == HandlerOf(u) # 0 /\ HasResource(negotiated, HandlerOf(u) - 1)

\* RootsRegistry::allows_uri.
AllowsUri(u) == u \in FileUris => \E r \in roots : u \in Within[r]

\* handle_resources_read, _subscribe, _unsubscribe: capability, then roots,
\* then the registry or the subscriptions, each under its own lock.
ResourceCapability(t) ==
    /\ pc[t] \in ResourceMethods
    /\ LET ok == /\ AnyBit(negotiated.resources) /\ req[t].form = "ok"
                 /\ UriGranted(req[t].name)
       IN  \/ ok /\ GoOn(t, "roots")
           \/ ~ok /\ Refuse(t)
    /\ NoEffect

ResourceRoots(t) ==
    /\ pc[t] = "roots"
    /\ \/ AllowsUri(req[t].name) /\ GoOn(t, "apply")
       \/ ~AllowsUri(req[t].name) /\ Refuse(t)
    /\ NoEffect

ResourceApply(t) ==
    LET u    == req[t].name
        h    == resources[HandlerOf(u)]
        read == u \in Holds[h]
        served == Use("resource", {HandlerOf(u) - 1}) /\ Answer(t)
    IN  /\ pc[t] = "apply"
        /\ \/ req[t].method = "resources/read" /\ read /\ served /\ UNCHANGED subscriptions
           \/ /\ req[t].method = "resources/subscribe" /\ h \in Subscribable /\ read
              /\ subscriptions' = subscriptions \cup {u} /\ served
           \/ /\ req[t].method = "resources/unsubscribe"
              /\ subscriptions' = subscriptions \ {u} /\ Answer(t) /\ UNCHANGED used
           \/ /\ \/ req[t].method = "resources/read" /\ ~read
                 \/ req[t].method = "resources/subscribe" /\ ~(h \in Subscribable /\ read)
              /\ Refuse(t) /\ UNCHANGED <<subscriptions, used>>
        /\ UNCHANGED <<setupVars, appVars, sessionVars, guardVars, log_level, tokens,
                       received, winner>>

\* handle_prompts_list.
PromptsList(t) ==
    /\ pc[t] = "prompts/list"
    /\ \/ /\ req[t].form = "ok" /\ AnyBit(negotiated.prompts)
          /\ Use("prompt", {id \in PromptIds : HasPrompt(negotiated, id)}) /\ Answer(t)
       \/ /\ req[t].form # "ok" \/ ~AnyBit(negotiated.prompts)
          /\ Refuse(t) /\ UNCHANGED used
    /\ NoStateChange /\ UNCHANGED guardVars

PromptGranted(n) == n \in PromptNames /\ prompt_ids[n] # 0 /\ HasPrompt(negotiated, prompt_ids[n] - 1)

\* PromptTemplate::render refuses unknown and missing arguments.
Renders(m) == m.args = "fit"

\* handle_prompts_get.
PromptsGet(t) ==
    /\ pc[t] = "prompts/get"
    /\ LET ok == req[t].form = "ok" /\ PromptGranted(req[t].name) /\ Renders(req[t])
       IN  \/ ok /\ Use("prompt", {prompt_ids[req[t].name] - 1}) /\ Answer(t)
           \/ ~ok /\ Refuse(t) /\ UNCHANGED used
    /\ NoStateChange /\ UNCHANGED guardVars

\* handle_completion_complete, on a prompt or on a resource.
Complete(t) ==
    /\ pc[t] = "completion/complete"
    /\ LET m  == req[t]
           ok == /\ m.form = "ok"
                 /\ IF m.name \in Uris THEN UriGranted(m.name) /\ AllowsUri(m.name)
                    ELSE PromptGranted(m.name) /\ m.args = "fit"
       IN  \/ ok /\ Answer(t)
           \/ ~ok /\ Refuse(t)
    /\ NoEffect

----------------------------------------------------------------------------

TaskStep(t) ==
    \/ \E m \in Messages : HandleRequest(t, m)
    \/ Initialize(t) \/ InitializeVersion(t) \/ InitializeOffer(t) \/ InitializeGrant(t)
    \/ Initialized(t) \/ Ping(t) \/ Cancelled(t) \/ SetLevel(t)
    \/ ToolsList(t) \/ ToolsCall(t) \/ RecordCall(t) \/ ExecuteCall(t)
    \/ ResourcesList(t) \/ ResourceCapability(t) \/ ResourceRoots(t) \/ ResourceApply(t)
    \/ PromptsList(t) \/ PromptsGet(t) \/ Complete(t)

Next ==
    \/ \E n \in ToolNames, id \in 0 .. MAX_TOOLS : RegisterTool(n, id)
    \/ \E n \in PromptNames : RegisterPrompt(n)
    \/ Serve \/ ChangeRoots
    \/ \E h \in HandlerPool : RegisterResource(h)
    \/ \E k \in Keys : ChangeToken(k)
    \/ \E t \in Tasks : TaskStep(t)

Spec == Init /\ [][Next]_vars

----------------------------------------------------------------------------
(* Properties *)

\* Whatever is listed, called, read or subscribed to was asked for by the
\* client whose initialize was accepted, is registered, and is permitted by
\* the policy; and it is handed out only after that client's initialize and
\* an initialized notification, in whatever order these interleave.
Permitted(kind, id) ==
    LET asked   == [tool |-> winner.tools, resource |-> winner.resources, prompt |-> winner.prompts]
        offered == [tool |-> ToolIds, resource |-> ResourceIds, prompt |-> PromptIds]
        policy  == [tool |-> PolicyTools, resource |-> PolicyResources, prompt |-> PolicyPrompts]
    IN  id \in asked[kind] \cap offered[kind] /\ (HasPolicy => id \in policy[kind])

OnlyGranted ==
    /\ used # {} => initialize_seen /\ initialized_seen
    /\ \A u \in used : Permitted(u[1], u[2])

\* Of two initialize requests at once one is accepted, and the version and
\* the grants in force are both that one's: never the version of one with the
\* capabilities of the other.
OneNegotiation ==
    /\ \A t, u \in Tasks : pc[t] \in {"version", "offer", "grant"}
                             /\ pc[u] \in {"version", "offer", "grant"} => t = u
    /\ (initialize_seen /\ \A t \in Tasks : pc[t] \notin {"version", "offer", "grant"}) =>
         /\ protocol_version = winner.name
         /\ \A id \in 0 .. MAX_TOOLS - 1 :
              HasTool(negotiated, id) <=> Permitted("tool", id)

\* A call whose id was recorded is not dispatched again before ReplayWindow
\* other calls have been recorded.
ReplayWindowHolds ==
    \A i, j \in DOMAIN recorded :
        i < j /\ recorded[i] = recorded[j] => j - i > ReplayWindow

\* Each refused message and each refused registration of a tool has one
\* receipt, in the log or in the count of those pushed out, and nothing else
\* has: a refused prompt or resource registration leaves none.
ReceiptsComplete == audit.len + audit.dropped = refused /\ audit.len <= MaxAudit
=============================================================================
