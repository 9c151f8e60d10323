--------------------------- MODULE ProtocolProofs ---------------------------
(***************************************************************************)
(* What the binary protocol promises:                                      *)
(*   - the invariants of McpAdapter for any number of tasks, tools,        *)
(*     resources, prompts and messages, any policy and any width of the    *)
(*     bit sets;                                                           *)
(*   - Delta for any states and any limit of a run;                        *)
(*   - Arguments for any schema and any arguments;                         *)
(*   - BinaryRecords for any input.                                        *)
(***************************************************************************)
EXTENDS McpAdapter, Delta, Arguments, BinaryRecords, Lemmas, TLAPS

----------------------------------------------------------------------------
(* Bit sets: an id is found where it was put *)

Bits(n) == [0 .. n - 1 -> SUBSET (0 .. WordBits - 1)]

Manifests == [tools : Bits(ToolWords), resources : Bits(ResourceWords), prompts : Bits(PromptWords)]

BitsOf(n, ids) == [w \in 0 .. n - 1 |-> {b \in 0 .. WordBits - 1 : w * WordBits + b \in ids}]

\* An id within the range has a word and a bit in it.
LEMMA WordAndBit ==
    ASSUME NEW n \in Nat, NEW id \in Nat, id < n * WordBits
    PROVE  /\ id \div WordBits \in 0 .. n - 1 /\ id % WordBits \in 0 .. WordBits - 1
           /\ (id \div WordBits) * WordBits + (id % WordBits) = id
<1> USE ManifestAssumption
<1>1. id % WordBits \in 0 .. WordBits - 1 /\ id \div WordBits \in Nat
  OBVIOUS
<1>2. id = WordBits * (id \div WordBits) + (id % WordBits)
  OBVIOUS
<1>3. (id \div WordBits) * WordBits = WordBits * (id \div WordBits)
  BY <1>1
<1>4. id \div WordBits < n
  <2>1. SUFFICES ASSUME id \div WordBits >= n PROVE FALSE
    BY <1>1
  <2>2. (id \div WordBits) * WordBits >= n * WordBits
    BY <2>1, <1>1
  <2> QED BY <2>2, <1>1, <1>2, <1>3
<1> QED BY <1>1, <1>2, <1>3, <1>4

\* set_tool and has_tool agree.
LEMMA BitsOfHas ==
    ASSUME NEW n \in Nat, NEW ids, NEW id \in Nat
    PROVE  HasBit(BitsOf(n, ids), n, id) <=> id < n * WordBits /\ id \in ids
<1>1. CASE id < n * WordBits
  <2> DEFINE w == id \div WordBits
             b == id % WordBits
  <2>1. w \in 0 .. n - 1 /\ b \in 0 .. WordBits - 1 /\ w * WordBits + b = id
    BY <1>1, WordAndBit
  <2> HIDE DEF w, b
  <2>2. BitsOf(n, ids)[w] = {c \in 0 .. WordBits - 1 : w * WordBits + c \in ids}
    BY <2>1 DEF BitsOf
  <2>3. b \in BitsOf(n, ids)[w] <=> id \in ids
    BY <2>1, <2>2
  <2> QED BY <1>1, <2>3 DEF HasBit, w, b
<1>2. CASE ~(id < n * WordBits)
  BY <1>2 DEF HasBit
<1> QED BY <1>1, <1>2

\* intersect() grants what both sides have.
LEMMA AndBitsHas ==
    ASSUME NEW n \in Nat, NEW a \in Bits(n), NEW c, NEW id \in Nat
    PROVE  HasBit(AndBits(a, c), n, id) <=> HasBit(a, n, id) /\ HasBit(c, n, id)
<1>1. CASE id < n * WordBits
  <2>1. id \div WordBits \in 0 .. n - 1
    BY <1>1, WordAndBit
  <2>2. AndBits(a, c)[id \div WordBits] = a[id \div WordBits] \cap c[id \div WordBits]
    BY <2>1 DEF AndBits, Bits
  <2> QED BY <2>2 DEF HasBit
<1>2. CASE ~(id < n * WordBits)
  BY <1>2 DEF HasBit
<1> QED BY <1>1, <1>2

\* The bit operations of CapabilityManifest give bit sets of the same width.
LEMMA BitsTypes ==
    ASSUME NEW n \in Nat
    PROVE  /\ NoBits(n) \in Bits(n)
           /\ \A ids : BitsOf(n, ids) \in Bits(n)
           /\ \A a, c \in Bits(n) : AndBits(a, c) \in Bits(n)
           /\ \A id \in Nat : ~HasBit(NoBits(n), n, id)
<1>1. ASSUME NEW id \in Nat PROVE ~HasBit(NoBits(n), n, id)
  <2>1. CASE id < n * WordBits
    BY <2>1, WordAndBit DEF HasBit, NoBits
  <2>2. CASE ~(id < n * WordBits)
    BY <2>2 DEF HasBit
  <2> QED BY <2>1, <2>2
<1>2. NoBits(n) \in Bits(n)
  BY DEF NoBits, Bits
<1>3. \A ids : BitsOf(n, ids) \in Bits(n)
  BY DEF BitsOf, Bits
<1>4. \A a, c \in Bits(n) : AndBits(a, c) \in Bits(n)
  BY DEF AndBits, Bits
<1> QED BY <1>1, <1>2, <1>3, <1>4

\* A manifest with ids has their bits set.
LEMMA WithIdsIsBits ==
    ASSUME NEW ts, NEW rs, NEW ps
    PROVE  WithIds(ts, rs, ps) = [tools |-> BitsOf(ToolWords, ts),
                                  resources |-> BitsOf(ResourceWords, rs),
                                  prompts |-> BitsOf(PromptWords, ps)]
BY DEF WithIds, BitsOf

\* What a manifest made of sets of ids has.
LEMMA WithIdsHas ==
    ASSUME NEW ts, NEW rs, NEW ps, NEW id \in Nat
    PROVE  /\ HasTool(WithIds(ts, rs, ps), id) <=> id < MAX_TOOLS /\ id \in ts
           /\ HasResource(WithIds(ts, rs, ps), id) <=> id < MAX_RESOURCES /\ id \in rs
           /\ HasPrompt(WithIds(ts, rs, ps), id) <=> id < MAX_PROMPTS /\ id \in ps
<1>1. /\ WithIds(ts, rs, ps).tools = BitsOf(ToolWords, ts)
      /\ WithIds(ts, rs, ps).resources = BitsOf(ResourceWords, rs)
      /\ WithIds(ts, rs, ps).prompts = BitsOf(PromptWords, ps)
  BY WithIdsIsBits
<1>2. ToolWords \in Nat /\ ResourceWords \in Nat /\ PromptWords \in Nat
  BY ManifestAssumption
<1>3. HasBit(BitsOf(ToolWords, ts), ToolWords, id) <=> id < ToolWords * WordBits /\ id \in ts
  BY <1>2, BitsOfHas
<1>4. HasBit(BitsOf(ResourceWords, rs), ResourceWords, id)
        <=> id < ResourceWords * WordBits /\ id \in rs
  BY <1>2, BitsOfHas
<1>5. HasBit(BitsOf(PromptWords, ps), PromptWords, id) <=> id < PromptWords * WordBits /\ id \in ps
  BY <1>2, BitsOfHas
<1> QED BY <1>1, <1>3, <1>4, <1>5 DEF HasTool, HasResource, HasPrompt, MAX_TOOLS, MAX_RESOURCES,
        MAX_PROMPTS

\* What the intersection of two manifests has.
LEMMA IntersectHas ==
    ASSUME NEW m \in Manifests, NEW o \in Manifests, NEW id \in Nat
    PROVE  /\ HasTool(Intersect(m, o), id) <=> HasTool(m, id) /\ HasTool(o, id)
           /\ HasResource(Intersect(m, o), id) <=> HasResource(m, id) /\ HasResource(o, id)
           /\ HasPrompt(Intersect(m, o), id) <=> HasPrompt(m, id) /\ HasPrompt(o, id)
<1>1. m.tools \in Bits(ToolWords) /\ m.resources \in Bits(ResourceWords)
        /\ m.prompts \in Bits(PromptWords)
  BY DEF Manifests
<1>2. ToolWords \in Nat /\ ResourceWords \in Nat /\ PromptWords \in Nat
  BY ManifestAssumption
<1>3. HasBit(AndBits(m.tools, o.tools), ToolWords, id)
        <=> HasBit(m.tools, ToolWords, id) /\ HasBit(o.tools, ToolWords, id)
  BY <1>1, <1>2, AndBitsHas
<1>4. HasBit(AndBits(m.resources, o.resources), ResourceWords, id)
        <=> HasBit(m.resources, ResourceWords, id) /\ HasBit(o.resources, ResourceWords, id)
  BY <1>1, <1>2, AndBitsHas
<1>5. HasBit(AndBits(m.prompts, o.prompts), PromptWords, id)
        <=> HasBit(m.prompts, PromptWords, id) /\ HasBit(o.prompts, PromptWords, id)
  BY <1>1, <1>2, AndBitsHas
<1>6. /\ Intersect(m, o).tools = AndBits(m.tools, o.tools)
      /\ Intersect(m, o).resources = AndBits(m.resources, o.resources)
      /\ Intersect(m, o).prompts = AndBits(m.prompts, o.prompts)
  BY DEF Intersect
<1> QED BY <1>3, <1>4, <1>5, <1>6 DEF HasTool, HasResource, HasPrompt

\* new, with ids and intersect give manifests.
LEMMA ManifestTypes ==
    /\ NewManifest \in Manifests
    /\ \A ts, rs, ps : WithIds(ts, rs, ps) \in Manifests
    /\ \A m, o \in Manifests : Intersect(m, o) \in Manifests
<1> USE ManifestAssumption
<1>1. NewManifest \in Manifests
  BY BitsTypes DEF NewManifest, Manifests
<1>2. ASSUME NEW ts, NEW rs, NEW ps PROVE WithIds(ts, rs, ps) \in Manifests
  BY BitsTypes, WithIdsIsBits DEF Manifests
<1>3. ASSUME NEW m \in Manifests, NEW o \in Manifests PROVE Intersect(m, o) \in Manifests
  BY BitsTypes DEF Manifests, Intersect
<1> QED BY <1>1, <1>2, <1>3

\* CapabilityManifest::new() has nothing.
LEMMA NewManifestHasNothing ==
    ASSUME NEW id \in Nat
    PROVE  /\ ~HasTool(NewManifest, id) /\ ~HasResource(NewManifest, id)
           /\ ~HasPrompt(NewManifest, id)
BY BitsTypes, ManifestAssumption DEF NewManifest, HasTool, HasResource, HasPrompt

----------------------------------------------------------------------------
(* What a step does to the audit log and to the replay guard *)

KeepsAudit == audit' = audit /\ refused' = refused
Receipted  == audit' = Record(audit) /\ refused' = refused + 1

\* A step of a task finishes, refuses or goes on.
LEMMA TaskAudits ==
    ASSUME NEW t \in Tasks, TaskStep(t)
    PROVE  KeepsAudit \/ Receipted
<1> USE DEF KeepsAudit, Receipted, Refuse, Answer, GoOn
<1>1. ASSUME NEW m \in Messages, HandleRequest(t, m) PROVE KeepsAudit \/ Receipted
  BY <1>1 DEF HandleRequest
<1>2. CASE Initialize(t) \/ InitializeVersion(t) \/ InitializeOffer(t) \/ InitializeGrant(t)
  BY <1>2 DEF Initialize, InitializeVersion, InitializeOffer, InitializeGrant
<1>3. CASE Initialized(t) \/ Ping(t) \/ Cancelled(t) \/ SetLevel(t)
  BY <1>3 DEF Initialized, Ping, Cancelled, SetLevel
<1>4. CASE ToolsList(t) \/ ToolsCall(t) \/ RecordCall(t) \/ ExecuteCall(t)
  BY <1>4 DEF ToolsList, ToolsCall, RecordCall, ExecuteCall
<1>5. CASE ResourcesList(t) \/ ResourceCapability(t) \/ ResourceRoots(t) \/ ResourceApply(t)
  BY <1>5 DEF ResourcesList, ResourceCapability, ResourceRoots, ResourceApply
<1>6. CASE PromptsList(t) \/ PromptsGet(t) \/ Complete(t)
  BY <1>6 DEF PromptsList, PromptsGet, Complete
<1> QED BY <1>1, <1>2, <1>3, <1>4, <1>5, <1>6 DEF TaskStep

\* A step leaves the audit alone or adds a receipt.
LEMMA StepAudits == ASSUME [Next]_vars PROVE KeepsAudit \/ Receipted
<1> USE DEF KeepsAudit, Receipted
<1>1. ASSUME NEW n \in ToolNames, NEW id \in 0 .. MAX_TOOLS, RegisterTool(n, id)
      PROVE  KeepsAudit \/ Receipted
  BY <1>1 DEF RegisterTool
<1>2. ASSUME NEW n \in PromptNames, RegisterPrompt(n) PROVE KeepsAudit
  BY <1>2 DEF RegisterPrompt, vars
<1>3. CASE Serve \/ ChangeRoots
  BY <1>3 DEF Serve, ChangeRoots
<1>4. ASSUME NEW h \in HandlerPool, RegisterResource(h) PROVE KeepsAudit
  BY <1>4 DEF RegisterResource, vars
<1>5. ASSUME NEW k \in Keys, ChangeToken(k) PROVE KeepsAudit
  BY <1>5 DEF ChangeToken
<1>6. ASSUME NEW t \in Tasks, TaskStep(t) PROVE KeepsAudit \/ Receipted
  BY <1>6, TaskAudits
<1>7. CASE UNCHANGED vars
  BY <1>7 DEF vars
<1> QED BY <1>1, <1>2, <1>3, <1>4, <1>5, <1>6, <1>7 DEF Next

AuditInv == audit \in [len : Nat, dropped : Nat] /\ refused \in Nat /\ ReceiptsComplete

\* SecurityAuditLog: the receipts of refused messages and tool registrations,
\* one each, are in the log or counted as pushed out, for any limit, 0
\* included, and any number of refusals.  Refused prompt and resource
\* registrations leave none.
THEOREM ReceiptsAreComplete == Spec => []ReceiptsComplete
<1>1. Init => AuditInv
  BY AdapterAssumption DEF Init, AuditInv, ReceiptsComplete
<1>2. AuditInv /\ [Next]_vars => AuditInv'
  <2> SUFFICES ASSUME AuditInv, [Next]_vars PROVE AuditInv'
    OBVIOUS
  <2>1. CASE KeepsAudit
    BY <2>1 DEF KeepsAudit, AuditInv, ReceiptsComplete
  <2>2. CASE Receipted
    BY <2>2, AdapterAssumption DEF Receipted, Record, AuditInv, ReceiptsComplete
  <2> QED BY <2>1, <2>2, StepAudits
<1>3. AuditInv => ReceiptsComplete
  BY DEF AuditInv
<1> QED BY <1>1, <1>2, <1>3, PTL DEF Spec

----------------------------------------------------------------------------
(* The replay guard *)

\* The only step that changes the guard.
Records(t) ==
    LET grown == Append(order, req[t].key)
    IN  /\ req[t].key \notin seen
        /\ order' = IF Len(grown) > ReplayWindow
                    THEN SubSeq(grown, Len(grown) - ReplayWindow + 1, Len(grown)) ELSE grown
        /\ seen' = {order'[i] : i \in DOMAIN order'}
        /\ recorded' = Append(recorded, req[t].key)

\* A step leaves the guard's state alone or records a call.
LEMMA StepGuards == ASSUME [Next]_vars PROVE UNCHANGED guardVars \/ \E t \in Tasks : Records(t)
<1> USE DEF guardVars
<1>1. ASSUME NEW n \in ToolNames, NEW id \in 0 .. MAX_TOOLS, RegisterTool(n, id)
      PROVE  UNCHANGED guardVars
  BY <1>1 DEF RegisterTool, Application
<1>2. ASSUME NEW n \in PromptNames, RegisterPrompt(n) PROVE UNCHANGED guardVars
  BY <1>2 DEF RegisterPrompt, Application, vars, guardVars
<1>3. CASE Serve \/ ChangeRoots
  BY <1>3 DEF Serve, ChangeRoots, Application
<1>4. ASSUME NEW h \in HandlerPool, RegisterResource(h) PROVE UNCHANGED guardVars
  BY <1>4 DEF RegisterResource, Application, vars, guardVars
<1>5. ASSUME NEW k \in Keys, ChangeToken(k) PROVE UNCHANGED guardVars
  BY <1>5 DEF ChangeToken, Application
<1>6. ASSUME NEW t \in Tasks, TaskStep(t) PROVE UNCHANGED guardVars \/ Records(t)
  <2> USE DEF NoEffect
  <2>1. ASSUME NEW m \in Messages, HandleRequest(t, m) PROVE UNCHANGED guardVars
    BY <2>1 DEF HandleRequest
  <2>2. CASE Initialize(t) \/ InitializeVersion(t) \/ InitializeOffer(t) \/ InitializeGrant(t)
    BY <2>2 DEF Initialize, InitializeVersion, InitializeOffer, InitializeGrant
  <2>3. CASE Initialized(t) \/ Ping(t) \/ Cancelled(t) \/ SetLevel(t)
    BY <2>3 DEF Initialized, Ping, Cancelled, SetLevel
  <2>4. CASE ToolsList(t) \/ ToolsCall(t) \/ ExecuteCall(t)
    BY <2>4 DEF ToolsList, ToolsCall, ExecuteCall
  <2>5. CASE RecordCall(t)
    BY <2>5 DEF RecordCall, Records
  <2>6. CASE ResourcesList(t) \/ ResourceCapability(t) \/ ResourceRoots(t) \/ ResourceApply(t)
    BY <2>6 DEF ResourcesList, ResourceCapability, ResourceRoots, ResourceApply
  <2>7. CASE PromptsList(t) \/ PromptsGet(t) \/ Complete(t)
    BY <2>7 DEF PromptsList, PromptsGet, Complete
  <2> QED BY <1>6, <2>1, <2>2, <2>3, <2>4, <2>5, <2>6, <2>7 DEF TaskStep
<1>7. CASE UNCHANGED vars
  BY <1>7 DEF vars
<1> QED BY <1>1, <1>2, <1>3, <1>4, <1>5, <1>6, <1>7 DEF Next

KeysTyped == \E K : order \in Seq(K) /\ recorded \in Seq(K)

\* The queue holds the last ReplayWindow keys that were recorded, the set holds
\* what the queue holds.
WindowInv ==
    /\ KeysTyped
    /\ seen = {order[i] : i \in DOMAIN order}
    /\ Windowed(order, recorded, ReplayWindow)
    /\ Spaced(recorded, ReplayWindow)

\* A key that is not in the set was not among the last ReplayWindow.
LEMMA RecordsWindow ==
    ASSUME WindowInv, NEW t \in Tasks, Records(t)
    PROVE  WindowInv'
<1> DEFINE key == req[t].key
<1>1. PICK K0 : order \in Seq(K0) /\ recorded \in Seq(K0)
  BY DEF WindowInv, KeysTyped
<1>2. PICK K : K = K0 \cup {key}
  OBVIOUS
<1>3. order \in Seq(K) /\ recorded \in Seq(K) /\ key \in K
  BY <1>1, <1>2, SeqMonotonic
<1>5. order' = Slid(order, key, ReplayWindow) /\ recorded' = Append(recorded, key)
  BY DEF Records, Slid
<1>6. ReplayWindow \in Nat
  BY AdapterAssumption
<1>7. order' \in Seq(K) /\ Windowed(order', recorded', ReplayWindow)
  BY <1>3, <1>5, <1>6, WindowSlides DEF WindowInv
<1>8. \A i \in 1 .. Len(order) : order[i] # key
  <2>1. DOMAIN order = 1 .. Len(order)
    BY <1>3, LenProperties
  <2> QED BY <2>1 DEF WindowInv, Records
<1>9. Spaced(recorded', ReplayWindow)
  BY <1>3, <1>5, <1>6, <1>8, NewIsSpaced DEF WindowInv
<1>10. recorded' \in Seq(K)
  BY <1>3, <1>5, AppendProperties
<1>11. KeysTyped'
  BY <1>7, <1>10 DEF KeysTyped
<1>12. seen' = {order'[i] : i \in DOMAIN order'}
  BY DEF Records
<1> QED BY <1>7, <1>9, <1>11, <1>12 DEF WindowInv

\* RequestReplayGuard: a key recorded once is recorded again only after more
\* than ReplayWindow others, for any window, any keys and any interleaving.
THEOREM ReplayWindowAlwaysHolds == Spec => []ReplayWindowHolds
<1>1. Init => WindowInv
  <2> SUFFICES ASSUME Init PROVE WindowInv
    OBVIOUS
  <2>1. order \in Seq({}) /\ recorded \in Seq({}) /\ Len(order) = 0 /\ Len(recorded) = 0
    BY EmptySeq DEF Init
  <2>2. DOMAIN order = {} /\ DOMAIN recorded = {} /\ seen = {}
    BY <2>1 DEF Init
  <2>3. KeysTyped
    BY <2>1 DEF KeysTyped
  <2> QED BY <2>1, <2>2, <2>3, AdapterAssumption DEF WindowInv, Windowed, Spaced
<1>2. WindowInv /\ [Next]_vars => WindowInv'
  <2> SUFFICES ASSUME WindowInv, [Next]_vars PROVE WindowInv'
    OBVIOUS
  <2>1. CASE UNCHANGED guardVars
    BY <2>1 DEF guardVars, WindowInv, KeysTyped, Windowed, Spaced
  <2>2. CASE \E t \in Tasks : Records(t)
    BY <2>2, RecordsWindow
  <2> QED BY <2>1, <2>2, StepGuards
<1>3. WindowInv => ReplayWindowHolds
  BY DEF WindowInv, Spaced, ReplayWindowHolds
<1> QED BY <1>1, <1>2, <1>3, PTL DEF Spec

----------------------------------------------------------------------------
(* Negotiation, lifecycle and what is handed out: one inductive invariant *)

Negotiating == {"version", "offer", "grant"}
UriSteps    == {"roots", "apply"}
CallSteps   == {"record", "execute"}
Inside      == (RequiresInitialized \ ServerToClient) \cup UriSteps \cup CallSteps
AdapterPCs  == Handled \cup Negotiating \cup UriSteps \cup CallSteps \cup {"idle"}
ItemKinds   == {"tool", "resource", "prompt"}
Requests    == Messages \cup {NoRequest}

AdapterTypes ==
    /\ serving \in BOOLEAN /\ initialize_seen \in BOOLEAN /\ initialized_seen \in BOOLEAN
    /\ tool_cache \in [ToolNames -> Nat] /\ prompt_ids \in [PromptNames -> Nat]
    /\ IsFiniteSet({n \in PromptNames : prompt_ids[n] # 0})
    /\ resources \in Seq(HandlerPool)
    /\ pc \in [Tasks -> AdapterPCs] /\ req \in [Tasks -> Requests]
    /\ offer \in [Tasks -> Manifests] /\ negotiated \in Manifests

\* The offer is what is registered and permitted; of tools, all of it: their
\* set is fixed by now, while resources may still be added.
OfferFits(o) ==
    /\ \A id \in Nat : HasTool(o, id) <=>
          id < MAX_TOOLS /\ id \in ToolIds /\ (HasPolicy => id \in PolicyTools)
    /\ \A id \in Nat : HasResource(o, id) => id \in ResourceIds /\ (HasPolicy => id \in PolicyResources)
    /\ \A id \in Nat : HasPrompt(o, id) => id \in PromptIds /\ (HasPolicy => id \in PolicyPrompts)

\* Nothing is granted that is not permitted.
GrantsPermitted ==
    \A id \in Nat : /\ HasTool(negotiated, id) => Permitted("tool", id)
                    /\ HasResource(negotiated, id) => Permitted("resource", id)
                    /\ HasPrompt(negotiated, id) => Permitted("prompt", id)

\* One task at most negotiates, for the client that claimed the session, and
\* nothing is granted before it is done.
NegotiationHeld ==
    /\ \A t, u \in Tasks : pc[t] \in Negotiating /\ pc[u] \in Negotiating => t = u
    /\ \A t \in Tasks :
         /\ pc[t] \in Negotiating =>
              initialize_seen /\ winner = req[t] /\ negotiated = NewManifest
         /\ pc[t] \in {"offer", "grant"} => protocol_version = req[t].name
         /\ pc[t] = "grant" => OfferFits(offer[t])
    /\ ~initialize_seen => negotiated = NewManifest

\* What holds when the negotiation is over.
NegotiationDone ==
    (initialize_seen /\ \A t \in Tasks : pc[t] \notin Negotiating) =>
        /\ protocol_version = winner.name
        /\ \A id \in Nat : id < MAX_TOOLS => (HasTool(negotiated, id) <=> Permitted("tool", id))

ToolKnown(n) == n \in ToolNames /\ tool_cache[n] # 0

\* What the lifecycle has seen when a task is where it is.
LifecycleKept ==
    /\ initialized_seen => initialize_seen
    /\ ~serving => ~initialize_seen /\ \A t \in Tasks : pc[t] = "idle"
    /\ \A t \in Tasks : /\ pc[t] \in Inside => initialized_seen
                        /\ pc[t] \in UriSteps => UriGranted(req[t].name)
                        /\ pc[t] \in CallSteps => ToolKnown(req[t].name)

UsedKept ==
    /\ used # {} => initialized_seen
    /\ used \subseteq ItemKinds \X Nat
    /\ \A u \in used : Permitted(u[1], u[2])

AdapterInv ==
    /\ AdapterTypes /\ GrantsPermitted /\ NegotiationHeld /\ NegotiationDone
    /\ LifecycleKept /\ UsedKept

\* What may be granted depends on what is registered and on who has claimed
\* the session; what is granted also on the negotiation.
RegistrySame == UNCHANGED <<tool_cache, prompt_ids, resources, winner>>
ConfigSame   == RegistrySame /\ UNCHANGED <<serving, protocol_version, negotiated, initialize_seen>>

\* What a task may reach, where the registries stay as they are.
LEMMA RegistrySameKeeps ==
    ASSUME RegistrySame
    PROVE  /\ \A k, id : Permitted(k, id)' <=> Permitted(k, id)
           /\ \A u : HandlerOf(u)' = HandlerOf(u)
           /\ \A o : OfferFits(o)' <=> OfferFits(o)
<1> USE DEF RegistrySame
<1>1. ToolIds' = ToolIds /\ PromptIds' = PromptIds /\ ResourceIds' = ResourceIds
  BY DEF ToolIds, PromptIds, ResourceIds
<1>2. ASSUME NEW k, NEW id PROVE Permitted(k, id)' <=> Permitted(k, id)
  BY <1>1 DEF Permitted
<1>3. ASSUME NEW u PROVE HandlerOf(u)' = HandlerOf(u)
  BY DEF HandlerOf
<1>4. ASSUME NEW o PROVE OfferFits(o)' <=> OfferFits(o)
  BY <1>1 DEF OfferFits
<1> QED BY <1>2, <1>3, <1>4

\* What a task may reach, where the configuration stays as it is.
LEMMA ConfigSameKeeps ==
    ASSUME ConfigSame
    PROVE  /\ \A k, id : Permitted(k, id)' <=> Permitted(k, id)
           /\ \A u : UriGranted(u)' <=> UriGranted(u)
           /\ \A o : OfferFits(o)' <=> OfferFits(o)
           /\ GrantsPermitted' <=> GrantsPermitted
<1> USE RegistrySameKeeps DEF ConfigSame
<1>1. ASSUME NEW u PROVE UriGranted(u)' <=> UriGranted(u)
  BY DEF UriGranted
<1>2. GrantsPermitted' <=> GrantsPermitted
  BY DEF GrantsPermitted
<1> QED BY <1>1, <1>2

\* A task that does not negotiate takes a step that leaves the permissions
\* alone; what it hands out is permitted.
LEMMA TaskMoves ==
    ASSUME AdapterInv, ConfigSame, NEW t \in Tasks, serving, pc[t] \notin Negotiating,
           initialized_seen' \in BOOLEAN, initialized_seen => initialized_seen',
           initialized_seen' => initialize_seen,
           NEW l \in AdapterPCs, l \notin Negotiating,
           NEW m \in Requests, NEW o \in Manifests,
           pc' = [pc EXCEPT ![t] = l], req' = [req EXCEPT ![t] = m],
           offer' = [offer EXCEPT ![t] = o],
           l \in Inside => initialized_seen',
           l \in UriSteps => UriGranted(m.name), l \in CallSteps => ToolKnown(m.name),
           used' # {} => initialized_seen',
           used' \subseteq ItemKinds \X Nat,
           \A u \in used' : u \in used \/ Permitted(u[1], u[2])
    PROVE  AdapterInv'
<1>1. AdapterTypes'
  BY DEF AdapterInv, AdapterTypes, ConfigSame, RegistrySame
<1>2. GrantsPermitted'
  BY ConfigSameKeeps DEF AdapterInv
<1>3. \A u \in Tasks : /\ u # t => pc'[u] = pc[u] /\ req'[u] = req[u] /\ offer'[u] = offer[u]
                       /\ u = t => pc'[u] = l /\ req'[u] = m /\ offer'[u] = o
  BY DEF AdapterInv, AdapterTypes
<1>4. \A u \in Tasks : pc'[u] \in Negotiating =>
          u # t /\ pc[u] \in Negotiating /\ pc'[u] = pc[u] /\ req'[u] = req[u] /\ offer'[u] = offer[u]
  BY <1>3
<1>5. (\A u \in Tasks : pc'[u] \notin Negotiating) => \A u \in Tasks : pc[u] \notin Negotiating
  BY <1>3
<1>6. \A x : OfferFits(x)' <=> OfferFits(x)
  BY ConfigSameKeeps
<1>7. NegotiationHeld'
  <2>1. \A u, v \in Tasks : pc'[u] \in Negotiating /\ pc'[v] \in Negotiating => u = v
    BY <1>4 DEF AdapterInv, NegotiationHeld
  <2>2. ASSUME NEW u \in Tasks, pc'[u] \in Negotiating
        PROVE  /\ initialize_seen' /\ winner' = req'[u] /\ negotiated' = NewManifest
               /\ pc'[u] \in {"offer", "grant"} => protocol_version' = req'[u].name
               /\ pc'[u] = "grant" => OfferFits(offer[u])
    BY <2>2, <1>4 DEF AdapterInv, NegotiationHeld, ConfigSame, RegistrySame
  <2>3. ASSUME NEW u \in Tasks, pc'[u] = "grant" PROVE OfferFits(offer[u])'
    <3>1. pc'[u] \in Negotiating
      BY <2>3 DEF Negotiating
    <3>2. PICK x : x = offer[u]
      OBVIOUS
    <3>3. OfferFits(x)'
      BY <2>2, <2>3, <3>1, <3>2, <1>6
    <3>4. offer'[u] = x
      BY <3>1, <3>2, <1>4
    <3> QED BY <3>3, <3>4
  <2>4. ~initialize_seen' => negotiated' = NewManifest
    BY DEF AdapterInv, NegotiationHeld, ConfigSame, RegistrySame
  <2> QED BY <2>1, <2>2, <2>3, <2>4 DEF NegotiationHeld, Negotiating
<1>8. NegotiationDone'
  BY <1>5, ConfigSameKeeps DEF AdapterInv, NegotiationDone, ConfigSame, RegistrySame
<1>9. LifecycleKept'
  <2>1. ASSUME NEW u \in Tasks, pc'[u] \in UriSteps PROVE UriGranted(req[u].name)'
    <3>1. PICK x : x = req'[u].name
      OBVIOUS
    <3>2. UriGranted(x)
      BY <2>1, <3>1, <1>3 DEF AdapterInv, LifecycleKept
    <3>3. UriGranted(x)'
      BY <3>2, ConfigSameKeeps
    <3> QED BY <3>1, <3>3
  <2>2. \A u \in Tasks : pc'[u] \in Inside => initialized_seen'
    BY <1>3 DEF AdapterInv, LifecycleKept
  <2>3. \A u \in Tasks : pc'[u] \in CallSteps => ToolKnown(req[u].name)'
    BY <1>3 DEF AdapterInv, LifecycleKept, ToolKnown, ConfigSame, RegistrySame
  <2> QED BY <2>1, <2>2, <2>3 DEF LifecycleKept, ConfigSame
<1>10. UsedKept'
  <2>1. ASSUME NEW u \in used' PROVE Permitted(u[1], u[2])'
    <3>1. Permitted(u[1], u[2])
      BY <2>1 DEF AdapterInv, UsedKept
    <3>2. PICK k, id : k = u[1] /\ id = u[2]
      OBVIOUS
    <3> QED BY <3>1, ConfigSameKeeps
  <2> QED BY <2>1 DEF UsedKept
<1> QED BY <1>1, <1>2, <1>7, <1>8, <1>9, <1>10 DEF AdapterInv

\* A task that is not idle has been let in.
LEMMA ServingWhenBusy ==
    ASSUME AdapterInv, NEW t \in Tasks, pc[t] # "idle"
    PROVE  serving
BY DEF AdapterInv, AdapterTypes, LifecycleKept

\* A handler that ends, whether it answers or refuses.
LEMMA TaskFinishes ==
    ASSUME AdapterInv, ConfigSame, NEW t \in Tasks, serving, pc[t] \notin Negotiating,
           initialized_seen' = initialized_seen,
           Finish(t),
           NEW S, S \subseteq ItemKinds \X Nat, used' = used \cup S,
           S # {} => initialized_seen,
           \A u \in S : Permitted(u[1], u[2])
    PROVE  AdapterInv'
<1>1. "idle" \in AdapterPCs /\ "idle" \notin Negotiating /\ "idle" \notin Inside
        /\ "idle" \notin UriSteps /\ "idle" \notin CallSteps
  BY DEF AdapterPCs, Negotiating, Inside, UriSteps, CallSteps, RequiresInitialized, ResourceMethods,
     ServerToClient
<1>2. NoRequest \in Requests /\ NewManifest \in Manifests
  BY ManifestTypes DEF Requests
<1>3. initialized_seen \in BOOLEAN /\ (initialized_seen => initialize_seen)
  BY DEF AdapterInv, AdapterTypes, LifecycleKept
<1>4. used' \subseteq ItemKinds \X Nat /\ (used' # {} => initialized_seen)
  BY DEF AdapterInv, UsedKept
<1>5. pc' = [pc EXCEPT ![t] = "idle"] /\ req' = [req EXCEPT ![t] = NoRequest]
        /\ offer' = [offer EXCEPT ![t] = NewManifest]
  BY DEF Finish
<1>6. \A u \in used' : u \in used \/ Permitted(u[1], u[2])
  OBVIOUS
<1> QED BY <1>1, <1>2, <1>3, <1>4, <1>5, <1>6, TaskMoves

\* A handler that hands out nothing and ends.
LEMMA TaskEnds ==
    ASSUME AdapterInv, ConfigSame, NEW t \in Tasks, serving, pc[t] \notin Negotiating,
           initialized_seen' = initialized_seen, Finish(t), used' = used
    PROVE  AdapterInv'
<1>1. PICK S : S = {}
  OBVIOUS
<1>2. /\ S \subseteq ItemKinds \X Nat /\ used' = used \cup S /\ (S # {} => initialized_seen)
      /\ \A u \in S : Permitted(u[1], u[2])
  BY <1>1
<1> QED BY <1>2, TaskFinishes

\* A handler that gives up a lock and goes on.
LEMMA TaskGoesOn ==
    ASSUME AdapterInv, ConfigSame, NEW t \in Tasks, serving, pc[t] \in Inside,
           initialized_seen' = initialized_seen, used' = used,
           NEW l \in UriSteps \cup CallSteps, GoOn(t, l),
           l \in UriSteps => UriGranted(req[t].name),
           l \in CallSteps => ToolKnown(req[t].name)
    PROVE  AdapterInv'
<1>1. l \in AdapterPCs /\ l \notin Negotiating /\ pc[t] \notin Negotiating
  BY DEF AdapterPCs, Negotiating, Inside, UriSteps, CallSteps, RequiresInitialized, ResourceMethods,
     ServerToClient
<1>2. initialized_seen \in BOOLEAN /\ initialized_seen /\ (initialized_seen => initialize_seen)
  BY DEF AdapterInv, AdapterTypes, LifecycleKept
<1>3. req[t] \in Requests /\ offer[t] \in Manifests
        /\ req' = [req EXCEPT ![t] = req[t]] /\ offer' = [offer EXCEPT ![t] = offer[t]]
        /\ pc' = [pc EXCEPT ![t] = l]
  BY DEF GoOn, AdapterInv, AdapterTypes
<1>4. used' \subseteq ItemKinds \X Nat /\ \A u \in used' : u \in used \/ Permitted(u[1], u[2])
  BY DEF AdapterInv, UsedKept
<1> QED BY <1>1, <1>2, <1>3, <1>4, TaskMoves

\* handle_request up to the handler.
LEMMA HandleRequestPreserves ==
    ASSUME AdapterInv, NEW t \in Tasks, NEW m \in Messages, HandleRequest(t, m)
    PROVE  AdapterInv'
<1>1. /\ ConfigSame /\ serving /\ pc[t] = "idle" /\ pc[t] \notin Negotiating
      /\ initialized_seen' = initialized_seen /\ used' = used
  BY DEF HandleRequest, ConfigSame, RegistrySame, setupVars, appVars, sessionVars, Negotiating
<1>2. CASE Accepted(m) /\ pc' = [pc EXCEPT ![t] = m.method] /\ req' = [req EXCEPT ![t] = m]
             /\ UNCHANGED offer
  <2>1. m.method \in AdapterPCs /\ m.method \notin Negotiating /\ m.method \notin UriSteps
        /\ m.method \notin CallSteps
    BY <1>2 DEF Accepted, AdapterPCs, Handled, Negotiating, UriSteps, CallSteps, RequiresInitialized,
       NotificationOnly, ResourceMethods, ServerToClient
  <2>2. m.method \in Inside => initialized_seen
    BY <1>2, <2>1 DEF Accepted, Inside, Handled, RequiresInitialized, NotificationOnly,
       ResourceMethods, ServerToClient
  <2>3. initialized_seen \in BOOLEAN /\ (initialized_seen => initialize_seen)
    BY DEF AdapterInv, AdapterTypes, LifecycleKept
  <2>4. m \in Requests /\ offer[t] \in Manifests /\ offer' = [offer EXCEPT ![t] = offer[t]]
    BY <1>2 DEF AdapterInv, AdapterTypes, Requests
  <2>5. /\ used' \subseteq ItemKinds \X Nat /\ (used' # {} => initialized_seen)
        /\ \A u \in used' : u \in used \/ Permitted(u[1], u[2])
    BY <1>1 DEF AdapterInv, UsedKept
  <2> QED BY <1>1, <1>2, <2>1, <2>2, <2>3, <2>4, <2>5, TaskMoves
<1>3. CASE Refuse(t)
  BY <1>1, <1>3, TaskEnds DEF Refuse
<1> QED BY <1>2, <1>3 DEF HandleRequest

\* What the handlers that neither negotiate nor hand anything out leave alone.
LEMMA QuietHandlersPreserve ==
    ASSUME AdapterInv, NEW t \in Tasks,
           Ping(t) \/ Cancelled(t) \/ SetLevel(t) \/ Complete(t)
    PROVE  AdapterInv'
<1>1. /\ ConfigSame /\ pc[t] # "idle" /\ pc[t] \notin Negotiating
      /\ initialized_seen' = initialized_seen /\ used' = used /\ Finish(t)
  <2> USE DEF NoEffect, ConfigSame, RegistrySame, setupVars, appVars, sessionVars, Negotiating, Answer, Refuse
  <2>1. CASE Ping(t)
    BY <2>1 DEF Ping
  <2>2. CASE Cancelled(t)
    BY <2>2 DEF Cancelled
  <2>3. CASE SetLevel(t)
    BY <2>3 DEF SetLevel
  <2>4. CASE Complete(t)
    BY <2>4 DEF Complete
  <2> QED BY <2>1, <2>2, <2>3, <2>4
<1> QED BY <1>1, TaskEnds, ServingWhenBusy

\* Ids in use are numbers.
LEMMA IdsAreNumbers ==
    ASSUME AdapterInv
    PROVE  ToolIds \subseteq Nat /\ PromptIds \subseteq Nat /\ ResourceIds \subseteq Nat
<1>1. ToolIds \subseteq Nat /\ PromptIds \subseteq Nat
  BY DEF AdapterInv, AdapterTypes, ToolIds, PromptIds
<1>2. DOMAIN resources = 1 .. Len(resources)
  BY LenProperties DEF AdapterInv, AdapterTypes
<1>3. ResourceIds \subseteq Nat
  BY <1>2 DEF ResourceIds
<1> QED BY <1>1, <1>3

\* A handler that hands out granted items of one kind.
LEMMA TaskHandsOut ==
    ASSUME AdapterInv, NEW t \in Tasks, pc[t] \in Inside,
           ConfigSame, initialized_seen' = initialized_seen, Finish(t),
           NEW kind \in ItemKinds, NEW ids, ids \subseteq Nat,
           \A id \in ids : Permitted(kind, id),
           used' = used \cup {<<kind, id>> : id \in ids}
    PROVE  AdapterInv'
<1> DEFINE S == {<<kind, id>> : id \in ids}
<1>1. S \subseteq ItemKinds \X Nat
  <2>1. ASSUME NEW id \in ids PROVE <<kind, id>> \in ItemKinds \X Nat
    <3>1. id \in Nat
      BY Zenon
    <3> QED BY <3>1
  <2> QED BY <2>1, Zenon
<1>2. \A u \in S : Permitted(u[1], u[2])
  OBVIOUS
<1>3. initialized_seen
  BY DEF AdapterInv, LifecycleKept
<1>4. pc[t] # "idle" /\ pc[t] \notin Negotiating
  BY DEF Negotiating, Inside, UriSteps, CallSteps, RequiresInitialized, ResourceMethods, ServerToClient
<1>5. serving
  BY <1>4, ServingWhenBusy
<1> HIDE DEF S
<1>6. used' = used \cup S
  BY DEF S
<1> QED BY <1>1, <1>2, <1>3, <1>4, <1>5, <1>6, TaskFinishes

\* The three listings.
LEMMA ListingsPreserve ==
    ASSUME AdapterInv, NEW t \in Tasks, ToolsList(t) \/ ResourcesList(t) \/ PromptsList(t)
    PROVE  AdapterInv'
<1>1. /\ ConfigSame /\ pc[t] # "idle" /\ pc[t] \notin Negotiating /\ pc[t] \in Inside
      /\ initialized_seen' = initialized_seen
      /\ Finish(t)
  BY DEF ToolsList, ResourcesList, PromptsList, NoStateChange, ConfigSame, RegistrySame, setupVars, appVars,
     sessionVars, Negotiating, Inside, UriSteps, CallSteps, RequiresInitialized, ResourceMethods,
     ServerToClient, Answer, Refuse
<1>2. serving
  BY <1>1, ServingWhenBusy
<1>3. CASE UNCHANGED used
  BY <1>1, <1>2, <1>3, TaskEnds
<1> DEFINE tools == {id \in ToolIds : HasTool(negotiated, id)}
           uris == {id \in ResourceIds : HasResource(negotiated, id)}
           prompts == {id \in PromptIds : HasPrompt(negotiated, id)}
<1>4. /\ tools \subseteq Nat /\ \A id \in tools : Permitted("tool", id)
      /\ uris \subseteq Nat /\ \A id \in uris : Permitted("resource", id)
      /\ prompts \subseteq Nat /\ \A id \in prompts : Permitted("prompt", id)
  BY IdsAreNumbers DEF AdapterInv, GrantsPermitted
<1>5. \/ UNCHANGED used
      \/ used' = used \cup {<<"tool", id>> : id \in tools}
      \/ used' = used \cup {<<"resource", id>> : id \in uris}
      \/ used' = used \cup {<<"prompt", id>> : id \in prompts}
  BY DEF ToolsList, ResourcesList, PromptsList, Use
<1>6. "tool" \in ItemKinds /\ "resource" \in ItemKinds /\ "prompt" \in ItemKinds
  BY DEF ItemKinds
<1> HIDE DEF tools, uris, prompts
<1>7. CASE used' = used \cup {<<"tool", id>> : id \in tools}
  BY <1>1, <1>4, <1>6, <1>7, TaskHandsOut
<1>8. CASE used' = used \cup {<<"resource", id>> : id \in uris}
  BY <1>1, <1>4, <1>6, <1>8, TaskHandsOut
<1>9. CASE used' = used \cup {<<"prompt", id>> : id \in prompts}
  BY <1>1, <1>4, <1>6, <1>9, TaskHandsOut
<1> QED BY <1>3, <1>5, <1>7, <1>8, <1>9

\* tools/call: the grant is looked at again when the call is executed.
LEMMA ToolCallsPreserve ==
    ASSUME AdapterInv, NEW t \in Tasks, ToolsCall(t) \/ RecordCall(t) \/ ExecuteCall(t)
    PROVE  AdapterInv'
<1>1. /\ ConfigSame /\ pc[t] # "idle" /\ pc[t] \notin Negotiating /\ pc[t] \in Inside
      /\ initialized_seen' = initialized_seen
  BY DEF ToolsCall, RecordCall, ExecuteCall, NoEffect, NoStateChange, ConfigSame, RegistrySame, setupVars,
     appVars, sessionVars, Negotiating, Inside, UriSteps, CallSteps, RequiresInitialized, ResourceMethods,
     ServerToClient
<1>2. serving
  BY <1>1, ServingWhenBusy
<1>3. CASE Refuse(t) /\ UNCHANGED used
  BY <1>1, <1>2, <1>3, TaskEnds DEF Refuse
<1>4. CASE GoOn(t, "record") /\ UNCHANGED used /\ ToolKnown(req[t].name)
  <2>1. "record" \in UriSteps \cup CallSteps /\ "record" \notin UriSteps
    BY DEF UriSteps, CallSteps
  <2> QED BY <1>1, <1>2, <1>4, <2>1, TaskGoesOn
<1>5. CASE GoOn(t, "execute") /\ UNCHANGED used /\ ToolKnown(req[t].name)
  <2>1. "execute" \in UriSteps \cup CallSteps /\ "execute" \notin UriSteps
    BY DEF UriSteps, CallSteps
  <2> QED BY <1>1, <1>2, <1>5, <2>1, TaskGoesOn
<1>6. CASE ExecuteCall(t) /\ Answer(t) /\ ToolKnown(req[t].name)
  <2>1. PICK id : id = ToolId(req[t])
    OBVIOUS
  <2>2. id \in Nat
    BY <1>6, <2>1 DEF ToolKnown, ToolId, AdapterInv, AdapterTypes
  <2>3. CASE HasTool(negotiated, id) /\ used' = used \cup {<<"tool", i>> : i \in {id}}
    <3>1. PICK ids : ids = {id}
      OBVIOUS
    <3>2. /\ ids \subseteq Nat /\ (\A i \in ids : Permitted("tool", i))
          /\ used' = used \cup {<<"tool", i>> : i \in ids}
      BY <2>2, <2>3, <3>1 DEF AdapterInv, GrantsPermitted
    <3>3. "tool" \in ItemKinds /\ Finish(t)
      BY <1>6 DEF ItemKinds, Answer
    <3> QED BY <1>1, <3>2, <3>3, TaskHandsOut
  <2>4. CASE UNCHANGED used
    BY <1>1, <1>2, <1>6, <2>4, TaskEnds DEF Answer
  <2> QED BY <1>6, <2>1, <2>3, <2>4 DEF ExecuteCall, Use
<1>7. ToolsCall(t) => (Refuse(t) \/ (GoOn(t, "record") /\ ToolKnown(req[t].name))) /\ UNCHANGED used
  BY DEF ToolsCall, Callable, ToolKnown, NoEffect
<1>8. RecordCall(t) \/ ExecuteCall(t) => ToolKnown(req[t].name)
  BY DEF RecordCall, ExecuteCall, AdapterInv, LifecycleKept, CallSteps
<1>9. RecordCall(t) => (Refuse(t) \/ GoOn(t, "execute")) /\ UNCHANGED used
  BY DEF RecordCall
<1>10. ExecuteCall(t) => Answer(t) \/ (Refuse(t) /\ UNCHANGED used)
  BY DEF ExecuteCall
<1> QED BY <1>3, <1>4, <1>5, <1>6, <1>7, <1>8, <1>9, <1>10

----------------------------------------------------------------------------
(* Resources: the handler of a uri is the first that matches *)

Matching(u) == {i \in DOMAIN resources : u \in Serves[resources[i]]}

\* ResourceRegistry: the handler found is the first that matches.
LEMMA HandlerIsFirst ==
    ASSUME AdapterTypes, NEW u, HandlerOf(u) # 0
    PROVE  /\ HandlerOf(u) \in Matching(u) /\ \A j \in Matching(u) : HandlerOf(u) <= j
           /\ HandlerOf(u) - 1 \in Nat
<1>1. DOMAIN resources = 1 .. Len(resources) /\ Matching(u) \subseteq Nat \ {0}
  BY LenProperties DEF AdapterTypes, Matching
<1>2. Matching(u) # {} /\ HandlerOf(u) = CHOOSE i \in Matching(u) : \A j \in Matching(u) : i <= j
  BY DEF HandlerOf, Matching
<1>3. \E i \in Matching(u) : \A j \in Matching(u) : i <= j
  BY <1>1, <1>2, LeastElement
<1>4. HandlerOf(u) \in Matching(u) /\ \A j \in Matching(u) : HandlerOf(u) <= j
  BY <1>2, <1>3
<1> QED BY <1>1, <1>4

\* A registration does not take a uri away from its handler.
LEMMA HandlerStays ==
    ASSUME AdapterTypes, NEW u, HandlerOf(u) # 0, NEW h \in HandlerPool,
           resources' = Append(resources, h)
    PROVE  HandlerOf(u)' = HandlerOf(u)
<1> DEFINE n == HandlerOf(u)
           new == {i \in DOMAIN resources' : u \in Serves[resources'[i]]}
<1>1. resources \in Seq(HandlerPool) /\ Len(resources) \in Nat
        /\ DOMAIN resources = 1 .. Len(resources)
  BY LenProperties DEF AdapterTypes
<1>2. /\ DOMAIN resources' = 1 .. Len(resources) + 1
      /\ \A i \in 1 .. Len(resources) : resources'[i] = resources[i]
  BY <1>1, AppendProperties, LenProperties
<1>3. n \in Matching(u) /\ \A j \in Matching(u) : n <= j
  BY HandlerIsFirst
<1>4. n \in new
  BY <1>1, <1>2, <1>3 DEF Matching
<1>5. ASSUME NEW j \in new PROVE n <= j
  <2>1. CASE j = Len(resources) + 1
    BY <2>1, <1>1, <1>3 DEF Matching
  <2>2. CASE j # Len(resources) + 1
    <3>1. j \in Matching(u)
      BY <2>2, <1>1, <1>2 DEF Matching
    <3> QED BY <3>1, <1>3
  <2> QED BY <2>1, <2>2
<1>6. n \in Nat /\ new \subseteq Nat
  BY <1>1, <1>2, <1>3 DEF Matching
<1>7. HandlerOf(u)' = CHOOSE i \in new : \A j \in new : i <= j
  BY <1>4 DEF HandlerOf
<1> HIDE DEF n, new
<1>8. (CHOOSE i \in new : \A j \in new : i <= j) = n
  BY <1>4, <1>5, <1>6, LeastIsChosen
<1> QED BY <1>7, <1>8 DEF n

\* What was granted for a uri is permitted.
LEMMA GrantedUri ==
    ASSUME AdapterInv, NEW u, UriGranted(u)
    PROVE  HandlerOf(u) - 1 \in Nat /\ Permitted("resource", HandlerOf(u) - 1)
<1>1. HandlerOf(u) - 1 \in Nat
  BY HandlerIsFirst DEF AdapterInv, UriGranted
<1> QED BY <1>1 DEF AdapterInv, GrantsPermitted, UriGranted

\* resources/read, subscribe and unsubscribe.
LEMMA ResourceStepsPreserve ==
    ASSUME AdapterInv, NEW t \in Tasks,
           ResourceCapability(t) \/ ResourceRoots(t) \/ ResourceApply(t)
    PROVE  AdapterInv'
<1>1. /\ ConfigSame /\ pc[t] # "idle" /\ pc[t] \notin Negotiating /\ pc[t] \in Inside
      /\ initialized_seen' = initialized_seen
  BY DEF ResourceCapability, ResourceRoots, ResourceApply, NoEffect, ConfigSame, RegistrySame, setupVars,
     appVars, sessionVars, Negotiating, Inside, UriSteps, CallSteps, RequiresInitialized, ResourceMethods,
     ServerToClient
<1>2. serving
  BY <1>1, ServingWhenBusy
<1>3. CASE Refuse(t) /\ UNCHANGED used
  BY <1>1, <1>2, <1>3, TaskEnds DEF Refuse
<1>4. CASE Answer(t) /\ UNCHANGED used
  BY <1>1, <1>2, <1>4, TaskEnds DEF Answer
<1>5. CASE ResourceCapability(t)
  <2>1. CASE GoOn(t, "roots") /\ UriGranted(req[t].name)
    <3>1. "roots" \in UriSteps \cup CallSteps /\ "roots" \notin CallSteps /\ used' = used
      BY <1>5 DEF UriSteps, CallSteps, ResourceCapability, NoEffect
    <3> QED BY <1>1, <1>2, <2>1, <3>1, TaskGoesOn
  <2> QED BY <1>3, <1>5, <2>1 DEF ResourceCapability, NoEffect
<1>6. CASE ResourceRoots(t)
  <2>1. CASE GoOn(t, "apply")
    <3>1. "apply" \in UriSteps \cup CallSteps /\ "apply" \notin CallSteps /\ used' = used
      BY <1>6 DEF UriSteps, CallSteps, ResourceRoots, NoEffect
    <3>2. UriGranted(req[t].name)
      BY <1>6 DEF ResourceRoots, AdapterInv, LifecycleKept, UriSteps
    <3> QED BY <1>1, <1>2, <2>1, <3>1, <3>2, TaskGoesOn
  <2> QED BY <1>3, <1>6, <2>1 DEF ResourceRoots, NoEffect
<1>7. CASE ResourceApply(t)
  <2>1. PICK id : id = HandlerOf(req[t].name) - 1
    OBVIOUS
  <2>2. UriGranted(req[t].name)
    BY <1>7 DEF ResourceApply, AdapterInv, LifecycleKept, UriSteps
  <2>3. id \in Nat /\ Permitted("resource", id)
    BY <2>1, <2>2, GrantedUri
  <2>4. CASE used' = used \cup {<<"resource", i>> : i \in {id}} /\ Answer(t)
    <3>1. PICK ids : ids = {id}
      OBVIOUS
    <3>2. /\ ids \subseteq Nat /\ (\A i \in ids : Permitted("resource", i))
          /\ used' = used \cup {<<"resource", i>> : i \in ids}
      BY <2>3, <2>4, <3>1
    <3>3. "resource" \in ItemKinds /\ Finish(t)
      BY <2>4 DEF ItemKinds, Answer
    <3> QED BY <1>1, <3>2, <3>3, TaskHandsOut
  <2>5. \/ used' = used \cup {<<"resource", i>> : i \in {id}} /\ Answer(t)
        \/ (Answer(t) \/ Refuse(t)) /\ UNCHANGED used
    BY <1>7, <2>1 DEF ResourceApply, Use
  <2> QED BY <1>3, <1>4, <2>4, <2>5
<1> QED BY <1>5, <1>6, <1>7

\* prompts/get.
LEMMA PromptsGetPreserves ==
    ASSUME AdapterInv, NEW t \in Tasks, PromptsGet(t)
    PROVE  AdapterInv'
<1>1. /\ ConfigSame /\ pc[t] # "idle" /\ pc[t] \notin Negotiating /\ pc[t] \in Inside
      /\ initialized_seen' = initialized_seen
  BY DEF PromptsGet, NoStateChange, ConfigSame, RegistrySame, setupVars, appVars, sessionVars, Negotiating,
     Inside, UriSteps, CallSteps, RequiresInitialized, ResourceMethods, ServerToClient
<1>2. serving
  BY <1>1, ServingWhenBusy
<1>3. CASE Refuse(t) /\ UNCHANGED used
  BY <1>1, <1>2, <1>3, TaskEnds DEF Refuse
<1>4. CASE PromptGranted(req[t].name) /\ Use("prompt", {prompt_ids[req[t].name] - 1}) /\ Answer(t)
  <2>1. PICK id : id = prompt_ids[req[t].name] - 1
    OBVIOUS
  <2>2. id \in Nat
    BY <1>4, <2>1 DEF PromptGranted, AdapterInv, AdapterTypes
  <2>3. PICK ids : ids = {id}
    OBVIOUS
  <2>4. /\ ids \subseteq Nat /\ (\A i \in ids : Permitted("prompt", i))
    BY <1>4, <2>1, <2>2, <2>3 DEF PromptGranted, AdapterInv, GrantsPermitted
  <2>5. "prompt" \in ItemKinds /\ Finish(t) /\ used' = used \cup {<<"prompt", i>> : i \in ids}
    BY <1>4, <2>1, <2>3 DEF ItemKinds, Answer, Use
  <2> QED BY <1>1, <2>4, <2>5, TaskHandsOut
<1> QED BY <1>3, <1>4 DEF PromptsGet

----------------------------------------------------------------------------
(* The negotiation *)

\* No one has been let in before an initialize is claimed.
LEMMA NothingBeforeClaim ==
    ASSUME AdapterInv, ~initialize_seen
    PROVE  /\ ~initialized_seen /\ used = {} /\ negotiated = NewManifest
           /\ \A t \in Tasks : pc[t] \notin Negotiating /\ pc[t] \notin Inside
                               /\ pc[t] \notin UriSteps /\ pc[t] \notin CallSteps
BY DEF AdapterInv, LifecycleKept, UsedKept, NegotiationHeld, Inside

\* The claim.
LEMMA ClaimPreserves ==
    ASSUME AdapterInv, NEW t \in Tasks, Initialize(t), ~initialize_seen, initialize_seen',
           GoOn(t, "version"), winner' = req[t],
           UNCHANGED <<protocol_version, negotiated, initialized_seen>>
    PROVE  AdapterInv'
<1>1. UNCHANGED <<serving, tool_cache, prompt_ids, resources, req, offer, used>>
  BY DEF Initialize, GoOn, setupVars, appVars
<1>2. pc' = [pc EXCEPT ![t] = "version"] /\ pc[t] = "initialize" /\ "version" \in AdapterPCs
  BY DEF GoOn, Initialize, AdapterPCs, Negotiating
<1>3. /\ ~initialized_seen /\ used = {} /\ negotiated = NewManifest
      /\ \A u \in Tasks : pc[u] \notin Negotiating /\ pc[u] \notin Inside
                          /\ pc[u] \notin UriSteps /\ pc[u] \notin CallSteps
  BY NothingBeforeClaim
<1>4. AdapterTypes'
  <2>1. initialize_seen' \in BOOLEAN
    BY DEF Initialize, Refuse, GoOn, sessionVars, AdapterInv, AdapterTypes
  <2> QED BY <1>1, <1>2, <2>1 DEF AdapterInv, AdapterTypes
<1>5. \A u \in Tasks : IF u = t THEN pc'[u] = "version" ELSE pc'[u] = pc[u]
  BY <1>2 DEF AdapterInv, AdapterTypes
<1>6. "version" \in Negotiating /\ "version" \notin Inside /\ "version" \notin UriSteps
        /\ "version" \notin CallSteps
  BY DEF Negotiating, Inside, UriSteps, CallSteps, RequiresInitialized, ResourceMethods,
     ServerToClient
<1>7. GrantsPermitted'
  <2>1. \A id \in Nat : ~HasTool(negotiated', id) /\ ~HasResource(negotiated', id)
                          /\ ~HasPrompt(negotiated', id)
    BY <1>3, NewManifestHasNothing
  <2> QED BY <2>1 DEF GrantsPermitted
<1>8. NegotiationHeld'
  BY <1>1, <1>3, <1>5 DEF NegotiationHeld, Negotiating
<1>9. NegotiationDone'
  BY <1>5, <1>6 DEF NegotiationDone
<1>10. LifecycleKept'
  BY <1>1, <1>3, <1>5, <1>6, ServingWhenBusy, <1>2 DEF LifecycleKept
<1>11. UsedKept'
  BY <1>1, <1>3 DEF UsedKept
<1> QED BY <1>4, <1>7, <1>8, <1>9, <1>10, <1>11 DEF AdapterInv

\* initialize.
LEMMA InitializePreserves ==
    ASSUME AdapterInv, NEW t \in Tasks, Initialize(t)
    PROVE  AdapterInv'
<1>1. CASE ~initialize_seen /\ initialize_seen' /\ GoOn(t, "version") /\ winner' = req[t]
             /\ UNCHANGED <<protocol_version, negotiated, initialized_seen>>
  BY <1>1, ClaimPreserves
<1>2. CASE Refuse(t) /\ UNCHANGED <<sessionVars, winner>>
  <2>1. ConfigSame /\ pc[t] # "idle" /\ pc[t] \notin Negotiating
          /\ initialized_seen' = initialized_seen /\ used' = used /\ Finish(t)
    BY <1>2 DEF Initialize, ConfigSame, RegistrySame, setupVars, appVars, sessionVars,
       Negotiating, Refuse
  <2> QED BY <2>1, TaskEnds, ServingWhenBusy
<1> QED BY <1>1, <1>2 DEF Initialize

\* The version and the offer: the task that negotiates moves on.
LEMMA NegotiatorMoves ==
    ASSUME AdapterInv, NEW t \in Tasks, pc[t] \in Negotiating, RegistrySame,
           UNCHANGED <<serving, negotiated, initialize_seen, initialized_seen, req, used>>,
           NEW l \in {"offer", "grant"}, NEW o \in Manifests,
           pc' = [pc EXCEPT ![t] = l], offer' = [offer EXCEPT ![t] = o],
           protocol_version' = req[t].name,
           l = "grant" => OfferFits(o)
    PROVE  AdapterInv'
<1>1. l \in AdapterPCs /\ l \in Negotiating /\ l \notin Inside /\ l \notin UriSteps
        /\ l \notin CallSteps /\ l # "idle"
  BY DEF AdapterPCs, Negotiating, Inside, UriSteps, CallSteps, RequiresInitialized,
     ResourceMethods, ServerToClient
<1>2. AdapterTypes'
  BY <1>1 DEF AdapterInv, AdapterTypes, RegistrySame
<1>3. \A u \in Tasks : IF u = t THEN pc'[u] = l /\ offer'[u] = o
                       ELSE pc'[u] = pc[u] /\ offer'[u] = offer[u]
  BY DEF AdapterInv, AdapterTypes
<1>4. \A u \in Tasks : u # t => pc[u] \notin Negotiating
  BY DEF AdapterInv, NegotiationHeld
<1>5. GrantsPermitted'
  BY RegistrySameKeeps DEF AdapterInv, GrantsPermitted
<1>6. NegotiationHeld'
  <2>1. \A u \in Tasks : pc'[u] \in Negotiating => u = t
    BY <1>3, <1>4
  <2>2. initialize_seen' /\ winner' = req'[t] /\ negotiated' = NewManifest
          /\ protocol_version' = req'[t].name
    BY DEF AdapterInv, NegotiationHeld, RegistrySame
  <2>3. pc'[t] = "grant" => OfferFits(offer[t])'
    <3>1. SUFFICES ASSUME pc'[t] = "grant" PROVE OfferFits(offer[t])'
      OBVIOUS
    <3>2. l = "grant" /\ offer'[t] = o
      BY <3>1, <1>3
    <3>3. OfferFits(o)'
      BY <3>2, RegistrySameKeeps
    <3> QED BY <3>2, <3>3
  <2> QED BY <2>1, <2>2, <2>3 DEF NegotiationHeld, Negotiating
<1>7. NegotiationDone'
  BY <1>1, <1>3 DEF NegotiationDone
<1>8. LifecycleKept'
  <2>1. serving
    BY ServingWhenBusy DEF Negotiating
  <2>2. ASSUME NEW u \in Tasks, pc'[u] \in UriSteps PROVE UriGranted(req[u].name)'
    <3>1. UriGranted(req[u].name)
      BY <2>2, <1>1, <1>3 DEF AdapterInv, LifecycleKept
    <3> QED BY <3>1, RegistrySameKeeps DEF UriGranted
  <2>3. ASSUME NEW u \in Tasks, pc'[u] \in CallSteps PROVE ToolKnown(req[u].name)'
    BY <2>3, <1>1, <1>3 DEF AdapterInv, LifecycleKept, ToolKnown, RegistrySame
  <2>4. \A u \in Tasks : pc'[u] \in Inside => initialized_seen'
    BY <1>1, <1>3 DEF AdapterInv, LifecycleKept
  <2> QED BY <2>1, <2>2, <2>3, <2>4 DEF AdapterInv, LifecycleKept
<1>9. UsedKept'
  BY RegistrySameKeeps DEF AdapterInv, UsedKept
<1> QED BY <1>2, <1>5, <1>6, <1>7, <1>8, <1>9 DEF AdapterInv

\* The server offers what is registered, cut down to the policy.
LEMMA ServerOfferFits ==
    ASSUME AdapterInv
    PROVE  ServerOffer \in Manifests /\ OfferFits(ServerOffer)
<1> DEFINE server == WithIds(ToolIds, ResourceIds, PromptIds)
           policy == WithIds(PolicyTools, PolicyResources, PolicyPrompts)
<1>1. server \in Manifests /\ policy \in Manifests /\ Intersect(server, policy) \in Manifests
  BY ManifestTypes
<1>2. ServerOffer = IF HasPolicy THEN Intersect(server, policy) ELSE server
  BY DEF ServerOffer
<1>3. ASSUME NEW id \in Nat
      PROVE  /\ HasTool(ServerOffer, id) <=>
                  id < MAX_TOOLS /\ id \in ToolIds /\ (HasPolicy => id \in PolicyTools)
             /\ HasResource(ServerOffer, id) =>
                  id \in ResourceIds /\ (HasPolicy => id \in PolicyResources)
             /\ HasPrompt(ServerOffer, id) =>
                  id \in PromptIds /\ (HasPolicy => id \in PolicyPrompts)
  <2>1. /\ HasTool(server, id) <=> id < MAX_TOOLS /\ id \in ToolIds
        /\ HasResource(server, id) <=> id < MAX_RESOURCES /\ id \in ResourceIds
        /\ HasPrompt(server, id) <=> id < MAX_PROMPTS /\ id \in PromptIds
    BY WithIdsHas
  <2>2. /\ HasTool(policy, id) <=> id < MAX_TOOLS /\ id \in PolicyTools
        /\ HasResource(policy, id) <=> id < MAX_RESOURCES /\ id \in PolicyResources
        /\ HasPrompt(policy, id) <=> id < MAX_PROMPTS /\ id \in PolicyPrompts
    BY WithIdsHas
  <2> HIDE DEF server, policy
  <2>3. /\ HasTool(Intersect(server, policy), id) <=> HasTool(server, id) /\ HasTool(policy, id)
        /\ HasResource(Intersect(server, policy), id)
             <=> HasResource(server, id) /\ HasResource(policy, id)
        /\ HasPrompt(Intersect(server, policy), id)
             <=> HasPrompt(server, id) /\ HasPrompt(policy, id)
    BY <1>1, IntersectHas
  <2>4. CASE HasPolicy
    <3>1. ServerOffer = Intersect(server, policy)
      BY <1>2, <2>4
    <3> QED BY <2>1, <2>2, <2>3, <2>4, <3>1
  <2>5. CASE ~HasPolicy
    <3>1. ServerOffer = server
      BY <1>2, <2>5
    <3> QED BY <2>1, <2>5, <3>1
  <2> QED BY <2>4, <2>5
<1> HIDE DEF server, policy
<1>4. ServerOffer \in Manifests
  BY <1>1, <1>2
<1>5. OfferFits(ServerOffer)
  BY <1>3 DEF OfferFits
<1> QED BY <1>4, <1>5

\* initialize: the version and the offer.
LEMMA VersionAndOfferPreserve ==
    ASSUME AdapterInv, NEW t \in Tasks, InitializeVersion(t) \/ InitializeOffer(t)
    PROVE  AdapterInv'
<1>1. offer[t] \in Manifests /\ offer = [offer EXCEPT ![t] = offer[t]]
  BY DEF AdapterInv, AdapterTypes
<1>2. CASE InitializeVersion(t)
  <2>1. /\ pc[t] \in Negotiating /\ RegistrySame /\ pc' = [pc EXCEPT ![t] = "offer"]
        /\ UNCHANGED <<serving, negotiated, initialize_seen, initialized_seen, req, used>>
        /\ offer' = offer /\ protocol_version' = req[t].name
    BY <1>2 DEF InitializeVersion, Negotiating, RegistrySame, setupVars, appVars, GoOn
  <2> QED BY <1>1, <2>1, NegotiatorMoves
<1>3. CASE InitializeOffer(t)
  <2>1. /\ pc[t] \in Negotiating /\ RegistrySame /\ pc' = [pc EXCEPT ![t] = "grant"]
        /\ UNCHANGED <<serving, negotiated, initialize_seen, initialized_seen, req, used>>
        /\ offer' = [offer EXCEPT ![t] = ServerOffer]
    BY <1>3 DEF InitializeOffer, Negotiating, RegistrySame, setupVars, appVars, sessionVars, NoEffect
  <2>2. protocol_version' = req[t].name
    BY <1>3 DEF InitializeOffer, NoEffect, sessionVars, AdapterInv, NegotiationHeld
  <2>3. PICK o : o = ServerOffer
    OBVIOUS
  <2>4. o \in Manifests /\ OfferFits(o)
    BY <2>3, ServerOfferFits
  <2> QED BY <2>1, <2>2, <2>3, <2>4, NegotiatorMoves
<1> QED BY <1>2, <1>3

\* The grant: the client's wishes within the offer.
LEMMA GrantPreserves ==
    ASSUME AdapterInv, NEW t \in Tasks, InitializeGrant(t)
    PROVE  AdapterInv'
<1>1. /\ pc[t] = "grant" /\ RegistrySame
      /\ UNCHANGED <<serving, protocol_version, initialize_seen, initialized_seen, used>>
      /\ pc' = [pc EXCEPT ![t] = "idle"] /\ req' = [req EXCEPT ![t] = NoRequest]
      /\ offer' = [offer EXCEPT ![t] = NewManifest]
  BY DEF InitializeGrant, RegistrySame, setupVars, appVars, Answer, Finish
<1>2. PICK o : o = offer[t]
  OBVIOUS
<1>3. PICK wish : wish = ClientManifest(req[t])
  OBVIOUS
<1>4. /\ o \in Manifests /\ OfferFits(o) /\ winner = req[t] /\ initialize_seen
      /\ protocol_version = req[t].name /\ negotiated = NewManifest
  BY <1>1, <1>2 DEF AdapterInv, AdapterTypes, NegotiationHeld, Negotiating
<1>5. wish \in Manifests /\ negotiated' = Intersect(wish, o) /\ negotiated' \in Manifests
  BY <1>2, <1>3, <1>4, ManifestTypes DEF InitializeGrant, ClientManifest
<1>6. AdapterTypes'
  <2>1. NoRequest \in Requests /\ "idle" \in AdapterPCs /\ NewManifest \in Manifests
    BY ManifestTypes DEF Requests, AdapterPCs
  <2> QED BY <1>1, <1>5, <2>1 DEF AdapterInv, AdapterTypes, RegistrySame
<1>7. ASSUME NEW id \in Nat
      PROVE  /\ HasTool(negotiated', id) <=> id < MAX_TOOLS /\ Permitted("tool", id)
             /\ HasResource(negotiated', id) => Permitted("resource", id)
             /\ HasPrompt(negotiated', id) => Permitted("prompt", id)
  <2>1. /\ HasTool(wish, id) <=> id < MAX_TOOLS /\ id \in winner.tools
        /\ HasResource(wish, id) <=> id < MAX_RESOURCES /\ id \in winner.resources
        /\ HasPrompt(wish, id) <=> id < MAX_PROMPTS /\ id \in winner.prompts
    BY <1>3, <1>4, WithIdsHas DEF ClientManifest
  <2>2. /\ HasTool(negotiated', id) <=> HasTool(wish, id) /\ HasTool(o, id)
        /\ HasResource(negotiated', id) <=> HasResource(wish, id) /\ HasResource(o, id)
        /\ HasPrompt(negotiated', id) <=> HasPrompt(wish, id) /\ HasPrompt(o, id)
    BY <1>4, <1>5, IntersectHas
  <2>3. /\ Permitted("tool", id) <=>
             id \in winner.tools /\ id \in ToolIds /\ (HasPolicy => id \in PolicyTools)
        /\ Permitted("resource", id) <=>
             id \in winner.resources /\ id \in ResourceIds /\ (HasPolicy => id \in PolicyResources)
        /\ Permitted("prompt", id) <=>
             id \in winner.prompts /\ id \in PromptIds /\ (HasPolicy => id \in PolicyPrompts)
    BY DEF Permitted
  <2>4. /\ HasTool(o, id) <=>
             id < MAX_TOOLS /\ id \in ToolIds /\ (HasPolicy => id \in PolicyTools)
        /\ HasResource(o, id) => id \in ResourceIds /\ (HasPolicy => id \in PolicyResources)
        /\ HasPrompt(o, id) => id \in PromptIds /\ (HasPolicy => id \in PolicyPrompts)
    BY <1>4 DEF OfferFits
  <2> QED BY <2>1, <2>2, <2>3, <2>4
<1>8. GrantsPermitted'
  BY <1>1, <1>7, RegistrySameKeeps DEF GrantsPermitted
<1>9. \A u \in Tasks : IF u = t THEN pc'[u] = "idle"
                       ELSE /\ pc'[u] = pc[u] /\ req'[u] = req[u] /\ offer'[u] = offer[u]
                            /\ pc[u] \notin Negotiating
  BY <1>1 DEF AdapterInv, AdapterTypes, NegotiationHeld, Negotiating
<1>10. "idle" \notin Negotiating /\ "idle" \notin Inside /\ "idle" \notin UriSteps
         /\ "idle" \notin CallSteps
  BY DEF Negotiating, Inside, UriSteps, CallSteps, RequiresInitialized, ResourceMethods,
     ServerToClient
<1>11. NegotiationHeld'
  BY <1>1, <1>4, <1>9, <1>10 DEF NegotiationHeld, Negotiating
<1>12. NegotiationDone'
  <2>1. protocol_version' = winner'.name
    BY <1>1, <1>4 DEF RegistrySame
  <2>2. ASSUME NEW id \in Nat, id < MAX_TOOLS
        PROVE  HasTool(negotiated', id) <=> Permitted("tool", id)'
    BY <1>1, <1>7, <2>2, RegistrySameKeeps
  <2> QED BY <2>1, <2>2 DEF NegotiationDone
<1>13. LifecycleKept'
  <2>1. serving
    BY <1>1, ServingWhenBusy
  <2>2. ASSUME NEW u \in Tasks PROVE pc[u] \notin UriSteps
    <3>1. SUFFICES ASSUME pc[u] \in UriSteps PROVE FALSE
      OBVIOUS
    <3>2. UriGranted(req[u].name)
      BY <3>1 DEF AdapterInv, LifecycleKept
    <3>3. HandlerOf(req[u].name) - 1 \in Nat
      BY <3>2, GrantedUri
    <3> QED BY <1>4, <3>2, <3>3, NewManifestHasNothing DEF UriGranted
  <2>3. ASSUME NEW u \in Tasks, pc'[u] \in CallSteps PROVE ToolKnown(req[u].name)'
    BY <2>3, <1>1, <1>9, <1>10 DEF AdapterInv, LifecycleKept, ToolKnown, RegistrySame
  <2>4. \A u \in Tasks : pc'[u] \notin UriSteps /\ (pc'[u] \in Inside => initialized_seen')
    BY <1>1, <1>9, <1>10, <2>2 DEF AdapterInv, LifecycleKept
  <2>5. initialized_seen' => initialize_seen'
    BY <1>1 DEF AdapterInv, LifecycleKept
  <2> QED BY <1>1, <2>1, <2>3, <2>4, <2>5 DEF LifecycleKept
<1>14. UsedKept'
  BY <1>1, RegistrySameKeeps DEF AdapterInv, UsedKept
<1> QED BY <1>6, <1>8, <1>11, <1>12, <1>13, <1>14 DEF AdapterInv

\* notifications/initialized.
LEMMA InitializedPreserves ==
    ASSUME AdapterInv, NEW t \in Tasks, Initialized(t)
    PROVE  AdapterInv'
<1>1. /\ ConfigSame /\ pc[t] # "idle" /\ pc[t] \notin Negotiating /\ used' = used /\ Finish(t)
      /\ (initialized_seen' = initialized_seen \/ (initialize_seen /\ initialized_seen' = TRUE))
  BY DEF Initialized, ConfigSame, RegistrySame, setupVars, appVars, sessionVars, Negotiating,
     Answer, Refuse
<1>2. serving
  BY <1>1, ServingWhenBusy
<1>3. "idle" \in AdapterPCs /\ "idle" \notin Negotiating /\ "idle" \notin Inside
        /\ "idle" \notin UriSteps /\ "idle" \notin CallSteps
  BY DEF AdapterPCs, Negotiating, Inside, UriSteps, CallSteps, RequiresInitialized,
     ResourceMethods, ServerToClient
<1>4. NoRequest \in Requests /\ NewManifest \in Manifests
  BY ManifestTypes DEF Requests
<1>5. initialized_seen' \in BOOLEAN /\ (initialized_seen' => initialize_seen)
        /\ (initialized_seen => initialized_seen')
  <2>1. initialized_seen \in BOOLEAN /\ (initialized_seen => initialize_seen)
    BY DEF AdapterInv, AdapterTypes, LifecycleKept
  <2>2. CASE initialized_seen' = initialized_seen
    BY <2>1, <2>2
  <2>3. CASE initialize_seen /\ initialized_seen' = TRUE
    BY <2>3
  <2> QED BY <1>1, <2>2, <2>3
<1>6. used' \subseteq ItemKinds \X Nat /\ (used' # {} => initialized_seen')
        /\ \A u \in used' : u \in used \/ Permitted(u[1], u[2])
  BY <1>1, <1>5 DEF AdapterInv, UsedKept
<1>7. pc' = [pc EXCEPT ![t] = "idle"] /\ req' = [req EXCEPT ![t] = NoRequest]
        /\ offer' = [offer EXCEPT ![t] = NewManifest]
  BY <1>1 DEF Finish
<1> QED BY <1>1, <1>2, <1>3, <1>4, <1>5, <1>6, <1>7, TaskMoves

----------------------------------------------------------------------------
(* The application *)

\* A step of the application: once the adapter serves, tools and prompts are
\* fixed, resources are only added, and no uri changes its handler.
LEMMA ApplicationMoves ==
    ASSUME AdapterInv, AdapterTypes',
           UNCHANGED <<protocol_version, negotiated, initialize_seen, initialized_seen,
                       pc, req, offer, winner, used>>,
           serving => serving' /\ UNCHANGED <<tool_cache, prompt_ids>>,
           ResourceIds \subseteq ResourceIds',
           \A u : HandlerOf(u) # 0 => HandlerOf(u)' = HandlerOf(u)
    PROVE  AdapterInv'
<1>1. CASE ~serving
  <2>1. ~initialize_seen /\ \A t \in Tasks : pc[t] = "idle"
    BY <1>1 DEF AdapterInv, LifecycleKept
  <2>2. ~initialized_seen /\ used = {} /\ negotiated = NewManifest
    BY <2>1, NothingBeforeClaim
  <2>3. "idle" \notin Negotiating /\ "idle" \notin Inside /\ "idle" \notin UriSteps
          /\ "idle" \notin CallSteps
    BY DEF Negotiating, Inside, UriSteps, CallSteps, RequiresInitialized, ResourceMethods,
       ServerToClient
  <2>4. GrantsPermitted'
    <3>1. \A id \in Nat : ~HasTool(negotiated', id) /\ ~HasResource(negotiated', id)
                            /\ ~HasPrompt(negotiated', id)
      BY <2>2, NewManifestHasNothing
    <3> QED BY <3>1 DEF GrantsPermitted
  <2>5. NegotiationHeld'
    BY <2>1, <2>2, <2>3 DEF NegotiationHeld, Negotiating
  <2>6. NegotiationDone'
    BY <2>1 DEF NegotiationDone
  <2>7. LifecycleKept'
    BY <2>1, <2>2, <2>3 DEF LifecycleKept
  <2>8. UsedKept'
    BY <2>2 DEF UsedKept
  <2> QED BY <2>4, <2>5, <2>6, <2>7, <2>8 DEF AdapterInv
<1>2. CASE serving
  <2>1. ToolIds' = ToolIds /\ PromptIds' = PromptIds
    BY <1>2 DEF ToolIds, PromptIds
  <2>2. /\ \A id : Permitted("tool", id)' <=> Permitted("tool", id)
        /\ \A k \in ItemKinds : \A id : Permitted(k, id) => Permitted(k, id)'
    BY <2>1 DEF Permitted, ItemKinds
  <2>3. \A o : OfferFits(o) => OfferFits(o)'
    BY <2>1 DEF OfferFits
  <2>4. GrantsPermitted'
    BY <2>2 DEF AdapterInv, GrantsPermitted, ItemKinds
  <2>5. NegotiationHeld'
    <3>1. ASSUME NEW t \in Tasks, pc[t] = "grant" PROVE OfferFits(offer[t])'
      <4>1. PICK o : o = offer[t]
        OBVIOUS
      <4>2. OfferFits(o)
        BY <3>1, <4>1 DEF AdapterInv, NegotiationHeld
      <4>3. OfferFits(o)' /\ offer'[t] = o
        BY <2>3, <4>1, <4>2
      <4> QED BY <4>3
    <3> QED BY <3>1 DEF AdapterInv, NegotiationHeld
  <2>6. NegotiationDone'
    BY <2>2 DEF AdapterInv, NegotiationDone
  <2>7. LifecycleKept'
    <3>1. ASSUME NEW t \in Tasks, pc[t] \in UriSteps PROVE UriGranted(req[t].name)'
      <4>1. PICK u : u = req[t].name
        OBVIOUS
      <4>2. UriGranted(u)
        BY <3>1, <4>1 DEF AdapterInv, LifecycleKept
      <4>3. UriGranted(u)' /\ req'[t].name = u
        BY <4>1, <4>2 DEF UriGranted
      <4> QED BY <4>3
    <3>2. ASSUME NEW t \in Tasks, pc[t] \in CallSteps PROVE ToolKnown(req[t].name)'
      BY <1>2, <3>2 DEF AdapterInv, LifecycleKept, ToolKnown
    <3> QED BY <1>2, <3>1, <3>2 DEF AdapterInv, LifecycleKept
  <2>8. UsedKept'
    <3>1. ASSUME NEW u \in used PROVE Permitted(u[1], u[2])'
      <4>1. PICK k \in ItemKinds, id \in Nat : u = <<k, id>>
        BY <3>1 DEF AdapterInv, UsedKept
      <4>2. Permitted(k, id)
        BY <3>1, <4>1 DEF AdapterInv, UsedKept
      <4>3. Permitted(k, id)'
        BY <2>2, <4>2
      <4> QED BY <4>1, <4>3
    <3> QED BY <3>1 DEF AdapterInv, UsedKept
  <2> QED BY <2>4, <2>5, <2>6, <2>7, <2>8 DEF AdapterInv
<1> QED BY <1>1, <1>2

\* Registrations of tools and prompts, and the end of the set-up.
LEMMA SetUpPreserves ==
    ASSUME AdapterInv,
           \/ \E n \in ToolNames, id \in 0 .. MAX_TOOLS : RegisterTool(n, id)
           \/ \E n \in PromptNames : RegisterPrompt(n)
           \/ Serve
    PROVE  AdapterInv'
<1>1. /\ ~serving /\ serving' \in BOOLEAN /\ resources' = resources
      /\ UNCHANGED <<protocol_version, negotiated, initialize_seen, initialized_seen,
                     pc, req, offer, winner, used>>
  BY DEF RegisterTool, RegisterPrompt, Serve, Application, appVars, sessionVars, setupVars, vars,
     AdapterInv, AdapterTypes
<1>2. tool_cache' \in [ToolNames -> Nat]
  <2>1. CASE \E n \in ToolNames, id \in 0 .. MAX_TOOLS : RegisterTool(n, id)
    BY <2>1 DEF RegisterTool, AdapterInv, AdapterTypes
  <2>2. CASE ~ \E n \in ToolNames, id \in 0 .. MAX_TOOLS : RegisterTool(n, id)
    BY <2>2 DEF RegisterPrompt, Serve, setupVars, vars, AdapterInv, AdapterTypes
  <2> QED BY <2>1, <2>2
<1>3. prompt_ids' \in [PromptNames -> Nat] /\ IsFiniteSet({n \in PromptNames : prompt_ids'[n] # 0})
  <2> DEFINE named == {n \in PromptNames : prompt_ids[n] # 0}
  <2>1. CASE prompt_ids' # prompt_ids
    <3>1. PICK n \in PromptNames : RegisterPrompt(n)
      BY <2>1 DEF RegisterTool, Serve
    <3>2. IsFiniteSet(named) /\ prompt_ids \in [PromptNames -> Nat]
      BY DEF AdapterInv, AdapterTypes
    <3>3. PICK count : count = Cardinality(named) /\ count \in Nat
      BY <3>2, FS_CardinalityType
    <3>4. prompt_ids' = [prompt_ids EXCEPT ![n] = count + 1]
      BY <2>1, <3>1, <3>3 DEF RegisterPrompt, setupVars, vars
    <3>5. prompt_ids' \in [PromptNames -> Nat]
      BY <3>2, <3>3, <3>4
    <3>6. {m \in PromptNames : prompt_ids'[m] # 0} = named \cup {n}
      BY <3>2, <3>3, <3>4
    <3>7. IsFiniteSet(named \cup {n})
      BY <3>2, FS_AddElement
    <3> QED BY <3>5, <3>6, <3>7
  <2>2. CASE prompt_ids' = prompt_ids
    BY <2>2 DEF AdapterInv, AdapterTypes
  <2> QED BY <2>1, <2>2
<1>4. AdapterTypes'
  BY <1>1, <1>2, <1>3 DEF AdapterInv, AdapterTypes
<1>5. ResourceIds' = ResourceIds /\ \A u : HandlerOf(u)' = HandlerOf(u)
  BY <1>1 DEF ResourceIds, HandlerOf
<1> QED BY <1>1, <1>4, <1>5, ApplicationMoves

\* ResourceRegistry::register, where it takes the handler, beside running
\* requests.
LEMMA RegisterResourcePreserves ==
    ASSUME AdapterInv, NEW h \in HandlerPool, RegisterResource(h), ~ UNCHANGED vars
    PROVE  AdapterInv'
<1>1. /\ resources' = Append(resources, h)
      /\ UNCHANGED <<serving, tool_cache, prompt_ids, protocol_version, negotiated,
                     initialize_seen, initialized_seen, pc, req, offer, winner, used>>
  BY DEF RegisterResource, Application, setupVars, sessionVars
<1>2. AdapterTypes
  BY DEF AdapterInv
<1>3. resources \in Seq(HandlerPool) /\ resources' \in Seq(HandlerPool)
        /\ Len(resources') = Len(resources) + 1
  BY <1>1, <1>2, AppendProperties DEF AdapterTypes
<1>4. AdapterTypes'
  BY <1>1, <1>2, <1>3 DEF AdapterTypes
<1>5. DOMAIN resources = 1 .. Len(resources) /\ DOMAIN resources' = 1 .. Len(resources')
        /\ Len(resources) \in Nat
  BY <1>3, LenProperties
<1>6. ResourceIds \subseteq ResourceIds'
  BY <1>3, <1>5 DEF ResourceIds
<1>7. \A u : HandlerOf(u) # 0 => HandlerOf(u)' = HandlerOf(u)
  BY <1>1, <1>2, HandlerStays
<1> QED BY <1>1, <1>4, <1>6, <1>7, ApplicationMoves

\* Roots and tokens, and a step that changes nothing.
LEMMA OtherStepsPreserve ==
    ASSUME AdapterInv, ChangeRoots \/ (\E k \in Keys : ChangeToken(k)) \/ UNCHANGED vars
    PROVE  AdapterInv'
<1>1. UNCHANGED <<serving, tool_cache, prompt_ids, resources, protocol_version, negotiated,
                  initialize_seen, initialized_seen, pc, req, offer, winner, used>>
  BY DEF ChangeRoots, ChangeToken, Application, setupVars, appVars, sessionVars, vars
<1>2. AdapterTypes'
  BY <1>1 DEF AdapterInv, AdapterTypes
<1>3. ResourceIds' = ResourceIds /\ \A u : HandlerOf(u)' = HandlerOf(u)
  BY <1>1 DEF ResourceIds, HandlerOf
<1> QED BY <1>1, <1>2, <1>3, ApplicationMoves

----------------------------------------------------------------------------
(* The theorems *)

\* The inductive invariant of the negotiation, the lifecycle and what is
\* handed out, for any interleaving of requests and application steps.
THEOREM AdapterInvariant == Spec => []AdapterInv
<1>1. Init => AdapterInv
  <2> SUFFICES ASSUME Init PROVE AdapterInv
    OBVIOUS
  <2> USE DEF Init
  <2>1. AdapterTypes
    <3>1. {n \in PromptNames : prompt_ids[n] # 0} = {} /\ IsFiniteSet({})
      BY FS_EmptySet
    <3>2. resources \in Seq(HandlerPool)
      BY EmptySeq
    <3>3. "idle" \in AdapterPCs /\ NoRequest \in Requests /\ NewManifest \in Manifests
      BY ManifestTypes DEF AdapterPCs, Requests
    <3>4. tool_cache \in [ToolNames -> Nat] /\ prompt_ids \in [PromptNames -> Nat]
      OBVIOUS
    <3>5. pc \in [Tasks -> AdapterPCs] /\ req \in [Tasks -> Requests]
            /\ offer \in [Tasks -> Manifests] /\ negotiated \in Manifests
      BY <3>3
    <3> QED BY <3>1, <3>2, <3>4, <3>5 DEF AdapterTypes
  <2>2. GrantsPermitted
    <3>1. \A id \in Nat : ~HasTool(negotiated, id) /\ ~HasResource(negotiated, id)
                            /\ ~HasPrompt(negotiated, id)
      BY NewManifestHasNothing
    <3> QED BY <3>1 DEF GrantsPermitted
  <2>3. \A t \in Tasks : pc[t] = "idle"
    OBVIOUS
  <2>4. "idle" \notin Negotiating /\ "idle" \notin Inside /\ "idle" \notin UriSteps
          /\ "idle" \notin CallSteps
    BY DEF Negotiating, Inside, UriSteps, CallSteps, RequiresInitialized, ResourceMethods,
       ServerToClient
  <2>5. NegotiationHeld
    BY <2>3, <2>4 DEF NegotiationHeld, Negotiating
  <2>6. NegotiationDone
    BY DEF NegotiationDone
  <2>7. LifecycleKept
    BY <2>3, <2>4 DEF LifecycleKept
  <2>8. UsedKept
    BY DEF UsedKept
  <2> QED BY <2>1, <2>2, <2>5, <2>6, <2>7, <2>8 DEF AdapterInv
<1>2. AdapterInv /\ [Next]_vars => AdapterInv'
  <2> SUFFICES ASSUME AdapterInv, [Next]_vars PROVE AdapterInv'
    OBVIOUS
  <2>1. CASE \E t \in Tasks : TaskStep(t)
    <3>1. PICK t \in Tasks : TaskStep(t)
      BY <2>1
    <3>2. CASE \E m \in Messages : HandleRequest(t, m)
      BY <3>2, HandleRequestPreserves
    <3>3. CASE Initialize(t) \/ InitializeVersion(t) \/ InitializeOffer(t) \/ InitializeGrant(t)
                 \/ Initialized(t)
      BY <3>3, InitializePreserves, VersionAndOfferPreserve, GrantPreserves, InitializedPreserves
    <3>4. CASE Ping(t) \/ Cancelled(t) \/ SetLevel(t) \/ Complete(t)
      BY <3>4, QuietHandlersPreserve
    <3>5. CASE ToolsList(t) \/ ResourcesList(t) \/ PromptsList(t)
      BY <3>5, ListingsPreserve
    <3>6. CASE ToolsCall(t) \/ RecordCall(t) \/ ExecuteCall(t)
      BY <3>6, ToolCallsPreserve
    <3>7. CASE ResourceCapability(t) \/ ResourceRoots(t) \/ ResourceApply(t)
      BY <3>7, ResourceStepsPreserve
    <3>8. CASE PromptsGet(t)
      BY <3>8, PromptsGetPreserves
    <3> QED BY <3>1, <3>2, <3>3, <3>4, <3>5, <3>6, <3>7, <3>8 DEF TaskStep
  <2>2. CASE \/ \E n \in ToolNames, id \in 0 .. MAX_TOOLS : RegisterTool(n, id)
             \/ \E n \in PromptNames : RegisterPrompt(n)
             \/ Serve
    BY <2>2, SetUpPreserves
  <2>3. CASE (\E h \in HandlerPool : RegisterResource(h)) /\ ~ UNCHANGED vars
    BY <2>3, RegisterResourcePreserves
  <2>4. CASE ChangeRoots \/ (\E k \in Keys : ChangeToken(k)) \/ UNCHANGED vars
    BY <2>4, OtherStepsPreserve
  <2> QED BY <2>1, <2>2, <2>3, <2>4 DEF Next
<1> QED BY <1>1, <1>2, PTL DEF Spec

\* Whatever a handler hands out was asked for by the client whose initialize
\* won, is registered, and is within the policy, and none of it leaves the
\* adapter before initialize and initialized: for any number of tasks.
THEOREM OnlyGrantedEver == Spec => []OnlyGranted
<1>1. AdapterInv => OnlyGranted
  BY DEF AdapterInv, UsedKept, LifecycleKept, OnlyGranted
<1> QED BY <1>1, AdapterInvariant, PTL

\* However many initialize requests run at once, one negotiates, and the
\* version and the tools in force are both the ones of that request.
THEOREM OneNegotiationEver == Spec => []OneNegotiation
<1>1. AdapterInv => OneNegotiation
  <2> SUFFICES ASSUME AdapterInv PROVE OneNegotiation
    OBVIOUS
  <2>1. \A t, u \in Tasks : pc[t] \in Negotiating /\ pc[u] \in Negotiating => t = u
    BY DEF AdapterInv, NegotiationHeld
  <2>2. ASSUME initialize_seen, \A t \in Tasks : pc[t] \notin Negotiating
        PROVE  /\ protocol_version = winner.name
               /\ \A id \in 0 .. MAX_TOOLS - 1 : HasTool(negotiated, id) <=> Permitted("tool", id)
    <3>1. \A id \in 0 .. MAX_TOOLS - 1 : id \in Nat /\ id < MAX_TOOLS
      BY ManifestAssumption DEF MAX_TOOLS
    <3> QED BY <2>2, <3>1 DEF AdapterInv, NegotiationDone
  <2> QED BY <2>1, <2>2 DEF OneNegotiation, Negotiating
<1> QED BY <1>1, AdapterInvariant, PTL

-----------------------------------------------------------------------------
(* Delta: decompression *)

\* result[k] is what the first k pairs stand for.
Expands(patch, p, result) ==
    /\ result \in [0 .. p -> Seq(Nat)]
    /\ \A k \in 0 .. p : result[k] = IF k = 0 THEN <<>> ELSE result[k - 1] \o Run(patch[2 * k - 1], patch[2 * k])

\* rle_decompress: its result is the last of the prefixes that expand pair by pair.
LEMMA DecompressIs ==
    ASSUME NEW patch, NEW p \in Nat, Len(patch) \div 2 = p, NEW result, Expands(patch, p, result)
    PROVE  RleDecompress(patch) = result[p]
<1> DEFINE Body(f) == [k \in 0 .. p |-> IF k = 0 THEN <<>> ELSE f[k - 1] \o Run(patch[2 * k - 1], patch[2 * k])]
           chosen == CHOOSE f : f = Body(f)
<1>1. result = Body(result)
  <2>1. result \in [0 .. p -> Seq(Nat)]
    BY Zenon DEF Expands
  <2>2. \A k \in 0 .. p : result[k] = IF k = 0 THEN <<>> ELSE result[k - 1] \o Run(patch[2 * k - 1], patch[2 * k])
    BY Zenon DEF Expands
  <2> QED BY <2>1, <2>2
<1>2. chosen = Body(chosen)
  BY <1>1, Zenon
<1>3. RleDecompress(patch) = chosen[p]
  BY Zenon DEF RleDecompress
<1>4. PICK f : f = chosen
  OBVIOUS
<1>5. f = Body(f)
  BY <1>2, <1>4, Zenon
<1>6. \A k \in 0 .. p : f[k] = IF k = 0 THEN <<>> ELSE f[k - 1] \o Run(patch[2 * k - 1], patch[2 * k])
  BY <1>5
<1> HIDE DEF chosen, Body
<1>7. \A k \in 0 .. p : result[k] = IF k = 0 THEN <<>> ELSE result[k - 1] \o Run(patch[2 * k - 1], patch[2 * k])
  BY Zenon DEF Expands
<1>8. PICK G : G = {k \in 0 .. p : f[k] = result[k]}
  OBVIOUS
<1>9. 0 \in G
  BY <1>6, <1>7, <1>8
<1>10. ASSUME NEW m \in 1 .. p, m - 1 \in G PROVE m \in G
  <2>1. m \in 0 .. p /\ m # 0
    OBVIOUS
  <2>2. f[m - 1] = result[m - 1]
    BY <1>8, <1>10
  <2>3. f[m] = f[m - 1] \o Run(patch[2 * m - 1], patch[2 * m])
    BY <1>6, <2>1
  <2>4. result[m] = result[m - 1] \o Run(patch[2 * m - 1], patch[2 * m])
    BY <1>7, <2>1
  <2>5. f[m] = result[m]
    BY <2>2, <2>3, <2>4, Zenon
  <2> QED BY <1>8, <2>1, <2>5
<1>11. p \in G
  <2>1. \A m \in 0 .. p : m \in G
    BY <1>9, <1>10, SetInduction
  <2> QED BY <2>1
<1> QED BY <1>3, <1>4, <1>8, <1>11

\* A run is a sequence of one value.
LEMMA RunIsSeq ==
    ASSUME NEW c \in Nat, NEW v \in Nat
    PROVE  Run(c, v) \in Seq(Nat) /\ Len(Run(c, v)) = c /\ \A i \in 1 .. c : Run(c, v)[i] = v
BY DEF Run

\* The pairs of patch stand for data.
StandsFor(patch, data) ==
    /\ patch \in Seq(Nat)
    /\ \E p \in Nat : \E result : Len(patch) = 2 * p /\ Expands(patch, p, result) /\ result[p] = data

\* rle_decompress: a patch whose pairs stand for some data becomes that data.
LEMMA Decompressed ==
    ASSUME NEW patch, NEW data, StandsFor(patch, data)
    PROVE  RleDecompress(patch) = data
<1>p. PICK p \in Nat : \E result : Len(patch) = 2 * p /\ Expands(patch, p, result) /\ result[p] = data
  BY Zenon DEF StandsFor
<1>1. PICK result : Len(patch) = 2 * p /\ Expands(patch, p, result) /\ result[p] = data
  BY <1>p
<1>2. Len(patch) \div 2 = p
  <2>1. (2 * p) \div 2 = p
    OBVIOUS
  <2> QED BY <1>1, <2>1, Zenon
<1> QED BY <1>1, <1>2, DecompressIs

\* A pair more.
LEMMA PairStandsFor ==
    ASSUME NEW patch, NEW data, StandsFor(patch, data), NEW c \in Nat, NEW v \in Nat
    PROVE  StandsFor(patch \o <<c, v>>, data \o Run(c, v))
<1>p. PICK p \in Nat : \E result : Len(patch) = 2 * p /\ Expands(patch, p, result) /\ result[p] = data
  BY Zenon DEF StandsFor
<1>0. PICK result : Len(patch) = 2 * p /\ Expands(patch, p, result) /\ result[p] = data
  BY <1>p
<1> patch \in Seq(Nat)
  BY Zenon DEF StandsFor
<1>1. PICK w : w = patch \o <<c, v>>
  OBVIOUS
<1>2. /\ w \in Seq(Nat) /\ Len(w) = 2 * p + 2 /\ w[2 * p + 1] = c /\ w[2 * p + 2] = v
      /\ \A i \in 1 .. 2 * p : w[i] = patch[i]
  <2>1. PICK pair : pair = <<c, v>>
    OBVIOUS
  <2>2. pair \in Seq(Nat) /\ Len(pair) = 2 /\ pair[1] = c /\ pair[2] = v
    BY <2>1
  <2>3. w \in Seq(Nat) /\ Joined(w, patch, pair)
    BY <1>1, <2>1, <2>2, ConcatParts
  <2>4. 1 \in 1 .. 2 /\ 2 \in 1 .. 2
    OBVIOUS
  <2> QED BY <1>0, <2>2, <2>3, <2>4 DEF Joined
<1>3. result \in [0 .. p -> Seq(Nat)]
  BY <1>0, Zenon DEF Expands
<1>4. \A k \in 0 .. p : result[k] = IF k = 0 THEN <<>> ELSE result[k - 1] \o Run(patch[2 * k - 1], patch[2 * k])
  BY <1>0, Zenon DEF Expands
<1>5. PICK last : last = result[p] \o Run(c, v)
  OBVIOUS
<1>6. last \in Seq(Nat)
  <2>1. result[p] \in Seq(Nat)
    BY <1>3
  <2> QED BY <1>5, <2>1, RunIsSeq, ConcatProperties
<1>7. PICK r : r = [k \in 0 .. p + 1 |-> IF k = p + 1 THEN last ELSE result[k]]
  OBVIOUS
<1>8. \A k \in 0 .. p + 1 : k # p + 1 => k \in 0 .. p
  OBVIOUS
<1>9. /\ r \in [0 .. p + 1 -> Seq(Nat)] /\ r[p + 1] = last
      /\ \A k \in 0 .. p : r[k] = result[k]
  <2>1. p + 1 \in 0 .. p + 1 /\ \A k \in 0 .. p : k \in 0 .. p + 1 /\ k # p + 1
    OBVIOUS
  <2> QED BY <1>3, <1>6, <1>7, <1>8, <2>1
<1>10. ASSUME NEW k \in 0 .. p + 1
       PROVE  r[k] = IF k = 0 THEN <<>> ELSE r[k - 1] \o Run(w[2 * k - 1], w[2 * k])
  <2>1. CASE k = p + 1
    <3>1. 2 * k - 1 = 2 * p + 1 /\ 2 * k = 2 * p + 2 /\ k - 1 = p /\ k # 0 /\ p \in 0 .. p
      BY <2>1
    <3>2. r[k] = last /\ r[k - 1] = result[p]
      BY <1>9, <2>1, <3>1
    <3> QED BY <1>2, <1>5, <3>1, <3>2
  <2>2. CASE k # p + 1
    <3>1. k \in 0 .. p
      BY <2>2
    <3>2. r[k] = result[k]
      BY <1>9, <3>1
    <3>3. CASE k = 0
      BY <1>4, <3>1, <3>2, <3>3
    <3>4. CASE k # 0
      <4>1. 2 * k - 1 \in 1 .. 2 * p /\ 2 * k \in 1 .. 2 * p /\ k - 1 \in 0 .. p
        BY <3>1, <3>4
      <4>2. w[2 * k - 1] = patch[2 * k - 1] /\ w[2 * k] = patch[2 * k] /\ r[k - 1] = result[k - 1]
        BY <1>2, <1>9, <4>1
      <4>3. result[k] = result[k - 1] \o Run(patch[2 * k - 1], patch[2 * k])
        BY <1>4, <3>1, <3>4
      <4>4. r[k] = r[k - 1] \o Run(w[2 * k - 1], w[2 * k])
        BY <3>2, <4>2, <4>3
      <4> QED BY <3>4, <4>4
    <3> QED BY <3>3, <3>4
  <2> QED BY <2>1, <2>2
<1>11. Expands(w, p + 1, r)
  BY <1>9, <1>10 DEF Expands
<1>12. 2 * p + 2 = 2 * (p + 1)
  OBVIOUS
<1>13. p + 1 \in Nat /\ r[p + 1] = data \o Run(c, v) /\ Len(w) = 2 * (p + 1)
  BY <1>0, <1>2, <1>5, <1>9, <1>12
<1> QED BY <1>1, <1>2, <1>11, <1>13, Zenon DEF StandsFor

----------------------------------------------------------------------------
(* Compression *)

\* rle_compress: the run it counts at a position is at most MaxRun bytes, inside the
\* data and of one value.
LEMMA RunLengthIsRun ==
    ASSUME NEW data \in Seq(Nat), NEW i \in 1 .. Len(data), NEW c, c = RunLength(data, i)
    PROVE  c \in 1 .. MaxRun /\ i + c - 1 <= Len(data) /\ \A j \in i .. i + c - 1 : data[j] = data[i]
<1>1. PICK S : S = {x \in 1 .. MaxRun : i + x - 1 <= Len(data) /\ \A j \in i .. i + x - 1 : data[j] = data[i]}
  OBVIOUS
<1>2. PICK m \in Nat, n \in Nat : m = MaxRun /\ m > 0 /\ n = Len(data)
  BY DeltaAssumption
<1>3. S \subseteq Nat /\ \A x \in S : x <= m
  BY <1>1, <1>2
<1>4. 1 \in S
  <2>1. i + 1 - 1 = i /\ i .. i = {i} /\ i <= n /\ 1 \in 1 .. m
    BY <1>2
  <2> QED BY <1>1, <1>2, <2>1
<1>5. c = CHOOSE x \in S : \A y \in S : x >= y
  BY <1>1, Zenon DEF RunLength, Max
<1>6. c \in S
  BY <1>2, <1>3, <1>4, <1>5, GreatestIsChosen
<1> QED BY <1>1, <1>6

\* How far a turn of the loop is: it has read data up to at - 1, and its pairs
\* expand to just that.
Turns(data) == [at : 1 .. Len(data) + 1, out : Seq(Nat)]

SoFar(data, t) ==
    /\ t \in Turns(data)
    /\ StandsFor(t.out, SubSeq(data, 1, t.at - 1))

\* rle_compress: a turn of the loop goes forward until the data is read.
LEMMA NextPairKeeps ==
    ASSUME NEW data \in Seq(Nat), NEW t \in Turns(data)
    PROVE  /\ NextPair(data, t) \in Turns(data)
           /\ t.at <= Len(data) => NextPair(data, t).at > t.at
           /\ t.at > Len(data) => NextPair(data, t) = t
<1>1. PICK n \in Nat : n = Len(data)
  OBVIOUS
<1>2. PICK i \in 1 .. n + 1, o \in Seq(Nat) : i = t.at /\ o = t.out
  BY <1>1 DEF Turns
<1>3. CASE i > n
  BY <1>1, <1>2, <1>3 DEF NextPair
<1>4. CASE ~(i > n)
  <2>1. i \in 1 .. n
    BY <1>4
  <2>2. PICK c : c = RunLength(data, i)
    OBVIOUS
  <2>3. PICK m \in Nat : m = MaxRun
    BY DeltaAssumption
  <2>4. c \in 1 .. m /\ i + c - 1 <= n
    BY <1>1, <2>1, <2>2, <2>3, RunLengthIsRun
  <2>5. i + c \in 1 .. n + 1 /\ i + c > i /\ c % (m + 1) \in Nat
    BY <2>1, <2>4
  <2>6. data[i] \in Nat
    BY <1>1, <2>1
  <2>7. o \o <<c % (m + 1), data[i]>> \in Seq(Nat)
    BY <2>5, <2>6, ConcatProperties
  <2>8. NextPair(data, t) = [at |-> i + c, out |-> o \o <<c % (m + 1), data[i]>>]
    BY <1>1, <1>2, <1>4, <2>2, <2>3 DEF NextPair
  <2> QED BY <1>1, <1>2, <1>4, <2>5, <2>7, <2>8 DEF Turns
<1> QED BY <1>3, <1>4

\* The first k elements of a sequence.
LEMMA PrefixIs ==
    ASSUME NEW T, NEW data, NEW k \in Nat, \A j \in 1 .. k : data[j] \in T
    PROVE  /\ SubSeq(data, 1, k) \in Seq(T) /\ Len(SubSeq(data, 1, k)) = k
           /\ \A j \in 1 .. k : SubSeq(data, 1, k)[j] = data[j]
<1>1. k - 1 + 1 = k /\ (IF 1 <= k THEN k ELSE 0) = k /\ \A j \in 1 .. k : 1 + j - 1 = j
  OBVIOUS
<1>2. PICK u : u = SubSeq(data, 1, k)
  OBVIOUS
<1>3. /\ u \in Seq(T) /\ Len(u) = IF 1 <= k THEN k - 1 + 1 ELSE 0
      /\ \A j \in 1 .. k - 1 + 1 : u[j] = data[1 + j - 1]
  BY <1>2, SubSeqProperties
<1> QED BY <1>1, <1>2, <1>3

\* data, a run further.
LEMMA RunFurther ==
    ASSUME NEW data \in Seq(Nat), NEW i \in 1 .. Len(data), NEW c \in Nat, i + c - 1 <= Len(data),
           NEW v \in Nat, \A j \in i .. i + c - 1 : data[j] = v
    PROVE  SubSeq(data, 1, i - 1) \o Run(c, v) = SubSeq(data, 1, i + c - 1)
<1>1. PICK n \in Nat : n = Len(data)
  OBVIOUS
<1>2. PICK h \in Nat : i = h + 1
  <2>1. i - 1 \in Nat /\ i = (i - 1) + 1
    OBVIOUS
  <2> QED BY <2>1, Zenon
<1>3. h + c <= n /\ i - 1 = h /\ i + c - 1 = h + c
  BY <1>1, <1>2
<1>4. PICK u, w, r : u = SubSeq(data, 1, h) /\ w = SubSeq(data, 1, h + c) /\ r = Run(c, v)
  OBVIOUS
<1>5. \A j \in 1 .. h + c : data[j] \in Nat
  BY <1>1, <1>3
<1>6. u \in Seq(Nat) /\ Len(u) = h /\ \A j \in 1 .. h : u[j] = data[j]
  <2>1. \A j \in 1 .. h : data[j] \in Nat
    BY <1>5
  <2> QED BY <1>4, <2>1, PrefixIs
<1>7. w \in Seq(Nat) /\ Len(w) = h + c /\ \A j \in 1 .. h + c : w[j] = data[j]
  <2>1. PICK e \in Nat : e = h + c
    OBVIOUS
  <2>2. w \in Seq(Nat) /\ Len(w) = e /\ \A j \in 1 .. e : w[j] = data[j]
    <3>1. w = SubSeq(data, 1, e) /\ \A j \in 1 .. e : data[j] \in Nat
      BY <1>4, <1>5, <2>1, Zenon
    <3> QED BY <3>1, PrefixIs
  <2> QED BY <2>1, <2>2
<1>8. r \in Seq(Nat) /\ Len(r) = c /\ \A j \in 1 .. c : r[j] = v
  BY <1>4, RunIsSeq
<1>9. PICK x : x = u \o r
  OBVIOUS
<1>10. x \in Seq(Nat) /\ Joined(x, u, r)
  BY <1>6, <1>8, <1>9, ConcatParts
<1>11. Len(x) = h + c /\ (\A j \in 1 .. h : x[j] = u[j]) /\ \A j \in 1 .. c : x[h + j] = r[j]
  BY <1>6, <1>8, <1>10 DEF Joined
<1>12. ASSUME NEW j \in 1 .. h + c PROVE x[j] = w[j]
  <2>1. CASE j <= h
    <3>1. j \in 1 .. h
      BY <2>1
    <3> QED BY <1>6, <1>7, <1>11, <3>1
  <2>2. CASE ~(j <= h)
    <3>1. j - h \in 1 .. c /\ j = h + (j - h)
      BY <2>2
    <3>2. x[j] = v
      BY <1>8, <1>11, <3>1
    <3>3. j \in i .. i + c - 1
      BY <1>2, <2>2
    <3> QED BY <1>7, <3>2, <3>3
  <2> QED BY <2>1, <2>2
<1>13. x = w
  BY <1>7, <1>10, <1>11, <1>12, SeqEqual
<1> QED BY <1>3, <1>4, <1>9, <1>13, Zenon

\* rle_compress: after a turn the pairs still expand to the data read so far.
LEMMA NextPairExpands ==
    ASSUME NEW data \in Seq(Nat), NEW t, SoFar(data, t)
    PROVE  SoFar(data, NextPair(data, t))
<1>1. t \in Turns(data) /\ NextPair(data, t) \in Turns(data)
  BY NextPairKeeps, Zenon DEF SoFar
<1>2. PICK n \in Nat : n = Len(data)
  OBVIOUS
<1>3. PICK i \in 1 .. n + 1, o \in Seq(Nat) : i = t.at /\ o = t.out
  BY <1>1, <1>2 DEF Turns
<1>4. CASE i > n
  <2>1. NextPair(data, t) = t
    BY <1>2, <1>3, <1>4 DEF NextPair
  <2> QED BY <2>1
<1>5. CASE ~(i > n)
  <2>1. i \in 1 .. n
    BY <1>5
  <2>2. PICK c : c = RunLength(data, i)
    OBVIOUS
  <2>3. PICK m \in Nat : m = MaxRun
    BY DeltaAssumption
  <2>4. c \in 1 .. m /\ i + c - 1 <= n /\ \A j \in i .. i + c - 1 : data[j] = data[i]
    BY <1>2, <2>1, <2>2, <2>3, RunLengthIsRun
  <2>5. c % (m + 1) = c /\ c \in Nat
    BY <2>4
  <2>6. PICK v \in Nat : v = data[i]
    BY <1>2, <2>1
  <2>7. NextPair(data, t) = [at |-> i + c, out |-> o \o <<c, v>>]
    BY <1>2, <1>3, <1>5, <2>2, <2>3, <2>5, <2>6 DEF NextPair
  <2>8. StandsFor(o, SubSeq(data, 1, i - 1))
    BY <1>3, Zenon DEF SoFar
  <2>9. PICK x : x = SubSeq(data, 1, i - 1)
    OBVIOUS
  <2>10. StandsFor(o \o <<c, v>>, x \o Run(c, v))
    BY <2>5, <2>8, <2>9, PairStandsFor
  <2>11. SubSeq(data, 1, i - 1) \o Run(c, v) = SubSeq(data, 1, i + c - 1)
    BY <1>2, <2>1, <2>4, <2>5, <2>6, RunFurther
  <2>12. StandsFor(o \o <<c, v>>, SubSeq(data, 1, i + c - 1))
    BY <2>9, <2>10, <2>11, Zenon
  <2>13. NextPair(data, t).at = i + c /\ NextPair(data, t).out = o \o <<c, v>>
    BY <2>7
  <2>14. PICK e : e = i + c
    OBVIOUS
  <2>15. NextPair(data, t).at = e /\ e - 1 = i + c - 1
    BY <2>5, <2>13, <2>14
  <2>16. StandsFor(NextPair(data, t).out, SubSeq(data, 1, NextPair(data, t).at - 1))
    BY <2>12, <2>13, <2>15, Zenon
  <2> QED BY <1>1, <2>16, Zenon DEF SoFar
<1> QED BY <1>4, <1>5

\* The loop comes to the end of the data, and what it has written stands for it.
LEMMA RoundTrip ==
    ASSUME NEW data \in Seq(Nat)
    PROVE  RleDecompress(RleCompress(data)) = data
<1>1. PICK n \in Nat : n = Len(data)
  OBVIOUS
<1>2. PICK V : V = Turns(data)
  OBVIOUS
<1>3. PICK b : b = [at |-> 1, out |-> <<>>]
  OBVIOUS
<1>4. b \in V
  <2>1. 1 \in 1 .. n + 1
    OBVIOUS
  <2> QED BY <1>1, <1>2, <1>3, <2>1 DEF Turns
<1>5. PICK move : move = [t \in V |-> NextPair(data, t)]
  OBVIOUS
<1>6. PICK step : step = [k \in 1 .. n |-> move]
  OBVIOUS
<1>7. move \in [V -> V]
  BY <1>2, <1>5, NextPairKeeps
<1>8. step \in [1 .. n -> [V -> V]]
  BY <1>6, <1>7
<1>9. PICK g \in [0 .. n -> V] : Iterates(g, n, b, step)
  BY <1>4, <1>8, Iteration
<1> DEFINE Body(f) == [k \in 0 .. n |-> IF k = 0 THEN [at |-> 1, out |-> <<>>] ELSE NextPair(data, f[k - 1])]
           chosen == CHOOSE f : f = Body(f)
<1>10. g = Body(g)
  <2>1. ASSUME NEW k \in 0 .. n PROVE g[k] = IF k = 0 THEN b ELSE NextPair(data, g[k - 1])
    <3>1. CASE k = 0
      BY <1>9, <3>1 DEF Iterates
    <3>2. CASE k # 0
      <4>1. k \in 1 .. n /\ k - 1 \in 0 .. n
        BY <3>2
      <4>2. g[k] = step[k][g[k - 1]]
        BY <1>9, <3>2 DEF Iterates
      <4>3. g[k - 1] \in V /\ step[k] = move
        BY <1>6, <4>1
      <4>4. g[k] = NextPair(data, g[k - 1])
        BY <1>5, <4>2, <4>3
      <4> QED BY <3>2, <4>4
    <3> QED BY <3>1, <3>2
  <2> QED BY <1>3, <2>1
<1>11. chosen = Body(chosen)
  BY <1>10, Zenon
<1>12. RleCompress(data) = chosen[n].out
  BY <1>1, Zenon DEF RleCompress
<1>13. PICK f : f = chosen
  OBVIOUS
<1>14. f = Body(f)
  BY <1>11, <1>13, Zenon
<1>15. \A k \in 0 .. n : f[k] = IF k = 0 THEN b ELSE NextPair(data, f[k - 1])
  BY <1>3, <1>14
<1> HIDE DEF chosen, Body
<1>16. PICK G : G = {k \in 0 .. n : SoFar(data, f[k]) /\ (f[k].at > n \/ f[k].at >= k + 1)}
  OBVIOUS
<1>17. 0 \in G
  <2>1. f[0] = b /\ 0 \in 0 .. n
    BY <1>15
  <2>2. b.at = 1 /\ b.out = <<>>
    BY <1>3
  <2>3. SubSeq(data, 1, 1 - 1) = <<>>
    BY SubSeqEmpty
  <2>4. StandsFor(<<>>, <<>>)
    <3>1. PICK r : r = [k \in 0 .. 0 |-> <<>>]
      OBVIOUS
    <3>2. Expands(<<>>, 0, r) /\ r[0] = <<>>
      <4>1. \A k \in 0 .. 0 : k = 0
        OBVIOUS
      <4> QED BY <3>1, <4>1 DEF Expands
    <3>3. <<>> \in Seq(Nat) /\ Len(<<>>) = 2 * 0
      OBVIOUS
    <3> QED BY <3>2, <3>3 DEF StandsFor
  <2>5. SoFar(data, b)
    <3>1. b.at - 1 = 1 - 1
      BY <2>2, Zenon
    <3>2. StandsFor(b.out, SubSeq(data, 1, b.at - 1))
      BY <2>2, <2>3, <2>4, <3>1, Zenon
    <3> QED BY <1>2, <1>4, <3>2, Zenon DEF SoFar
  <2>6. b.at >= 0 + 1
    BY <2>2
  <2> QED BY <1>16, <2>1, <2>5, <2>6
<1>18. ASSUME NEW k \in 1 .. n, k - 1 \in G PROVE k \in G
  <2>1. k \in 0 .. n /\ k # 0 /\ (k - 1) + 1 = k
    OBVIOUS
  <2>2. PICK t : t = f[k - 1]
    OBVIOUS
  <2>3. SoFar(data, t) /\ (t.at > n \/ t.at >= (k - 1) + 1)
    BY <1>16, <1>18, <2>2
  <2>4. f[k] = NextPair(data, t)
    BY <1>15, <2>1, <2>2
  <2>5. SoFar(data, f[k])
    BY <2>3, <2>4, NextPairExpands
  <2>6. t \in Turns(data) /\ t.at \in Nat
    BY <1>1, <2>3 DEF SoFar, Turns
  <2>7. PICK i \in Nat, j \in Nat : i = t.at /\ j = f[k].at
    BY <1>1, <2>5, <2>6 DEF SoFar, Turns
  <2>8. (i <= n => j > i) /\ (i > n => j = i)
    BY <1>1, <2>4, <2>6, <2>7, NextPairKeeps
  <2>9. i > n \/ i >= k
    BY <2>1, <2>3, <2>7
  <2>10. j > n \/ j >= k + 1
    BY <2>8, <2>9
  <2> QED BY <1>16, <2>1, <2>5, <2>7, <2>10
<1>19. n \in G
  <2>1. \A m \in 0 .. n : m \in G
    BY <1>17, <1>18, SetInduction
  <2> QED BY <2>1
<1>20. PICK t : t = f[n]
  OBVIOUS
<1>21. SoFar(data, t) /\ (t.at > n \/ t.at >= n + 1)
  BY <1>16, <1>19, <1>20
<1>22. PICK i \in 1 .. n + 1 : i = t.at
  BY <1>1, <1>21 DEF SoFar, Turns
<1>23. i - 1 = n
  BY <1>21, <1>22
<1>24. SubSeq(data, 1, n) = data
  BY <1>1, SubSeqFull
<1>25. StandsFor(t.out, data)
  <2>1. StandsFor(t.out, SubSeq(data, 1, i - 1))
    BY <1>21, <1>22, Zenon DEF SoFar
  <2> QED BY <1>23, <1>24, <2>1, Zenon
<1> QED BY <1>12, <1>13, <1>20, <1>25, Decompressed

----------------------------------------------------------------------------
(* Deltas *)

ByteValues == {0, 1}

\* XorDelta::compute and apply: the delta of two states makes the new one of the old.
LEMMA PatchReproduces ==
    ASSUME NEW prev \in Seq(ByteValues), NEW new \in Seq(ByteValues)
    PROVE  Patched(Compute(prev, new), prev) = new
<1>1. PICK n \in Nat, l \in Nat : n = Len(new) /\ l = Longer(prev, new) /\ n <= l
  <2>1. Len(new) \in Nat /\ Len(prev) \in Nat
    OBVIOUS
  <2>2. Longer(prev, new) \in Nat /\ Len(new) <= Longer(prev, new)
    BY <2>1 DEF Longer
  <2> QED BY <2>1, <2>2
<1>2. \A i : ByteAt(prev, i) \in ByteValues /\ ByteAt(new, i) \in ByteValues
  BY DEF ByteAt, ByteValues
<1>3. \A a, b \in ByteValues : Xor(a, b) \in ByteValues /\ Xor(a, Xor(a, b)) = b
  BY DEF ByteValues, Xor
<1>4. PICK x : x = [i \in 1 .. l |-> Xor(ByteAt(prev, i), ByteAt(new, i))]
  OBVIOUS
<1>5. x \in Seq(ByteValues) /\ DOMAIN x = 1 .. l
  <2>1. x \in [1 .. l -> ByteValues]
    BY <1>2, <1>3, <1>4
  <2> QED BY <2>1
<1>6. x \in Seq(Nat)
  BY <1>5 DEF ByteValues
<1>7. PICK d : d = Compute(prev, new)
  OBVIOUS
<1>8. d.patch = RleCompress(x) /\ d.new_len = n
  BY <1>1, <1>4, <1>7 DEF Compute
<1>9. RleDecompress(d.patch) = x
  BY <1>6, <1>8, RoundTrip
<1>10. Patched(d, prev) = [i \in 1 .. n |-> Xor(ByteAt(prev, i), ByteAt(x, i))]
  BY <1>8, <1>9, Zenon DEF Patched
<1>11. ASSUME NEW i \in 1 .. n PROVE Xor(ByteAt(prev, i), ByteAt(x, i)) = new[i]
  <2>1. i \in 1 .. l
    BY <1>1
  <2>2. ByteAt(x, i) = Xor(ByteAt(prev, i), ByteAt(new, i))
    BY <1>4, <1>5, <2>1 DEF ByteAt
  <2>3. ByteAt(new, i) = new[i]
    BY <1>1 DEF ByteAt
  <2> QED BY <1>2, <1>3, <2>2, <2>3
<1>12. new = [i \in 1 .. n |-> new[i]]
  BY <1>1
<1>13. Patched(d, prev) = new
  BY <1>10, <1>11, <1>12
<1> QED BY <1>7, <1>13, Zenon

DeltaSpec == DeltaInit /\ [][DeltaNext]_deltaVars

\* Every delta leads from one state of the sender to another.
Between(states) == {Compute(p, q) : p \in states, q \in states}

DeltaInv ==
    /\ history \subseteq Seq(ByteValues) /\ sender \in history /\ receiver \in history
    /\ deltas \in Seq(Between(history)) /\ rejected = FALSE

\* Every step of the sender and the receiver.
LEMMA DeltaStep == DeltaInv /\ [DeltaNext]_deltaVars => DeltaInv'
<1> SUFFICES ASSUME DeltaInv, [DeltaNext]_deltaVars PROVE DeltaInv'
  OBVIOUS
<1>0. /\ history \subseteq Seq(ByteValues) /\ sender \in history /\ receiver \in history
      /\ deltas \in Seq(Between(history)) /\ rejected = FALSE
  BY DEF DeltaInv
<1>1. ASSUME NEW new \in States, SendDelta(new) PROVE DeltaInv'
  <2>1. /\ deltas' = Append(deltas, Compute(sender, new)) /\ sender' = new
        /\ history' = history \cup {new} /\ receiver' = receiver /\ rejected' = rejected
    BY <1>1 DEF SendDelta
  <2>2. new \in Seq(ByteValues)
    BY DeltaAssumption DEF ByteValues
  <2>3. PICK B, A : B = Between(history') /\ A = Between(history)
    OBVIOUS
  <2>4. A \subseteq B /\ Compute(sender, new) \in B
    BY <1>0, <2>1, <2>3 DEF Between
  <2>5. deltas \in Seq(B)
    <3>1. deltas \in Seq(A)
      BY <1>0, <2>3
    <3> QED BY <2>4, <3>1
  <2>6. deltas' \in Seq(B)
    BY <2>1, <2>4, <2>5, AppendProperties
  <2> QED BY <1>0, <2>1, <2>2, <2>3, <2>6 DEF DeltaInv
<1>2. ASSUME NEW i \in 1 .. MaxDeltas, Receive(i) PROVE DeltaInv'
  <2>1. sender' = sender /\ history' = history /\ deltas' = deltas /\ i \in DOMAIN deltas
    BY <1>2 DEF Receive
  <2>2. PICK d : d = deltas[i]
    OBVIOUS
  <2>3. d \in Between(history)
    BY <1>0, <2>1, <2>2
  <2>4. PICK p \in history, q \in history : d = Compute(p, q)
    BY <2>3 DEF Between
  <2>5. d.prev_hash = p /\ d.new_hash = q
    BY <2>4 DEF Compute
  <2>6. Patched(d, p) = q
    BY <1>0, <2>4, PatchReproduces
  <2>7. CASE receiver = p
    <3>1. Applies(d, receiver)
      BY <2>5, <2>6, <2>7 DEF Applies
    <3>2. receiver' = q /\ rejected' = rejected
      BY <1>2, <2>2, <2>6, <2>7, <3>1 DEF Receive
    <3> QED BY <1>0, <2>1, <2>4, <3>2 DEF DeltaInv
  <2>8. CASE receiver # p
    <3>1. ~Applies(d, receiver)
      BY <2>5, <2>8 DEF Applies
    <3>2. receiver' = receiver /\ rejected' = (rejected \/ d.prev_hash = receiver)
      BY <1>2, <2>2, <3>1 DEF Receive
    <3>3. rejected' = FALSE
      BY <1>0, <2>5, <2>8, <3>2
    <3> QED BY <1>0, <2>1, <3>2, <3>3 DEF DeltaInv
  <2> QED BY <2>7, <2>8
<1>3. ASSUME UNCHANGED deltaVars PROVE DeltaInv'
  BY <1>0, <1>3 DEF deltaVars, DeltaInv
<1> QED BY <1>1, <1>2, <1>3 DEF DeltaNext

\* XorDelta::compute, apply and the RLE of src/src/sync/delta.rs: for any states, any run
\* limit and deltas lost, doubled or out of order, a receiver only ever holds a state
\* the sender had, and never turns down the delta of its own state.
THEOREM DeltasAreExact == DeltaSpec => []DeltaExact
<1>1. DeltaInit => DeltaInv
  BY DeltaAssumption DEF DeltaInit, DeltaInv, ByteValues, Between
<1>2. DeltaInv /\ [DeltaNext]_deltaVars => DeltaInv'
  BY DeltaStep
<1>3. DeltaInv => DeltaExact
  BY DEF DeltaInv, DeltaExact
<1> QED BY <1>1, <1>2, <1>3, PTL DEF DeltaSpec

-----------------------------------------------------------------------------
(* Arguments *)

\* A behaviour of Arguments by itself.
ArgumentsSpec == ArgumentsInit /\ [][CallTool]_argumentVars

\* A value that the encoder accepts, and its bytes.
TextValue(v) == v.bytes \in Seq({v.bytes[k] : k \in DOMAIN v.bytes})

\* The bytes that are written for a value are a sequence no longer than the
\* field.
LEMMA WrittenFits ==
    ASSUME NEW field, FieldDefOk(field), NEW v, TextValue(v), ValueFits(field, v)
    PROVE  /\ \E S : ValueBytes(field, v) \in Seq(S)
           /\ Len(ValueBytes(field, v)) \in Nat
           /\ Len(ValueBytes(field, v)) <= field.size
<1>0. field.size \in Nat /\ field.type \in ArgTypes
  BY ArgumentsAssumption DEF FieldDefOk, U16
<1>1. CASE field.type = "Null"
  BY <1>0, <1>1 DEF ValueBytes
<1>2. CASE field.type = "Bool" \/ (field.type = "I32" /\ field.range # <<>>)
  <2>1. ValueBytes(field, v) = <<v.n>>
    BY <1>2 DEF ValueBytes
  <2>2. field.size >= 1
    BY <1>2 DEF ValueFits
  <2>3. <<v.n>> \in Seq({v.n}) /\ Len(<<v.n>>) = 1
    OBVIOUS
  <2> QED BY <1>0, <2>1, <2>2, <2>3
<1>3. CASE field.type = "I32" /\ field.range = <<>>
  <2>1. ValueBytes(field, v) = [k \in 1 .. 4 |-> <<v.n, k>>]
    BY <1>3 DEF ValueBytes, ToLeBytes
  <2>2. field.size >= 4
    BY <1>3 DEF ValueFits
  <2>3. PICK b : b = [k \in 1 .. 4 |-> <<v.n, k>>]
    OBVIOUS
  <2>4. PICK S : S = {b[k] : k \in 1 .. 4}
    OBVIOUS
  <2>5. b \in Seq(S) /\ Len(b) = 4
    BY <2>3, <2>4
  <2>6. ValueBytes(field, v) = b
    BY <2>1, <2>3
  <2>7. ValueBytes(field, v) \in Seq(S)
    BY <2>5, <2>6
  <2>8. Len(ValueBytes(field, v)) = 4
    BY <2>5, <2>6, Zenon
  <2>9. Len(ValueBytes(field, v)) \in Nat /\ Len(ValueBytes(field, v)) <= field.size
    BY <1>0, <2>2, <2>8
  <2> QED BY <2>7, <2>9, Zenon
<1>4. CASE field.type \in {"I64", "F64"}
  <2>1. ValueBytes(field, v) = [k \in 1 .. 8 |-> <<v.n, k>>]
    BY <1>4 DEF ValueBytes, ToLeBytes
  <2>2. field.size >= 8
    BY <1>4 DEF ValueFits
  <2>3. PICK b : b = [k \in 1 .. 8 |-> <<v.n, k>>]
    OBVIOUS
  <2>4. PICK S : S = {b[k] : k \in 1 .. 8}
    OBVIOUS
  <2>5. b \in Seq(S) /\ Len(b) = 8
    BY <2>3, <2>4
  <2>6. ValueBytes(field, v) = b
    BY <2>1, <2>3
  <2>7. ValueBytes(field, v) \in Seq(S)
    BY <2>5, <2>6
  <2>8. Len(ValueBytes(field, v)) = 8
    BY <2>5, <2>6, Zenon
  <2>9. Len(ValueBytes(field, v)) \in Nat /\ Len(ValueBytes(field, v)) <= field.size
    BY <1>0, <2>2, <2>8
  <2> QED BY <2>7, <2>9, Zenon
<1>5. CASE field.type \in {"String", "Bytes", "Array", "Object"}
  <2>1. ValueBytes(field, v) = v.bytes
    BY <1>5 DEF ValueBytes
  <2>2. Len(v.bytes) <= field.size
    BY <1>5 DEF ValueFits
  <2>3. v.bytes \in Seq({v.bytes[k] : k \in DOMAIN v.bytes})
    BY DEF TextValue
  <2>4. Len(v.bytes) \in Nat
    BY <2>3
  <2> QED BY <1>0, <2>1, <2>2, <2>3, <2>4
<1> QED BY <1>0, <1>1, <1>2, <1>3, <1>4, <1>5 DEF ArgTypes

\* A value that the encoder accepts keeps to what tools/list says of the field.
LEMMA FittingConforms ==
    ASSUME NEW field, FieldDefOk(field), NEW v, ValueFits(field, v)
    PROVE  /\ v.kind = AdvertisedType(field)
           /\ (field.type \in {"String", "Bytes"} /\ field.size > 0) => Len(v.bytes) <= field.size
           /\ field.range # <<>> => v.n >= field.range[1] /\ v.n <= field.range[2]
<1>0. field.type \in ArgTypes /\ (field.range = <<>> \/ field.type = "I32")
  BY DEF FieldDefOk
<1> QED BY <1>0 DEF ValueFits, AdvertisedType, ArgTypes

\* A schema as the constructors of FieldDef build it.
SchemaOk(s) ==
    /\ s.fields \in Seq({s.fields[i] : i \in DOMAIN s.fields})
    /\ \A i \in DOMAIN s.fields : FieldDefOk(s.fields[i])

\* MaxLen is the end of the field that reaches furthest.
LEMMA MaxLenReaches ==
    ASSUME NEW s, SchemaOk(s)
    PROVE  MaxLen(s) \in Nat /\ \A i \in DOMAIN s.fields : End(s.fields[i]) \in Nat /\ End(s.fields[i]) <= MaxLen(s)
<1>1. \A i \in DOMAIN s.fields : End(s.fields[i]) \in 0 .. 2 * MaxU16
  BY ArgumentsAssumption DEF SchemaOk, FieldDefOk, End, U16
<1>2. CASE s.fields = <<>>
  BY <1>2 DEF MaxLen
<1>3. CASE s.fields # <<>>
  <2>1. PICK E : E = {End(s.fields[i]) : i \in DOMAIN s.fields}
    OBVIOUS
  <2>2. E \subseteq Nat /\ \A e \in E : e <= 2 * MaxU16
    BY <1>1, <2>1
  <2>3. DOMAIN s.fields # {}
    BY <1>3 DEF SchemaOk
  <2>4. E # {}
    BY <2>1, <2>3
  <2>5. MaxLen(s) = CHOOSE e \in E : \A y \in E : e >= y
    BY <1>3, <2>1 DEF MaxLen, Max
  <2>6. MaxLen(s) \in E /\ \A e \in E : MaxLen(s) >= e
    <3>1. PICK n \in Nat : n = 2 * MaxU16
      BY ArgumentsAssumption
    <3>2. E \subseteq Nat /\ \A e \in E : e <= n
      BY <2>2, <3>1
    <3> QED BY <2>4, <2>5, <3>2, GreatestIsChosen, Zenon
  <2> QED BY <1>1, <2>1, <2>2, <2>6
<1> QED BY <1>2, <1>3

\* Every argument's text is a sequence.
TextValues(args) == \A name \in DOMAIN args : TextValue(args[name])

\* Where a field is written, and how far: inside the field.
LEMMA WrittenInside ==
    ASSUME NEW s, SchemaOk(s), NEW args, TextValues(args), ~EncodeError(s, args),
           NEW i \in DOMAIN s.fields, Given(args, i)
    PROVE  /\ ValueFits(s.fields[i], args[NameOf(i)])
           /\ s.fields[i].offset \in Nat /\ s.fields[i].size \in Nat
           /\ \E S : ValueBytes(s.fields[i], args[NameOf(i)]) \in Seq(S)
           /\ Len(ValueBytes(s.fields[i], args[NameOf(i)])) \in Nat
           /\ Len(ValueBytes(s.fields[i], args[NameOf(i)])) <= s.fields[i].size
<1>1. ValueFits(s.fields[i], args[NameOf(i)])
  BY DEF EncodeError
<1>2. FieldDefOk(s.fields[i])
  BY DEF SchemaOk
<1>3. TextValue(args[NameOf(i)])
  BY DEF TextValues, Given
<1>4. s.fields[i].offset \in Nat /\ s.fields[i].size \in Nat
  BY <1>2, ArgumentsAssumption DEF FieldDefOk, U16
<1> QED BY <1>1, <1>2, <1>3, <1>4, WrittenFits, Zenon

\* Of fields that lie apart only one writes a byte.
LEMMA OneWriter ==
    ASSUME NEW s, SchemaOk(s), NEW args, TextValues(args), ~EncodeError(s, args), Apart(s),
           NEW i \in DOMAIN s.fields, NEW j \in DOMAIN s.fields, NEW pos \in Nat,
           WrittenBy(s, args, i, pos), WrittenBy(s, args, j, pos)
    PROVE  i = j
<1>1. Given(args, i) /\ Given(args, j)
  BY DEF WrittenBy
<1>2. PICK oi \in Nat, ni \in Nat, li \in Nat :
          /\ oi = s.fields[i].offset /\ ni = s.fields[i].size
          /\ li = Len(ValueBytes(s.fields[i], args[NameOf(i)])) /\ li <= ni
  BY <1>1, WrittenInside
<1>3. PICK oj \in Nat, nj \in Nat, lj \in Nat :
          /\ oj = s.fields[j].offset /\ nj = s.fields[j].size
          /\ lj = Len(ValueBytes(s.fields[j], args[NameOf(j)])) /\ lj <= nj
  BY <1>1, WrittenInside
<1>4. pos > oi /\ pos <= oi + li /\ pos > oj /\ pos <= oj + lj
  BY <1>2, <1>3 DEF WrittenBy
<1>5. i = j \/ oi + ni <= oj \/ oj + nj <= oi
  BY <1>2, <1>3 DEF Apart, End
<1>6. li <= ni /\ lj <= nj
  BY <1>2, <1>3
<1> QED BY <1>4, <1>5, <1>6

\* A byte of the buffer is the byte of the one field that writes it.
LEMMA BufferHolds ==
    ASSUME NEW s, SchemaOk(s), NEW args, TextValues(args), ~EncodeError(s, args), Apart(s),
           NEW i \in DOMAIN s.fields, NEW pos \in 1 .. MaxLen(s), WrittenBy(s, args, i, pos)
    PROVE  Buffer(s, args)[pos] = ValueBytes(s.fields[i], args[NameOf(i)])[pos - s.fields[i].offset]
<1>0. pos \in Nat
  BY MaxLenReaches
<1>1. PICK W : W = {j \in DOMAIN s.fields : WrittenBy(s, args, j, pos)}
  OBVIOUS
<1>2. W = {i}
  <2>1. ASSUME NEW j \in W PROVE j = i
    <3>1. j \in DOMAIN s.fields /\ WrittenBy(s, args, j, pos)
      BY <1>1
    <3> QED BY <1>0, <3>1, OneWriter
  <2>2. i \in W
    BY <1>1
  <2> QED BY <2>1, <2>2
<1>3. i \in Nat
  BY DEF SchemaOk
<1>4. PICK c : c = Max(W)
  OBVIOUS
<1>5. c = i
  <2>1. c = CHOOSE x \in {i} : \A y \in {i} : x >= y
    BY <1>2, <1>4 DEF Max
  <2>2. c \in {i}
    BY <1>3, <2>1
  <2> QED BY <2>2
<1>6. Buffer(s, args)[pos] =
        IF W = {} THEN 0 ELSE ValueBytes(s.fields[c], args[NameOf(c)])[pos - s.fields[c].offset]
  BY <1>1, <1>4 DEF Buffer
<1> QED BY <1>2, <1>5, <1>6

\* A tool that reads a field finds the bytes that were written for it.
LEMMA FieldIsRead ==
    ASSUME NEW s, SchemaOk(s), NEW args, TextValues(args), ~EncodeError(s, args), Apart(s),
           NEW i \in DOMAIN s.fields, Given(args, i), NEW bytes,
           bytes = ValueBytes(s.fields[i], args[NameOf(i)])
    PROVE  ReadAt(Buffer(s, args), s.fields[i].offset, Len(bytes)) = bytes
<1>1. PICK o \in Nat, n \in Nat, l \in Nat :
          o = s.fields[i].offset /\ n = s.fields[i].size /\ l = Len(bytes) /\ l <= n
  BY WrittenInside
<1>2. PICK S : bytes \in Seq(S)
  BY WrittenInside
<1>3. PICK m \in Nat : m = MaxLen(s) /\ o + n <= m
  BY <1>1, MaxLenReaches DEF End
<1> l <= n /\ o + n <= m
  BY <1>1, <1>3
<1>4. PICK d : d = Buffer(s, args)
  OBVIOUS
<1>5. PICK D : D = {d[p] : p \in 1 .. m}
  OBVIOUS
<1>6. d \in [1 .. m -> D]
  <2>1. d = [p \in 1 .. m |-> d[p]]
    BY <1>3, <1>4 DEF Buffer
  <2> QED BY <1>5, <2>1
<1>7. d \in Seq(D) /\ Len(d) = m
  BY <1>3, <1>6
<1>8. ASSUME NEW k \in 1 .. l PROVE d[o + k] = bytes[k]
  <2>1. PICK p : p = o + k
    OBVIOUS
  <2>2. p \in 1 .. m /\ p > o /\ p <= o + l /\ p - o = k
    BY <2>1
  <2>3. WrittenBy(s, args, i, p)
    BY <1>1, <2>2 DEF WrittenBy
  <2>4. d[p] = bytes[p - o]
    BY <1>1, <1>3, <1>4, <2>2, <2>3, BufferHolds
  <2> QED BY <2>1, <2>2, <2>4
<1>9. PICK r : r = SubSeq(d, o + 1, o + l)
  OBVIOUS
<1>10. r \in Seq(D) /\ Len(r) = l /\ \A k \in 1 .. l : r[k] = d[o + k]
  <2>1. \A q \in o + 1 .. o + l : d[q] \in D
    BY <1>6
  <2> QED BY <1>9, <2>1, SubSeqProperties
<1>11. r = bytes
  <2>1. PICK U : U = D \cup S
    OBVIOUS
  <2>2. r \in Seq(U) /\ bytes \in Seq(U)
    BY <1>2, <1>10, <2>1
  <2>3. Len(r) = Len(bytes) /\ \A k \in 1 .. Len(r) : r[k] = bytes[k]
    BY <1>1, <1>8, <1>10
  <2> QED BY <2>2, <2>3, SeqEqual
<1>12. ~(o + l > Len(d))
  BY <1>1, <1>3, <1>7
<1> QED BY <1>1, <1>4, <1>9, <1>11, <1>12 DEF ReadAt

\* Every schema is as the constructors build it, and a call that was executed
\* is as ArgumentsArrive says.
ArgumentsInv == schema \in Schemas /\ arguments \in ArgumentSets /\ ArgumentsArrive

\* Every call of a tool.
LEMMA ArgumentsStep == ArgumentsInv /\ [CallTool]_argumentVars => ArgumentsInv'
<1> SUFFICES ASSUME ArgumentsInv, [CallTool]_argumentVars PROVE ArgumentsInv'
  OBVIOUS
<1>0. schema \in Schemas /\ arguments \in ArgumentSets
  BY DEF ArgumentsInv
<1>1. SchemaOk(schema) /\ TextValues(arguments) /\ MaxFields \in Nat
  BY <1>0, ArgumentsAssumption DEF SchemaOk, TextValues, TextValue
<1>2. CASE UNCHANGED argumentVars
  BY <1>2 DEF argumentVars, ArgumentsInv, ArgumentsArrive, Conforms
<1>3. CASE CallTool
  <2>1. schema' = schema /\ arguments' = arguments
    BY <1>3 DEF CallTool
  <2>2. PICK data, layout : data = Buffer(schema, arguments) /\ layout = Layout(schema, arguments)
    OBVIOUS
  <2>3. call' = IF EncodeError(schema, arguments) THEN [outcome |-> "invalid params"]
                ELSE IF ~SharedArgsValid(schema, data, layout) THEN [outcome |-> "validation failed"]
                ELSE [outcome |-> "executed", data |-> data, layout |-> layout]
    BY <1>3, <2>2 DEF CallTool
  <2>4. SUFFICES ASSUME call'.outcome = "executed"
                 PROVE  /\ Conforms
                        /\ \A i \in DOMAIN schema.fields : Given(arguments, i) =>
                             LET f     == schema.fields[i]
                                 bytes == ValueBytes(f, arguments[NameOf(i)])
                             IN  /\ call'.layout[i] = f.type
                                 /\ Apart(schema) => ReadAt(call'.data, f.offset, Len(bytes)) = bytes
    BY <1>0, <2>1 DEF ArgumentsInv, ArgumentsArrive, Conforms
  <2>5. ~EncodeError(schema, arguments) /\ call'.data = data /\ call'.layout = layout
    BY <2>3, <2>4
  <2>6. Conforms
    <3>1. \A name \in DOMAIN arguments : \E i \in DOMAIN schema.fields : NameOf(i) = name
      BY <2>5 DEF EncodeError
    <3>2. ASSUME NEW i \in DOMAIN schema.fields
          PROVE  /\ i \in schema.required => Given(arguments, i)
                 /\ Given(arguments, i) => ValueFits(schema.fields[i], arguments[NameOf(i)])
      BY <2>5 DEF EncodeError
    <3>3. \A i \in DOMAIN schema.fields : FieldDefOk(schema.fields[i])
      BY <1>1 DEF SchemaOk
    <3> QED BY <3>1, <3>2, <3>3, FittingConforms DEF Conforms
  <2>7. ASSUME NEW i \in DOMAIN schema.fields, Given(arguments, i), NEW bytes,
               bytes = ValueBytes(schema.fields[i], arguments[NameOf(i)])
        PROVE  /\ layout[i] = schema.fields[i].type
               /\ Apart(schema) => ReadAt(data, schema.fields[i].offset, Len(bytes)) = bytes
    <3>1. i \in 1 .. MaxFields
      <4>1. i \in 1 .. Len(schema.fields) /\ Len(schema.fields) \in Nat
        BY <1>1 DEF SchemaOk
      <4>2. ~(Len(schema.fields) > MaxFields)
        BY <2>5 DEF EncodeError
      <4> QED BY <1>1, <4>1, <4>2
    <3>2. layout[i] = schema.fields[i].type
      BY <2>2, <2>7, <3>1 DEF Layout
    <3>3. Apart(schema) => ReadAt(data, schema.fields[i].offset, Len(bytes)) = bytes
      BY <1>1, <2>2, <2>5, <2>7, FieldIsRead
    <3> QED BY <3>2, <3>3
  <2> QED BY <2>5, <2>6, <2>7
<1> QED BY <1>2, <1>3

\* encode_json_arguments, validate_shared_args and the reads of SharedArgs: of
\* any schema and any arguments, a tool that is run gets every argument as the
\* client gave it, where the fields lie apart, and gets none that breaks
\* the advertised schema.
THEOREM ArgumentsReachTheTool == ArgumentsSpec => []ArgumentsArrive
<1>1. ArgumentsInit => ArgumentsInv
  BY DEF ArgumentsInit, ArgumentsInv, ArgumentsArrive
<1>2. ArgumentsInv /\ [CallTool]_argumentVars => ArgumentsInv'
  BY ArgumentsStep
<1>3. ArgumentsInv => ArgumentsArrive
  BY DEF ArgumentsInv
<1> QED BY <1>1, <1>2, <1>3, PTL DEF ArgumentsSpec

-----------------------------------------------------------------------------
(* BinaryRecords *)

\* A behaviour of BinaryRecords by itself.
RecordsSpec == RecordsInit /\ [][Decoding]_recordVars

\* The places of a table are intervals, no two of which share a byte.
Tabled(table) == \A f \in DOMAIN table : table[f][1] \in Nat /\ table[f][2] \in Nat
Separate(table) ==
    \A f, g \in DOMAIN table : f = g \/ table[f][2] <= table[g][1] \/ table[g][2] <= table[f][1]
In(table, f, p) == f \in DOMAIN table /\ p >= table[f][1] /\ p < table[f][2]

\* A byte that lies in a field is the field's.
LEMMA PlacedByte ==
    ASSUME NEW table, Tabled(table), Separate(table), NEW record, NEW size \in Nat,
           NEW p \in 0 .. size - 1, NEW f, In(table, f, p)
    PROVE  Placing(table, record, size)[p] = record[f][p - table[f][1]]
<1>1. PICK here : here = {g \in DOMAIN table : p >= table[g][1] /\ p < table[g][2]}
  OBVIOUS
<1>2. ASSUME NEW g \in here PROVE g = f
  <2>1. g \in DOMAIN table /\ p >= table[g][1] /\ p < table[g][2]
    BY <1>1
  <2>2. f \in DOMAIN table /\ p >= table[f][1] /\ p < table[f][2]
    BY DEF In
  <2>3. PICK fa \in Nat, fb \in Nat, ga \in Nat, gb \in Nat :
            fa = table[f][1] /\ fb = table[f][2] /\ ga = table[g][1] /\ gb = table[g][2]
    BY <2>1, <2>2 DEF Tabled
  <2>4. g = f \/ fb <= ga \/ gb <= fa
    BY <2>1, <2>2, <2>3 DEF Separate
  <2>5. p >= ga /\ p < gb /\ p >= fa /\ p < fb
    BY <2>1, <2>2, <2>3
  <2> QED BY <2>4, <2>5
<1>3. f \in here
  BY <1>1 DEF In
<1>4. PICK c : c = CHOOSE x \in here : TRUE
  OBVIOUS
<1>5. c \in here
  BY <1>3, <1>4, Zenon
<1>6. c = f /\ here # {}
  BY <1>2, <1>3, <1>5
<1>7. Placing(table, record, size)[p] = IF here = {} THEN 0 ELSE record[c][p - table[c][1]]
  BY <1>1, <1>4 DEF Placing
<1> QED BY <1>6, <1>7

\* A byte that lies in no field is zero.
LEMMA PlacedNothing ==
    ASSUME NEW table, NEW record, NEW size \in Nat, NEW p \in 0 .. size - 1, \A f : ~In(table, f, p)
    PROVE  Placing(table, record, size)[p] = 0
<1>1. {g \in DOMAIN table : p >= table[g][1] /\ p < table[g][2]} = {}
  BY DEF In
<1> QED BY <1>1 DEF Placing

\* What from_bytes reads of a byte is the byte.
LEMMA ReadByte ==
    ASSUME NEW kind \in DOMAIN Size, NEW b, Tabled(ReadsAt[kind]), NEW p \in Nat, NEW f,
           In(ReadsAt[kind], f, p)
    PROVE  FromBytes(kind, b)[f][p - ReadsAt[kind][f][1]] = ByteOf(b, p)
<1>1. PICK a \in Nat, z \in Nat : a = ReadsAt[kind][f][1] /\ z = ReadsAt[kind][f][2]
  BY DEF In, Tabled
<1>2. f \in DOMAIN ReadsAt[kind] /\ p >= a /\ p < z
  BY <1>1 DEF In
<1>3. FromBytes(kind, b)[f] = [k \in 0 .. z - a - 1 |-> ByteOf(b, a + k)]
  BY <1>1, <1>2 DEF FromBytes
<1>4. p - a \in 0 .. z - a - 1 /\ a + (p - a) = p
  BY <1>2
<1>5. FromBytes(kind, b)[f][p - a] = ByteOf(b, a + (p - a))
  BY <1>3, <1>4
<1> QED BY <1>1, <1>4, <1>5

\* A record as its table lays it out: no two fields share a byte, and every
\* byte is reserved or part of a field.
Laid(kind) ==
    LET t == ReadsAt[kind]
    IN  /\ Tabled(t) /\ Separate(t) /\ WritesAt[kind] = t /\ Size[kind] \in Nat
        /\ \A p \in 0 .. Size[kind] - 1 : p \in Reserved[kind] \/ \E f : In(t, f, p)

\* The places of a ToolInvocation.
LEMMA ToolInvocationLaid == Laid("ToolInvocation")
<1>1. PICK t : t = ReadsAt["ToolInvocation"]
  OBVIOUS
<1>2. /\ DOMAIN t = {"tool_id", "arg_layout", "args_offset", "args_len"}
      /\ t["tool_id"] = <<0, 4>>
      /\ t["arg_layout"] = <<8, 16>>
      /\ t["args_offset"] = <<16, 20>>
      /\ t["args_len"] = <<20, 24>>
  BY <1>1 DEF ReadsAt
<1>3. Tabled(t)
  BY <1>2 DEF Tabled
<1>4. Separate(t)
  BY <1>2 DEF Separate
<1>5. WritesAt["ToolInvocation"] = t
  BY <1>1 DEF ReadsAt, WritesAt
<1>6. Size["ToolInvocation"] = 24 /\ Reserved["ToolInvocation"] = 4 .. 7
  BY DEF Size, Reserved
<1>7. ASSUME NEW p \in 0 .. 23 PROVE p \in 4 .. 7 \/ \E f : In(t, f, p)
  <2>1. p \in 4 .. 7 \/ In(t, "tool_id", p) \/ In(t, "arg_layout", p) \/ In(t, "args_offset", p) \/ In(t, "args_len", p)
    BY <1>2 DEF In
  <2> QED BY <2>1
<1> QED BY <1>1, <1>3, <1>4, <1>5, <1>6, <1>7 DEF Laid

\* The places of a SignedInvocation.
LEMMA SignedInvocationLaid == Laid("SignedInvocation")
<1>1. PICK t : t = ReadsAt["SignedInvocation"]
  OBVIOUS
<1>2. /\ DOMAIN t = {"tool_id", "nonce", "timestamp", "args_hash", "signature"}
      /\ t["tool_id"] = <<0, 4>>
      /\ t["nonce"] = <<8, 16>>
      /\ t["timestamp"] = <<16, 24>>
      /\ t["args_hash"] = <<24, 56>>
      /\ t["signature"] = <<56, 120>>
  BY <1>1 DEF ReadsAt
<1>3. Tabled(t)
  BY <1>2 DEF Tabled
<1>4. Separate(t)
  BY <1>2 DEF Separate
<1>5. WritesAt["SignedInvocation"] = t
  BY <1>1 DEF ReadsAt, WritesAt
<1>6. Size["SignedInvocation"] = 120 /\ Reserved["SignedInvocation"] = 4 .. 7
  BY DEF Size, Reserved
<1>7. ASSUME NEW p \in 0 .. 119 PROVE p \in 4 .. 7 \/ \E f : In(t, f, p)
  <2>1. p \in 4 .. 7 \/ In(t, "tool_id", p) \/ In(t, "nonce", p) \/ In(t, "timestamp", p) \/ In(t, "args_hash", p) \/ In(t, "signature", p)
    BY <1>2 DEF In
  <2> QED BY <2>1
<1> QED BY <1>1, <1>3, <1>4, <1>5, <1>6, <1>7 DEF Laid

\* The places of a SignedToolDef.
LEMMA SignedToolDefLaid == Laid("SignedToolDef")
<1>1. PICK t : t = ReadsAt["SignedToolDef"]
  OBVIOUS
<1>2. /\ DOMAIN t = {"tool_id", "schema_hash", "capabilities", "signature", "public_key"}
      /\ t["tool_id"] = <<0, 4>>
      /\ t["schema_hash"] = <<4, 36>>
      /\ t["capabilities"] = <<40, 48>>
      /\ t["signature"] = <<48, 112>>
      /\ t["public_key"] = <<112, 144>>
  BY <1>1 DEF ReadsAt
<1>3. Tabled(t)
  BY <1>2 DEF Tabled
<1>4. Separate(t)
  BY <1>2 DEF Separate
<1>5. WritesAt["SignedToolDef"] = t
  BY <1>1 DEF ReadsAt, WritesAt
<1>6. Size["SignedToolDef"] = 144 /\ Reserved["SignedToolDef"] = 36 .. 39
  BY DEF Size, Reserved
<1>7. ASSUME NEW p \in 0 .. 143 PROVE p \in 36 .. 39 \/ \E f : In(t, f, p)
  <2>1. p \in 36 .. 39 \/ In(t, "tool_id", p) \/ In(t, "schema_hash", p) \/ In(t, "capabilities", p) \/ In(t, "signature", p) \/ In(t, "public_key", p)
    BY <1>2 DEF In
  <2> QED BY <2>1
<1> QED BY <1>1, <1>3, <1>4, <1>5, <1>6, <1>7 DEF Laid

\* Every record is laid out.
LEMMA AllLaid == \A kind \in DOMAIN Size : Laid(kind)
<1>1. DOMAIN Size = {"ToolInvocation", "SignedInvocation", "SignedToolDef"}
  BY DEF Size
<1> QED BY <1>1, ToolInvocationLaid, SignedInvocationLaid, SignedToolDefLaid

\* as_bytes gives back the bytes that from_bytes accepted.
LEMMA WrittenBack ==
    ASSUME NEW kind \in DOMAIN Size, NEW b, FromBytesOk(kind, b), NEW p \in 0 .. Size[kind] - 1
    PROVE  AsBytes(kind, FromBytes(kind, b))[p] = ByteOf(b, p)
<1>1. Laid(kind)
  BY AllLaid
<1>2. PICK t : t = ReadsAt[kind]
  OBVIOUS
<1>3. PICK n \in Nat : n = Size[kind]
  BY <1>1 DEF Laid
<1>4. PICK r : r = FromBytes(kind, b)
  OBVIOUS
<1>5. Tabled(t) /\ Separate(t) /\ WritesAt[kind] = t
  BY <1>1, <1>2 DEF Laid
<1>6. AsBytes(kind, r) = Placing(t, r, n) /\ p \in 0 .. n - 1 /\ p \in Nat
  BY <1>3, <1>5 DEF AsBytes
<1>7. CASE \E f : In(t, f, p)
  <2>1. PICK f : In(t, f, p)
    BY <1>7
  <2>2. Placing(t, r, n)[p] = r[f][p - t[f][1]]
    BY <1>5, <1>6, <2>1, PlacedByte
  <2>3. r[f][p - t[f][1]] = ByteOf(b, p)
    BY <1>2, <1>4, <1>5, <1>6, <2>1, ReadByte
  <2> QED BY <1>4, <1>6, <2>2, <2>3
<1>8. CASE \A f : ~In(t, f, p)
  <2>1. p \in Reserved[kind]
    BY <1>1, <1>2, <1>8 DEF Laid
  <2>2. ByteOf(b, p) = 0
    BY <2>1 DEF FromBytesOk
  <2>3. Placing(t, r, n)[p] = 0
    BY <1>6, <1>8, PlacedNothing
  <2> QED BY <1>4, <1>6, <2>2, <2>3
<1> QED BY <1>7, <1>8

\* The signed bytes hold every field but the signature and its key, whole.
Covered(kind) ==
    LET t == ReadsAt[kind]
        s == SignedAt[kind]
    IN  /\ kind \in DOMAIN Size
        /\ Tabled(s) /\ Separate(s) /\ SIGNED_BYTES_SIZE[kind] \in Nat
        /\ \A f \in DOMAIN t : f \notin {"signature", "public_key"} =>
              f \in DOMAIN s /\ s[f][2] - s[f][1] = t[f][2] - t[f][1] /\ s[f][2] <= SIGNED_BYTES_SIZE[kind]

\* The signed bytes of a SignedInvocation are all outside its seal.
LEMMA SignedInvocationCovered == Covered("SignedInvocation")
<1>1. PICK t, s : t = ReadsAt["SignedInvocation"] /\ s = SignedAt["SignedInvocation"]
  OBVIOUS
<1>2. /\ DOMAIN t = {"tool_id", "nonce", "timestamp", "args_hash", "signature"}
      /\ t["tool_id"] = <<0, 4>>
      /\ t["nonce"] = <<8, 16>>
      /\ t["timestamp"] = <<16, 24>>
      /\ t["args_hash"] = <<24, 56>>
      /\ t["signature"] = <<56, 120>>
  BY <1>1 DEF ReadsAt
<1>3. /\ DOMAIN s = {"tool_id", "nonce", "timestamp", "args_hash"}
      /\ s["tool_id"] = <<0, 4>>
      /\ s["nonce"] = <<4, 12>>
      /\ s["timestamp"] = <<12, 20>>
      /\ s["args_hash"] = <<20, 52>>
  BY <1>1 DEF SignedAt
<1>4. Tabled(s)
  BY <1>3 DEF Tabled
<1>5. Separate(s)
  BY <1>3 DEF Separate
<1>6. SIGNED_BYTES_SIZE["SignedInvocation"] = 52 /\ "SignedInvocation" \in DOMAIN Size
  BY DEF Size, SIGNED_BYTES_SIZE
<1>7. ASSUME NEW f \in DOMAIN t, f \notin {"signature", "public_key"}
      PROVE  f \in DOMAIN s /\ s[f][2] - s[f][1] = t[f][2] - t[f][1] /\ s[f][2] <= 52
  BY <1>2, <1>3, <1>7
<1> QED BY <1>1, <1>4, <1>5, <1>6, <1>7 DEF Covered

\* The signed bytes of a SignedToolDef are all outside its seal.
LEMMA SignedToolDefCovered == Covered("SignedToolDef")
<1>1. PICK t, s : t = ReadsAt["SignedToolDef"] /\ s = SignedAt["SignedToolDef"]
  OBVIOUS
<1>2. /\ DOMAIN t = {"tool_id", "schema_hash", "capabilities", "signature", "public_key"}
      /\ t["tool_id"] = <<0, 4>>
      /\ t["schema_hash"] = <<4, 36>>
      /\ t["capabilities"] = <<40, 48>>
      /\ t["signature"] = <<48, 112>>
      /\ t["public_key"] = <<112, 144>>
  BY <1>1 DEF ReadsAt
<1>3. /\ DOMAIN s = {"tool_id", "schema_hash", "capabilities"}
      /\ s["tool_id"] = <<0, 4>>
      /\ s["schema_hash"] = <<4, 36>>
      /\ s["capabilities"] = <<36, 44>>
  BY <1>1 DEF SignedAt
<1>4. Tabled(s)
  BY <1>3 DEF Tabled
<1>5. Separate(s)
  BY <1>3 DEF Separate
<1>6. SIGNED_BYTES_SIZE["SignedToolDef"] = 44 /\ "SignedToolDef" \in DOMAIN Size
  BY DEF Size, SIGNED_BYTES_SIZE
<1>7. ASSUME NEW f \in DOMAIN t, f \notin {"signature", "public_key"}
      PROVE  f \in DOMAIN s /\ s[f][2] - s[f][1] = t[f][2] - t[f][1] /\ s[f][2] <= 44
  BY <1>2, <1>3, <1>7
<1> QED BY <1>1, <1>4, <1>5, <1>6, <1>7 DEF Covered

\* signed_bytes of SignedInvocation and SignedToolDef: of two records that
\* from_bytes accepts and whose signed bytes are the same, every byte is the
\* same but those of the signature and its key; nothing that is sent
\* under a signature escapes it.
THEOREM SignatureCoversRecord ==
    ASSUME NEW kind \in DOMAIN SignedAt, NEW b, NEW c, FromBytesOk(kind, b), FromBytesOk(kind, c),
           SignedBytes(kind, FromBytes(kind, b)) = SignedBytes(kind, FromBytes(kind, c)),
           NEW p \in 0 .. Size[kind] - 1, p \notin Seal(kind)
    PROVE  ByteOf(b, p) = ByteOf(c, p)
<1>1. Covered(kind) /\ Laid(kind)
  <2>1. DOMAIN SignedAt = {"SignedInvocation", "SignedToolDef"}
    BY DEF SignedAt
  <2>2. Covered(kind)
    BY <2>1, SignedInvocationCovered, SignedToolDefCovered
  <2> QED BY <2>2, AllLaid DEF Covered
<1>2. PICK t, s : t = ReadsAt[kind] /\ s = SignedAt[kind]
  OBVIOUS
<1>3. PICK n \in Nat : n = SIGNED_BYTES_SIZE[kind]
  BY <1>1 DEF Covered
<1>4. Tabled(t) /\ Tabled(s) /\ Separate(s) /\ kind \in DOMAIN Size
  BY <1>1, <1>2 DEF Covered, Laid
<1>5. CASE \A f : ~In(t, f, p)
  <2>1. p \in Reserved[kind]
    BY <1>1, <1>2, <1>5 DEF Laid
  <2> QED BY <2>1 DEF FromBytesOk
<1>6. CASE \E f : In(t, f, p)
  <2>1. PICK f : In(t, f, p)
    BY <1>6
  <2>2. f \in DOMAIN t
    BY <2>1 DEF In
  <2>3. PICK a \in Nat, z \in Nat : a = t[f][1] /\ z = t[f][2]
    BY <1>4, <2>2 DEF Tabled
  <2>4. p \in Nat /\ p >= a /\ p < z
    <3>1. p >= a /\ p < z
      BY <2>1, <2>3 DEF In
    <3>2. Size[kind] \in Nat
      BY <1>1 DEF Laid
    <3> QED BY <3>1, <3>2
  <2>5. f \notin {"signature", "public_key"}
    <3>1. p \in a .. z - 1
      BY <2>4
    <3> QED BY <1>2, <2>2, <2>3, <3>1 DEF Seal
  <2>6. f \in DOMAIN s /\ s[f][2] - s[f][1] = t[f][2] - t[f][1] /\ s[f][2] <= n
    BY <1>1, <1>2, <1>3, <2>2, <2>5 DEF Covered
  <2>7. PICK d \in Nat, e \in Nat : d = s[f][1] /\ e = s[f][2]
    BY <1>4, <2>6 DEF Tabled
  <2>8. e - d = z - a /\ e <= n
    BY <2>3, <2>6, <2>7
  <2>9. PICK q \in Nat : q = d + (p - a)
    BY <2>4
  <2>10. q \in 0 .. n - 1 /\ q >= d /\ q < e /\ q - d = p - a
    BY <2>4, <2>8, <2>9
  <2>11. In(s, f, q)
    BY <2>6, <2>7, <2>10 DEF In
  <2>12. ASSUME NEW r PROVE SignedBytes(kind, r)[q] = r[f][p - a]
    <3>1. Placing(s, r, n)[q] = r[f][q - s[f][1]]
      BY <1>4, <2>10, <2>11, PlacedByte
    <3> QED BY <1>2, <1>3, <2>7, <2>10, <3>1 DEF SignedBytes
  <2>13. ASSUME NEW x PROVE FromBytes(kind, x)[f][p - a] = ByteOf(x, p)
    BY <1>2, <1>4, <2>1, <2>3, <2>4, ReadByte
  <2> QED BY <2>12, <2>13
<1> QED BY <1>5, <1>6

\* No flag is lost between the envelope and its parts.
LEMMA FlagsKept == \A flags \in KNOWN_FLAG_BITS : ToU8(ExtractFlags(flags)) = flags
<1>1. SUFFICES ASSUME NEW flags \in 0 .. 7 PROVE ToU8(ExtractFlags(flags)) = flags
  BY DEF KNOWN_FLAG_BITS
<1>2. PICK x : x = ExtractFlags(flags)
  OBVIOUS
<1>3. /\ x.streaming = (flags % 2 = 1) /\ x.compressed = ((flags \div 2) % 2 = 1)
      /\ x.signed = ((flags \div 4) % 2 = 1)
  BY <1>2, Zenon DEF ExtractFlags
<1>4. ToU8(x) = (IF flags % 2 = 1 THEN 1 ELSE 0) + (IF (flags \div 2) % 2 = 1 THEN 2 ELSE 0)
                    + (IF (flags \div 4) % 2 = 1 THEN 4 ELSE 0)
  BY <1>3, Zenon DEF ToU8
<1>5. ToU8(x) = flags
  <2>1. CASE flags \in {0, 1, 2, 3}
    BY <1>4, <2>1
  <2>2. CASE flags \in {4, 5, 6, 7}
    BY <1>4, <2>2
  <2> QED BY <2>1, <2>2
<1> QED BY <1>2, <1>5

\* What was accepted is as RecordsCanonical says.
RecordsInv == input \in Inputs \cup MessageInputs /\ RecordsCanonical

\* Every decoding.
LEMMA RecordsStep == RecordsInv /\ [Decoding]_recordVars => RecordsInv'
<1> SUFFICES ASSUME RecordsInv, [Decoding]_recordVars PROVE RecordsInv'
  OBVIOUS
<1>0. input \in Inputs \cup MessageInputs
  BY DEF RecordsInv
<1>1. CASE UNCHANGED recordVars
  <2>1. input' = input /\ decoded' = decoded
    BY <1>1 DEF recordVars
  <2> QED BY <2>1 DEF RecordsInv, RecordsCanonical, IsMessageInput
<1>2. CASE Decoding
  <2>1. input' = input
    BY <1>2 DEF Decoding
  <2>2. CASE IsMessageInput
    <3>1. decoded' = <<ParseMessage(input)>>
      BY <1>2, <2>2 DEF Decoding
    <3>2. input.len \in Nat /\ input.payload_len \in Nat
      BY <1>0, <2>2, RecordsAssumption DEF IsMessageInput
    <3>3. ASSUME ParseMessage(input) = "ok"
          PROVE  input.flags \in KNOWN_FLAG_BITS /\ input.len = EnvelopeSize + input.payload_len
      BY <3>3 DEF ParseMessage
    <3>4. ASSUME ParseMessage(input) = "ok"
          PROVE  ToU8(ExtractFlags(input.flags)) = input.flags /\ input.len - EnvelopeSize = input.payload_len
      BY <3>2, <3>3, <3>4, FlagsKept DEF EnvelopeSize
    <3>5. decoded'[1] = ParseMessage(input) /\ IsMessageInput'
      BY <2>1, <2>2, <3>1 DEF IsMessageInput
    <3> QED BY <1>0, <2>1, <3>4, <3>5 DEF RecordsInv, RecordsCanonical
  <2>3. CASE ~IsMessageInput
    <3>1. PICK kind, b : kind = input.kind /\ b = input.bytes
      OBVIOUS
    <3>2. decoded' = IF FromBytesOk(kind, b) THEN <<"ok", FromBytes(kind, b)>> ELSE <<"error">>
      BY <1>2, <2>3, <3>1 DEF Decoding
    <3>3. input \in Inputs
      BY <1>0, <2>3, RecordsAssumption DEF IsMessageInput
    <3>4. kind \in DOMAIN Size /\ \A p \in DOMAIN b.set : p \in Nat /\ b.set[p] # 0
      BY <3>1, <3>3, RecordsAssumption
    <3>5. SUFFICES ASSUME decoded'[1] = "ok"
                   PROVE  /\ \A p \in 0 .. Size[kind] - 1 : AsBytes(kind, decoded'[2])[p] = ByteOf(b, p)
                          /\ ({p \in DOMAIN b.set : p < Size[kind] /\ p \notin Seal(kind)} # {}
                                  /\ kind \in DOMAIN SignedAt) =>
                                 SignedBytes(kind, decoded'[2]) # SignedBytes(kind, Zero(kind))
      BY <1>0, <2>1, <2>3, <3>1 DEF RecordsInv, RecordsCanonical, IsMessageInput
    <3>6. FromBytesOk(kind, b) /\ decoded'[2] = FromBytes(kind, b)
      BY <3>2, <3>5
    <3>7. \A p \in 0 .. Size[kind] - 1 : AsBytes(kind, decoded'[2])[p] = ByteOf(b, p)
      BY <3>4, <3>6, WrittenBack
    <3>8. ASSUME NEW p \in DOMAIN b.set, p < Size[kind], p \notin Seal(kind), kind \in DOMAIN SignedAt,
                 SignedBytes(kind, FromBytes(kind, b)) = SignedBytes(kind, Zero(kind))
          PROVE  FALSE
      <4>1. PICK c : c = [len |-> Size[kind], set |-> <<>>]
        OBVIOUS
      <4>2. c.len = Size[kind] /\ \A q : ByteOf(c, q) = 0
        BY <4>1 DEF ByteOf
      <4>3. FromBytesOk(kind, c)
        BY <4>2 DEF FromBytesOk
      <4>4. SignedBytes(kind, FromBytes(kind, b)) = SignedBytes(kind, FromBytes(kind, c))
        BY <3>8, <4>1 DEF Zero
      <4>5. p \in 0 .. Size[kind] - 1
        <5>1. p \in Nat /\ Size[kind] \in Nat
          BY <3>4, AllLaid DEF Laid
        <5> QED BY <3>8, <5>1
      <4>6. ByteOf(b, p) = ByteOf(c, p)
        BY <3>6, <3>8, <4>3, <4>4, <4>5, SignatureCoversRecord
      <4>7. ByteOf(b, p) # 0
        BY <3>4, <3>8 DEF ByteOf
      <4> QED BY <4>2, <4>6, <4>7
    <3> QED BY <3>6, <3>7, <3>8
  <2> QED BY <2>2, <2>3
<1> QED BY <1>1, <1>2

\* from_bytes, as_bytes and signed_bytes of src/src/binary/ and
\* MessageParser::parse: of any input, what is accepted is written back byte for
\* byte, is told apart by its signature, and loses no flag.
THEOREM RecordsStayCanonical == RecordsSpec => []RecordsCanonical
<1>1. RecordsInit => RecordsInv
  BY DEF RecordsInit, RecordsInv, RecordsCanonical
<1>2. RecordsInv /\ [Decoding]_recordVars => RecordsInv'
  BY RecordsStep
<1>3. RecordsInv => RecordsCanonical
  BY DEF RecordsInv
<1> QED BY <1>1, <1>2, <1>3, PTL DEF RecordsSpec
=============================================================================
