--------------------------- MODULE Subscriptions ---------------------------
(***************************************************************************)
(* Who is told of a change.  ResourceRegistry (src/src/resource/mod.rs)    *)
(* keeps the ids of a resource's subscriptions and the callbacks of the    *)
(* ids in two tables with a lock each; SubscriptionTracker                 *)
(* (src/src/compat/mcp2025.rs) keeps the subscribers of each resource up   *)
(* to a limit; RootsRegistry (same file) signals on a broadcast channel    *)
(* that its list has changed.                                              *)
(*                                                                         *)
(* The future of subscribe() or unsubscribe() may be dropped where it      *)
(* waits for the second lock.                                              *)
(***************************************************************************)
EXTENDS Naturals, Sequences, FiniteSets, Queues

CONSTANTS
    Callers,          \* tasks that subscribe and unsubscribe
    Notifiers,        \* tasks that call notify_change
    Resources,        \* uris
    SubscribableUris, \* uris with a handler that supports subscriptions
    Subscribers, MaxSubscribers,   \* SubscriptionTracker and its limit
    RootUris,         \* roots the application may configure
    SignalCapacity,   \* capacity of the roots' broadcast channel, 16 in the code
    MaxSubscriptions, MaxRootChanges   \* bounds

ASSUME SubscriptionAssumption ==
    MaxSubscribers \in Nat /\ SignalCapacity \in Nat /\ "none" \notin RootUris

VARIABLES
    counter,          \* subscription_counter
    subs,             \* uri -> sequence of subscription ids
    callbacks,        \* ids with a callback
    spc, sid, suri,   \* caller -> progress, its id, its uri
    npc, ncalls,      \* notifier -> progress and the callbacks left to call
    tracker,          \* uri -> its subscribers
    roots, signals,   \* the list of roots; signals the listener has not read
    lagged,           \* the listener has lost signals since it last read
    rpc_roots,        \* the root whose addition is not signalled yet, or "none"
    view,             \* the list the listener read last
    changes           \* history: changes of the roots

subscribeVars == <<counter, subs, callbacks, spc, sid, suri, npc, ncalls>>
trackerVars   == <<tracker>>
rootVars      == <<roots, signals, lagged, rpc_roots, view, changes>>
subscriptionVars == <<subscribeVars, trackerVars, rootVars>>

SubscriptionInit ==
    /\ counter = 1 /\ subs = [u \in Resources |-> <<>>] /\ callbacks = {}
    /\ spc = [c \in Callers |-> "idle"] /\ sid = [c \in Callers |-> 0]
    /\ suri \in [Callers -> Resources]
    /\ npc = [n \in Notifiers |-> "idle"] /\ ncalls = [n \in Notifiers |-> {}]
    /\ tracker = [u \in Resources |-> {}]
    /\ roots = <<>> /\ signals = 0 /\ lagged = FALSE /\ rpc_roots = "none"
    /\ view = <<>> /\ changes = 0

----------------------------------------------------------------------------
(* ResourceRegistry *)

Elements(s) == {s[i] : i \in DOMAIN s}
CallerTo(c, from, to) == spc[c] = from /\ spc' = [spc EXCEPT ![c] = to]

\* subscribe(): the handler is looked up, an id is taken ...
SubscribeId(c) ==
    /\ counter <= MaxSubscriptions      \* bound
    /\ \/ /\ suri[c] \in SubscribableUris /\ CallerTo(c, "idle", "list")
          /\ sid' = [sid EXCEPT ![c] = counter] /\ counter' = counter + 1
       \/ suri[c] \notin SubscribableUris /\ CallerTo(c, "idle", "refused") /\ UNCHANGED <<sid, counter>>
    /\ UNCHANGED <<subs, callbacks, suri, npc, ncalls>>

\* Mutant: the callback is stored before the id is listed.
SubscribeListCallback(c) ==
    /\ CallerTo(c, "list", "store")
    /\ callbacks' = callbacks \cup {sid[c]}
    /\ UNCHANGED <<counter, subs, sid, suri, npc, ncalls>>

\* ... listed under the uri ...
SubscribeList(c) ==
    /\ CallerTo(c, "list", "store")
    /\ subs' = [subs EXCEPT ![suri[c]] = Append(@, sid[c])]
    /\ UNCHANGED <<counter, callbacks, sid, suri, npc, ncalls>>

\* ... and given its callback.
SubscribeStore(c) ==
    /\ CallerTo(c, "store", "subscribed")
    /\ callbacks' = callbacks \cup {sid[c]}
    /\ UNCHANGED <<counter, subs, sid, suri, npc, ncalls>>

\* unsubscribe(): first the callback, then the id, wherever it is listed.
UnsubscribeCallback(c) ==
    /\ CallerTo(c, "subscribed", "unlist")
    /\ callbacks' = callbacks \ {sid[c]}
    /\ UNCHANGED <<counter, subs, sid, suri, npc, ncalls>>

UnsubscribeList(c) ==
    /\ CallerTo(c, "unlist", "idle")
    /\ subs' = [u \in Resources |-> Without(subs[u], {sid[c]})]
    /\ sid' = [sid EXCEPT ![c] = 0]
    /\ UNCHANGED <<counter, callbacks, suri, npc, ncalls>>

\* The future is dropped where it waits for a table.
DropCall(c) ==
    /\ CallerTo(c, "list", "idle") \/ CallerTo(c, "store", "idle") \/ CallerTo(c, "unlist", "idle")
    /\ sid' = [sid EXCEPT ![c] = 0]
    /\ UNCHANGED <<counter, subs, callbacks, suri, npc, ncalls>>

\* notify_change: the callbacks are collected under both locks ...
NotifyCollect(n, u) ==
    /\ npc[n] = "idle" /\ npc' = [npc EXCEPT ![n] = "calling"]
    /\ ncalls' = [ncalls EXCEPT ![n] = Elements(subs[u]) \cap callbacks]
    /\ UNCHANGED <<counter, subs, callbacks, spc, sid, suri>>

\* ... and called one by one without them.
NotifyCall(n) ==
    /\ npc[n] = "calling"
    /\ \/ \E i \in ncalls[n] : ncalls' = [ncalls EXCEPT ![n] = @ \ {i}] /\ UNCHANGED npc
       \/ ncalls[n] = {} /\ npc' = [npc EXCEPT ![n] = "idle"] /\ UNCHANGED ncalls
    /\ UNCHANGED <<counter, subs, callbacks, spc, sid, suri>>

SubscribeNext ==
    \/ \E c \in Callers : \/ SubscribeId(c) \/ SubscribeList(c) \/ SubscribeStore(c)
                          \/ UnsubscribeCallback(c) \/ UnsubscribeList(c) \/ DropCall(c)
    \/ \E n \in Notifiers : NotifyCall(n) \/ \E u \in Resources : NotifyCollect(n, u)

----------------------------------------------------------------------------
(* SubscriptionTracker; each method holds the table *)

\* subscribe(): true for who is in already, false at the limit.
Track(u, s) ==
    /\ \/ s \in tracker[u] /\ UNCHANGED tracker
       \/ /\ s \notin tracker[u] /\ Cardinality(tracker[u]) < MaxSubscribers
          /\ tracker' = [tracker EXCEPT ![u] = @ \cup {s}]
       \/ /\ s \notin tracker[u] /\ Cardinality(tracker[u]) >= MaxSubscribers
          /\ UNCHANGED tracker

Untrack(u, s) == tracker' = [tracker EXCEPT ![u] = @ \ {s}]

ClearTracker == tracker' = [u \in Resources |-> {}]

TrackerNext == ClearTracker \/ \E u \in Resources, s \in Subscribers : Track(u, s) \/ Untrack(u, s)

----------------------------------------------------------------------------
(* RootsRegistry and a listener that lists the roots after every signal *)

\* broadcast::Sender::send: a full channel loses its oldest signal, and the
\* receiver learns that it lagged.
Signal == /\ signals' = IF signals < SignalCapacity THEN signals + 1 ELSE signals
          /\ lagged' = (lagged \/ signals >= SignalCapacity)

NoSignal == UNCHANGED <<signals, lagged>>

\* add_root changes the list and signals after it has given up the lock ...
AddRoot(r) ==
    /\ rpc_roots = "none" /\ changes < MaxRootChanges       \* bound
    /\ roots' = Append(roots, r) /\ changes' = changes + 1
    /\ rpc_roots' = r
    /\ NoSignal /\ UNCHANGED view

AddRootSignal ==
    /\ rpc_roots # "none" /\ rpc_roots' = "none"
    /\ Signal /\ UNCHANGED <<roots, view, changes>>

\* ... remove_root and clear signal under it, and only if something changed.
RemoveRoot(r) ==
    /\ changes < MaxRootChanges /\ changes' = changes + 1
    /\ roots' = Without(roots, {r})
    /\ \/ Len(roots') < Len(roots) /\ Signal
       \/ Len(roots') = Len(roots) /\ NoSignal
    /\ UNCHANGED <<rpc_roots, view>>

\* Mutant: clear() does not signal.
ClearRootsSilently ==
    /\ changes < MaxRootChanges /\ changes' = changes + 1
    /\ roots' = <<>>
    /\ NoSignal /\ UNCHANGED <<rpc_roots, view>>

ClearRoots ==
    /\ changes < MaxRootChanges /\ changes' = changes + 1
    /\ roots' = <<>>
    /\ \/ roots # <<>> /\ Signal
       \/ roots = <<>> /\ NoSignal
    /\ UNCHANGED <<rpc_roots, view>>

\* The listener receives a signal, or the news that some were lost, and lists.
Listen ==
    /\ signals > 0 \/ lagged
    /\ \/ lagged /\ lagged' = FALSE /\ UNCHANGED signals
       \/ ~lagged /\ signals' = signals - 1 /\ UNCHANGED lagged
    /\ view' = roots
    /\ UNCHANGED <<roots, rpc_roots, changes>>

RootsNext == AddRootSignal \/ ClearRoots \/ Listen \/ \E r \in RootUris : AddRoot(r) \/ RemoveRoot(r)

----------------------------------------------------------------------------
(* Properties *)

\* A callback that is stored is always listed, whatever calls are under way
\* or were dropped half way; so a change that is announced after subscribe()
\* has returned and before unsubscribe() was called reaches the subscriber.
\* Nobody is called twice for one change, nor under another's uri; and the
\* tracker holds no more subscribers of a resource than its limit.
SubscribedIsNotified ==
    /\ callbacks \subseteq UNION {Elements(subs[u]) : u \in Resources}
    /\ \A c \in Callers : spc[c] = "subscribed" =>
         /\ sid[c] \in callbacks
         /\ Cardinality({i \in DOMAIN subs[suri[c]] : subs[suri[c]][i] = sid[c]}) = 1
         /\ \A u \in Resources : sid[c] \in Elements(subs[u]) => u = suri[c]
    /\ \A u \in Resources : Cardinality(tracker[u]) <= MaxSubscribers

\* A listener that lists the roots after every signal ends up with the list in
\* force: no change escapes it, even when the channel overflowed.
RootsViewFresh == signals = 0 /\ ~lagged /\ rpc_roots = "none" => view = roots
=============================================================================
