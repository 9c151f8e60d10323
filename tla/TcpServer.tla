----------------------------- MODULE TcpServer -----------------------------
(***************************************************************************)
(* TcpServer (src/src/transport/tcp.rs): the accept loop of run(), the     *)
(* tasks it spawns for its connections, the semaphore that limits them and *)
(* shutdown(), which runs in tasks of its own.                             *)
(*                                                                         *)
(* Clients and the ConnectionHandler are external: a client may connect,   *)
(* send, close or stay silent, and a handler may end or go on for ever.    *)
(***************************************************************************)
EXTENDS Naturals, FiniteSets

CONSTANTS
    MaxConnections,  \* config.max_connections
    MaxAttempts,     \* bound: clients that connect
    Stoppers         \* tasks that call shutdown(), once each

ASSUME ServerAssumption == MaxConnections \in Nat /\ MaxAttempts \in Nat

VARIABLES
    running,      \* TcpServer.running
    permits,      \* permits left in connection_semaphore
    connections,  \* TcpServer.connections: ids in the map
    next_id,      \* connection_counter
    loop,         \* progress of run()
    signalled,    \* run()'s receiver holds the shutdown message
    attempts,     \* clients that have connected
    task,         \* progress of the task of each connection
    stop,         \* progress of each shutdown() call
    overdue,      \* shutdown() calls whose deadline has passed
    before,       \* history: connections in the map when each call began
    cleared       \* history: a call has cleared the map by force

tcpVars == <<running, permits, connections, next_id, loop, signalled, attempts, task,
          stop, overdue, before, cleared>>

loopVars == <<running, loop, signalled, attempts, next_id>>
stopVars == <<stop, overdue, before, cleared>>

ConnIds    == 1 .. MaxAttempts
LoopStates == {"off", "subscribe", "select", "register", "stop"}
TaskStates == {"none", "reading", "handling", "remove", "release", "done"}
StopStates == {"idle", "poll", "clear", "drained", "forced"}

TcpInit ==
    /\ running = FALSE
    /\ permits = MaxConnections
    /\ connections = {}
    /\ next_id = 1
    /\ loop = "off"
    /\ signalled = FALSE
    /\ attempts = 0
    /\ task = [c \in ConnIds |-> "none"]
    /\ stop = [s \in Stoppers |-> "idle"]
    /\ overdue = {}
    /\ before = [s \in Stoppers |-> {}]
    /\ cleared = FALSE

----------------------------------------------------------------------------
(* run() *)

\* bind succeeds, running is stored; nothing is subscribed yet.
RunBind ==
    /\ loop = "off"
    /\ running' = TRUE
    /\ loop' = "subscribe"
    /\ UNCHANGED <<permits, connections, next_id, signalled, attempts, task, stopVars>>

\* A new receiver sees only messages sent from now on.
RunSubscribe ==
    /\ loop = "subscribe"
    /\ signalled' = FALSE
    /\ loop' = "select"
    /\ UNCHANGED <<running, permits, connections, next_id, attempts, task, stopVars>>

\* A client connects; select! may take this branch although the signal is
\* there.  Without a permit the stream is dropped and the loop goes on.
RunAccept ==
    /\ loop = "select"
    /\ attempts < MaxAttempts
    /\ attempts' = attempts + 1
    /\ \/ permits > 0 /\ permits' = permits - 1 /\ loop' = "register"
       \/ permits = 0 /\ UNCHANGED <<permits, loop>>
    /\ UNCHANGED <<running, connections, next_id, signalled, task, stopVars>>

\* register_connection, then the task is spawned.
RunRegister ==
    /\ loop = "register"
    /\ next_id' = next_id + 1
    /\ connections' = connections \cup {next_id}
    /\ task' = [task EXCEPT ![next_id] = "reading"]
    /\ loop' = "select"
    /\ UNCHANGED <<running, permits, signalled, attempts, stopVars>>

RunBreak ==
    /\ loop = "select"
    /\ signalled
    /\ loop' = "stop"
    /\ UNCHANGED <<running, permits, connections, next_id, signalled, attempts, task, stopVars>>

\* running is stored and the receiver is dropped.
RunReturn ==
    /\ loop = "stop"
    /\ running' = FALSE
    /\ signalled' = FALSE
    /\ loop' = "off"
    /\ UNCHANGED <<permits, connections, next_id, attempts, task, stopVars>>

----------------------------------------------------------------------------
(* The task of a connection *)

Task(c, from, to) ==
    /\ task[c] = from
    /\ task' = [task EXCEPT ![c] = to]
    /\ UNCHANGED <<loopVars, stopVars>>

\* handle_connection: the first read brings data, or end of file, an error or
\* the connection timeout ends the connection.
TaskFirstRead(c) ==
    /\ \/ Task(c, "reading", "handling")
       \/ Task(c, "reading", "remove")
    /\ UNCHANGED <<permits, connections>>

\* handler.handle returns, with or without an error.
TaskHandled(c) == Task(c, "handling", "remove") /\ UNCHANGED <<permits, connections>>

TaskRemove(c) ==
    /\ Task(c, "remove", "release")
    /\ connections' = connections \ {c}
    /\ UNCHANGED permits

\* Mutant: the permit was not moved into the task.
TaskReleaseKeeps(c) ==
    /\ Task(c, "release", "done")
    /\ UNCHANGED <<permits, connections>>

\* The task ends and drops its permit.
TaskRelease(c) ==
    /\ Task(c, "release", "done")
    /\ permits' = permits + 1
    /\ UNCHANGED connections

----------------------------------------------------------------------------
(* shutdown(timeout) *)

\* shutdown_tx.send: heard only if run() has subscribed.
StopSend(s) ==
    /\ stop[s] = "idle"
    /\ signalled' = (signalled \/ loop \in {"select", "register"})
    /\ stop' = [stop EXCEPT ![s] = "poll"]
    /\ before' = [before EXCEPT ![s] = connections]
    /\ UNCHANGED <<running, permits, connections, next_id, loop, attempts, task, overdue, cleared>>

\* Mutant: the call returns as soon as the loop has been told.
StopPollNever(s) ==
    /\ stop[s] = "poll"
    /\ stop' = [stop EXCEPT ![s] = "drained"]
    /\ UNCHANGED <<loopVars, permits, connections, task, overdue, before, cleared>>

\* Mutant: the deadline is never compared.
StopPollForever(s) ==
    /\ stop[s] = "poll"
    /\ connections = {}
    /\ stop' = [stop EXCEPT ![s] = "drained"]
    /\ UNCHANGED <<loopVars, permits, connections, task, overdue, before, cleared>>

\* One turn of the loop: connection_count() > 0, then the deadline.
StopPoll(s) ==
    /\ stop[s] = "poll"
    /\ \/ connections = {} /\ stop' = [stop EXCEPT ![s] = "drained"]
       \/ connections # {} /\ s \in overdue /\ stop' = [stop EXCEPT ![s] = "clear"]
    /\ UNCHANGED <<loopVars, permits, connections, task, overdue, before, cleared>>

StopClear(s) ==
    /\ stop[s] = "clear"
    /\ connections' = {}
    /\ cleared' = TRUE
    /\ stop' = [stop EXCEPT ![s] = "forced"]
    /\ UNCHANGED <<loopVars, permits, task, overdue, before>>

\* Instant::now() > deadline becomes true and stays true.
StopDeadline(s) ==
    /\ stop[s] = "poll" /\ s \notin overdue
    /\ overdue' = overdue \cup {s}
    /\ UNCHANGED <<loopVars, permits, connections, task, stop, before, cleared>>

----------------------------------------------------------------------------

LoopStep == RunBind \/ RunSubscribe \/ RunAccept \/ RunRegister \/ RunBreak \/ RunReturn

ConnectionStep(c) == TaskFirstRead(c) \/ TaskHandled(c) \/ TaskRemove(c) \/ TaskRelease(c)

StopStep(s) == StopSend(s) \/ StopPoll(s) \/ StopClear(s) \/ StopDeadline(s)

TcpNext ==
    \/ LoopStep
    \/ \E c \in ConnIds : ConnectionStep(c)
    \/ \E s \in Stoppers : StopStep(s)

TcpSpec == TcpInit /\ [][TcpNext]_tcpVars

(***************************************************************************)
(* Fairness: tasks that can run do; the first read has a timeout; clocks   *)
(* advance; select! polls its branches in random order, so the shutdown    *)
(* branch is not passed over for ever (strong fairness of RunBreak).       *)
(* Nothing is assumed of a handler, and nobody has to call shutdown().     *)
(***************************************************************************)
TcpFairness ==
    /\ WF_tcpVars(RunSubscribe \/ RunRegister \/ RunReturn)
    /\ SF_tcpVars(RunBreak)
    /\ \A c \in ConnIds : WF_tcpVars(TaskFirstRead(c) \/ TaskRemove(c) \/ TaskRelease(c))
    /\ \A s \in Stoppers : WF_tcpVars(StopPoll(s) \/ StopClear(s)) /\ WF_tcpVars(StopDeadline(s))

TcpFairSpec == TcpSpec /\ TcpFairness

----------------------------------------------------------------------------
(* Properties *)

TcpTypeOK ==
    /\ running \in BOOLEAN
    /\ permits \in 0 .. MaxConnections
    /\ connections \subseteq ConnIds
    /\ next_id \in 1 .. (MaxAttempts + 1)
    /\ loop \in LoopStates
    /\ signalled \in BOOLEAN
    /\ attempts \in 0 .. MaxAttempts
    /\ task \in [ConnIds -> TaskStates]
    /\ stop \in [Stoppers -> StopStates]
    /\ overdue \subseteq Stoppers
    /\ before \in [Stoppers -> SUBSET ConnIds]
    /\ cleared \in BOOLEAN

\* Tasks that hold a permit; tasks that have not left the map.
Live  == {c \in ConnIds : task[c] \in {"reading", "handling", "remove", "release"}}
InMap == {c \in ConnIds : task[c] \in {"reading", "handling", "remove"}}

Registering == IF loop = "register" THEN 1 ELSE 0

\* Every permit is in the semaphore, with the connection being registered or
\* with exactly one live task, whatever ends the connection and even when
\* shutdown() has emptied the map: no slot leaks and none is given back twice.
PermitsExact ==
    permits + Cardinality(Live) + Registering = MaxConnections

\* The map that shutdown() counts is the set of connections being served,
\* until a shutdown() empties it by force; even then it never names a
\* connection that has ended.
MapExact ==
    /\ connections \subseteq InMap
    /\ ~cleared => connections = InMap

\* As long as no shutdown() has emptied the map by force, one that returns
\* without force has seen every connection that was in the map when it was
\* called served to its end, although new ones may come and go.
DrainedBefore ==
    \A s \in Stoppers : stop[s] = "drained" /\ ~cleared =>
        \A c \in before[s] : task[c] \in {"release", "done"}

\* shutdown() returns, drained or forced, although a handler never ends; and a
\* loop that has been told to stop stops, the signal not being lost when
\* clients connect at the same time.
ShutdownReturns ==
    /\ \A s \in Stoppers : stop[s] = "poll" ~> stop[s] \in {"drained", "forced"}
    /\ signalled ~> (loop = "off" /\ ~running)
=============================================================================
