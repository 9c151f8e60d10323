------------------------------ MODULE MCTasks ------------------------------
(* Four objects that tasks share: the session table, the pipelined client, *)
(* the MCP adapter and the connections of a TCP server.  They have no      *)
(* state in common: a behaviour is about one of them.                      *)
EXTENDS SessionTable, PipelinedClient, MCMcpAdapter, TcpServer

VARIABLE shared

TasksInit ==
    /\ shared \in {"sessions", "client", "adapter", "connections"}
    /\ SessionInit /\ PipeInit /\ Init /\ TcpInit

TasksNext ==
    /\ UNCHANGED shared
    /\ \/ shared = "sessions" /\ SessionNext /\ UNCHANGED <<pipeVars, vars, tcpVars>>
       \/ shared = "client" /\ PipeNext /\ UNCHANGED <<tableVars, vars, tcpVars>>
       \/ shared = "adapter" /\ Next /\ UNCHANGED <<tableVars, pipeVars, tcpVars>>
       \/ shared = "connections" /\ TcpNext /\ UNCHANGED <<tableVars, pipeVars, vars>>

\* The bounds of the adapter are spent in two ways: five messages and one step
\* of the application, or four messages and two.
MessagesOrChanges == received + changes <= 6

TasksSpec == TasksInit /\ [][TasksNext]_<<tableVars, pipeVars, vars, tcpVars, shared>>
=============================================================================
