----------------------------- MODULE MCShutdown -----------------------------
(* The two graceful shutdowns, that of the coordinator and that of the TCP *)
(* server.  They have no state in common: a behaviour is about one of them *)
(* and leaves the other in its initial state, in which nothing is owed to  *)
(* its fairness conditions.                                                *)
EXTENDS ShutdownCoordinator, TcpServer

VARIABLE part

partVars == <<vars, tcpVars, part>>

PartsInit == part \in {"coordinator", "server"} /\ Init /\ TcpInit

PartsNext ==
    /\ UNCHANGED part
    /\ \/ part = "coordinator" /\ Next /\ UNCHANGED tcpVars
       \/ part = "server" /\ TcpNext /\ UNCHANGED vars

PartsSpec == PartsInit /\ [][PartsNext]_partVars /\ Fairness /\ TcpFairness
=============================================================================
