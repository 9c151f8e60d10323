----------------------------- MODULE MCPipeline -----------------------------
(* Small instances of PipelinedClient for TLC.                              *)
EXTENDS PipelinedClient, TLC

\* The tasks that share the client are interchangeable.
TaskSymmetry == Permutations(ClientTasks)
=============================================================================
