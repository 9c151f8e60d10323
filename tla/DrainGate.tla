----------------------------- MODULE DrainGate -----------------------------
(***************************************************************************)
(* What graceful shutdown promises, without counters or interleavings: a   *)
(* gate that closes once and for good, work that enters only through the   *)
(* open gate, and a verdict "drained" given only when the gate is closed   *)
(* and nothing is inside.                                                  *)
(***************************************************************************)
CONSTANT Requests

VARIABLES
    gateClosed,  \* no more work is admitted
    inside,      \* requests admitted and not finished
    drained      \* the verdict has been given

gateVars == <<gateClosed, inside, drained>>

Init == gateClosed = FALSE /\ inside = {} /\ drained = FALSE

Enter(r) ==
    /\ ~gateClosed
    /\ inside' = inside \cup {r}
    /\ UNCHANGED <<gateClosed, drained>>

Leave(r) ==
    /\ r \in inside
    /\ inside' = inside \ {r}
    /\ UNCHANGED <<gateClosed, drained>>

CloseGate ==
    /\ gateClosed' = TRUE
    /\ UNCHANGED <<inside, drained>>

DeclareDrained ==
    /\ gateClosed /\ inside = {}
    /\ drained' = TRUE
    /\ UNCHANGED <<gateClosed, inside>>

Next ==
    \/ \E r \in Requests : Enter(r) \/ Leave(r)
    \/ CloseGate
    \/ DeclareDrained

Spec == Init /\ [][Next]_gateVars
=============================================================================
