--------------------------- MODULE MessageChannel ---------------------------
(***************************************************************************)
(* What a stream of bytes that carries messages promises, without bytes,   *)
(* positions or buffers: what is given to it is handed out in that order,  *)
(* whole and once, and nothing handed out or given is taken back.  A       *)
(* channel may break for good; then it promises nothing more.              *)
(***************************************************************************)
EXTENDS Naturals, Sequences

VARIABLES
    given,    \* the messages accepted
    taken,    \* the messages handed out
    broken

channelVars == <<given, taken, broken>>

Init == given = <<>> /\ taken = <<>> /\ broken = FALSE

Give ==
    /\ ~broken
    /\ Len(given') = Len(given) + 1
    /\ given' = Append(given, given'[Len(given')])
    /\ UNCHANGED <<taken, broken>>

Take ==
    /\ ~broken
    /\ Len(taken) < Len(given)
    /\ taken' = Append(taken, given[Len(taken) + 1])
    /\ UNCHANGED <<given, broken>>

Break ==
    /\ broken' = TRUE
    /\ given' = <<>> /\ taken' = <<>>

Next == Give \/ Take \/ Break

Spec == Init /\ [][Next]_channelVars
=============================================================================
