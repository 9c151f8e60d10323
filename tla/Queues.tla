------------------------------- MODULE Queues -------------------------------
(***************************************************************************)
(* What the code's queues have in common.  Both operators are recursive    *)
(* functions over the sequence, which the proofs can expand, where         *)
(* SelectSeq and the folds cannot be.                                      *)
(***************************************************************************)
EXTENDS Naturals, Sequences

\* Vec::retain and VecDeque::retain, as the connection's send queue, the lists
\* of subscriptions and roots and the replay of SSE events use it: s without
\* its elements that are in S, in their order.
Without(s, S) ==
    LET kept[n \in 0 .. Len(s)] ==
            IF n = 0 THEN <<>>
            ELSE IF s[n] \in S THEN kept[n - 1] ELSE Append(kept[n - 1], s[n])
    IN  kept[Len(s)]

\* The fold that adds up the sizes in a queue (saturating at the width of usize,
\* which no queue in memory reaches).
Total(s) ==
    LET sum[n \in 0 .. Len(s)] == IF n = 0 THEN 0 ELSE sum[n - 1] + s[n]
    IN  sum[Len(s)]
=============================================================================
