---------------------------- MODULE MCMultiplex ----------------------------
(* Small instances of MultiplexConn for TLC.                                *)
EXTENDS MultiplexConn, TLC

\* The tasks that share the connection are interchangeable.
TaskSymmetry == Permutations(Tasks)

\* Every frame that passes validation, and one malformed frame for them all;
\* ACK changes nothing, so one frame with it is enough.
AllInbound ==
    {h \in Headers : ValidFrame(h) /\ ("ACK" \in h.flags => h.flags = {"ACK"})}
        \cup {[id |-> 1, flags |-> {"FIN", "RST"}, len |-> 0, ok |-> TRUE]}

\* One frame of each kind that makes process_frame take a lock.
OneOfEach == [id : {1}, flags : {{"SYN"}, {"RST"}, {"FIN"}}, len : {0}, ok : {TRUE}]
                 \cup [id : {1}, flags : {{}}, len : PayloadLens, ok : {TRUE}]

\* A peer that opens streams, sends on them and finishes them.
PeerSends == {h \in AllInbound : "RST" \notin h.flags}
=============================================================================
