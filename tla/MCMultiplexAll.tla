--------------------------- MODULE MCMultiplexAll ---------------------------
(* All methods of MultiplexConn that change something, at once.             *)
EXTENDS MCMultiplex

During(op) == \E t \in Tasks : loc[t].op = op

\* Nothing is being sent and no payload is in the send buffer or was queued.
NothingOut == ~During("send") /\ \A o \in Objects : obj[o].sendbuf = <<>> /\ obj[o].data = <<>>

\* Nothing is being received and no payload is in the receive buffer.
NothingIn ==
    /\ ~During("recv")
    /\ \A t \in Tasks : loc[t].op = "in_data" => loc[t].len = 0
    /\ \A o \in Objects : obj[o].bytes = 0

\* The bounds are spent in three ways: two streams, opened and accepted around
\* the wrap of the stream id, without payloads; or one stream with data in one
\* direction or the other and every way to end it.
Focus ==
    \/ opens <= 1 /\ (NothingIn \/ NothingOut)
    \/ NothingIn /\ NothingOut
=============================================================================
