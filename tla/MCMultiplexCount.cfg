\* The acknowledgement of an accepted stream is refused after the peer's data
\* overflowed the stream and its FIN removed it.
SPECIFICATION Spec
CONSTANTS
    Tasks = {t1, t2}
    IdSpace = 3
    MAX_STREAMS = 2
    MaxSendQueueLen = 1
    MaxRecvBufferBytes = 1
    PayloadLens = {2}
    Ops = {"frame"}
    Inbound <- PeerSends
    MaxOpens = 2
    MaxSendBuffer = 1
SYMMETRY TaskSymmetry
INVARIANTS CountIsCurrent
