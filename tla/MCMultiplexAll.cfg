\* Opens, accepts and frames around the wrap of the stream id, or data in one or
\* the other direction on one stream.
SPECIFICATION Spec
CONSTANTS
    Tasks = {t1, t2}
    IdSpace = 2
    MAX_STREAMS = 1
    MaxSendQueueLen = 1
    MaxRecvBufferBytes = 2
    PayloadLens = {1}
    Ops = {"open", "accept", "send", "recv", "frame", "close_stream", "reset_stream", "close"}
    Inbound <- AllInbound
    MaxOpens = 2
    MaxSendBuffer = 1
CONSTRAINT Focus
SYMMETRY TaskSymmetry
INVARIANTS
    CountExact
    SendBufferExact
    RecvAccounting
    CloseEmptiesMap
PROPERTIES
    StatusMonotone
