\* Two sends on one stream overlap and the first one is refused.
SPECIFICATION Spec
CONSTANTS
    Tasks = {t1, t2}
    IdSpace = 3
    MAX_STREAMS = 1
    MaxSendQueueLen = 1
    MaxRecvBufferBytes = 1
    PayloadLens = {1}
    Ops = {"open", "send"}
    Inbound <- AllInbound
    MaxOpens = 1
    MaxSendBuffer = 1
SYMMETRY TaskSymmetry
INVARIANTS BufferHoldsQueued
