\* close() races with a method that has passed its closed check.
SPECIFICATION Spec
CONSTANTS
    Tasks = {t1, t2}
    IdSpace = 3
    MAX_STREAMS = 2
    MaxSendQueueLen = 1
    MaxRecvBufferBytes = 1
    PayloadLens = {1}
    Ops = {"open", "close"}
    Inbound <- AllInbound
    MaxOpens = 1
    MaxSendBuffer = 1
SYMMETRY TaskSymmetry
INVARIANTS CloseClears
