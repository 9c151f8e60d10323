\* One method of each pattern of locking at once; no symmetry.
SPECIFICATION FairSpec
CONSTANTS
    Tasks = {t1, t2}
    IdSpace = 2
    MAX_STREAMS = 1
    MaxSendQueueLen = 1
    MaxRecvBufferBytes = 1
    PayloadLens = {1}
    Ops = {"open", "send", "frame", "reset_stream", "status", "close"}
    Inbound <- OneOfEach
    MaxOpens = 1
    MaxSendBuffer = 1
PROPERTIES OpsReturn
