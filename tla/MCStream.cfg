\* A ring of four slots that wraps, with a reset between reads; ends after the
\* last chunk.
SPECIFICATION FairSpec
CONSTANTS
    Writers = {w1}
    Capacity = 4
    HeaderSize = 3
    PayloadLens = {0, 1}
    MaxChunks = 3
    MaxResets = 1
CHECK_DEADLOCK FALSE
INVARIANTS
    SpaceAccounted
PROPERTIES
    StreamIsChannel
    ChunksArrive
