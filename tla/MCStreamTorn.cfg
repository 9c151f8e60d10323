\* A write between the two halves of pop.
SPECIFICATION Spec
CONSTANTS
    Writers = {w1}
    Capacity = 4
    HeaderSize = 2
    PayloadLens = {0, 1, 2}
    MaxChunks = 3
    MaxResets = 0
CHECK_DEADLOCK FALSE
INVARIANTS WriteAtomic
