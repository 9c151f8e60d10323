\* The peer resets the stream of a request that is still being sent.
SPECIFICATION PipeSpec
CONSTANTS
    ClientTasks = {t1, t2}
    MaxInFlight = 2
    MaxQueue = 2
    MaxSends = 2
    CountSpace = 6
    Ops = {"error"}
SYMMETRY TaskSymmetry
CHECK_DEADLOCK FALSE
INVARIANTS InFlightMatches
