\* The coordinator with a guarded request, a manual caller, both signal loops,
\* a drainer, the logger and a waiter; or a server with two clients and two
\* shutdown() calls, which ends when there are no more clients.
SPECIFICATION PartsSpec
CONSTANTS
    Requests = {r1}
    ManualCallers = {m1}
    SignalTasks = {term, int}
    Drainers = {d1}
    Waiters = {w1}
    MaxConnections = 2
    MaxAttempts = 2
    Stoppers = {s1, s2}
CHECK_DEADLOCK FALSE
INVARIANTS
    InFlightExact
PROPERTIES
    ImplementsGate
    WaitsEnd
    ShutdownReturns
