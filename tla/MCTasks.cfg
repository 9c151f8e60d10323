\* Two tasks and a table for one session, a client for one request in flight or
\* an adapter with two of everything that is negotiated; or a server with two
\* slots, three clients and two shutdown() calls.  A behaviour ends when the
\* session objects, the stream ids, the messages or the clients run out.
SPECIFICATION TasksSpec
CONSTANTS
    SessionTasks = {t1, t2}
    DataKeys = {k1}
    MaxSessions = 1
    Timeout = 1
    MaxObjects = 3
    MaxClock = 2
    TimeSpace = 8
    ClientTasks = {t1, t2}
    MaxInFlight = 1
    MaxQueue = 2
    MaxSends = 3
    CountSpace = 8
    Ops = {"response", "error", "cancel"}
    WordBits = 2
    ToolWords = 2
    ResourceWords = 1
    PromptWords = 1
    Tasks = {t1, t2}
    Messages <- MCMessages
    ToolNames = {"t1", "t2"}
    PromptNames = {"p1", "p2", "p3"}
    Uris = {"u", "f"}
    FileUris = {"f"}
    Keys = {"k1"}
    RouterTools = {0, 1}
    HandlerPool = {"h1", "h2"}
    Serves <- MCServes
    Holds <- MCHolds
    Subscribable = {"h2"}
    RootPool = {"r1"}
    Within <- MCWithin
    HasPolicy = TRUE
    PolicyTools = {1, 2}
    PolicyResources = {0, 1}
    PolicyPrompts = {0}
    Versions = {"2024-11-05", "2025-03-26"}
    ReplayWindow = 1
    MaxAudit = 1
    MaxRequests = 5
    MaxChanges = 2
    MaxConnections = 2
    MaxAttempts = 3
    Stoppers = {s1, s2}
CHECK_DEADLOCK FALSE
CONSTRAINT MessagesOrChanges
SYMMETRY Symmetry
INVARIANTS
    NoResurrection
    DataPreserved
    RequestsAccounted
    InFlightExact
    OnlyGranted
    OneNegotiation
    ReplayWindowHolds
    ReceiptsComplete
    PermitsExact
    DrainedBefore
PROPERTIES
    ActiveSessionKept
