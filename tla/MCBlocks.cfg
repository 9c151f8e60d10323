CONSTANTS
    Elicits = {"e1", "e2"}
    Responders = {r1, r2, r3}
    Answers = {"good", "wrong"}
    Valid = {"good"}
    Workers = {w1, w2}
    Cancellers = {c1, c2}
    Ids = {i1, i2}
    Percent <- MCPercent
    MaxNotices = 2
    Callers = {s1, s2}
    Notifiers = {n1}
    Resources = {u1, u2}
    SubscribableUris = {u1}
    Subscribers = {a, b, c}
    MaxSubscribers = 2
    RootUris = {"x", "y"}
    SignalCapacity = 2
    MaxSubscriptions = 3
    MaxRootChanges = 4
    Writers = {x1, x2}
    BufferSize = 2
    MaxEvents = 5
    PostPool <- MCPostPool
    MaxMessageSize = 3
    MaxPending = 2
    MaxPendingBytes = 3
    MaxPosts = 4
    Texts <- MCTexts
    Streams <- MCStreams
    Docs <- MCDocs
    max_message_size = 4
    MaxJsonSize = 1
    WrittenSizes = {1, 2}
    ByteBase = 3
    LengthBytes = 2
    SendMax = 4
    ReceiveMax = 3
    Payloads <- MCPayloads
    PROTOCOL_VERSION = 1
    MaxSent = 3
    Invocations <- MCInvocations
    MaxNonces = 2
    ExpirationSecs = 2
    ClockSkew = 1
    MaxToolId = 3
    Registered = {1, 2}
    MaxNow = 6
    Schemas <- MCSchemas
    ArgumentSets <- MCArgumentSets
    MaxFields = 2
    MaxU16 = 65535
    States <- MCStates
    MaxRun = 2
    MaxDeltas = 3
    LegacyThreads = {"p", "q"}
    LegacyNames = {"x", "y"}
    LegacyTools = {0, 1, 2}
    LegacyMax = 2
    LegacyManifests = {{}, {0}, {0, 1}}
    LegacyHandlers = {0, 1}
    LegacyArgless = {0}
    LegacyPool <- MCLegacyPool
    LegacyWindow = 1
    MaxLegacyTools = 2
    MaxLegacyRequests = 3
    MAX_TOOL_STATES = 2
    ContextTools = {0, 1, 2, 3}
    ContextData = {"a", "b"}
    MaxContextOps = 5
    Inputs <- MCInputs
    MessageInputs <- MCMessageInputs
SPECIFICATION BlocksSpec
INVARIANTS
    AnsweredOnce
    CancellationSettles
    SubscribedIsNotified
    RootsViewFresh
    ReplayComplete
    PostsAccounted
    StdioFaithful
    FramesIntact
    EnvelopeReadsBack
    NeverTwice
    DeltaExact
    ArgumentsArrive
    LegacyGuarded
    ContextFaithful
    RecordsCanonical
PROPERTIES
    CreateReturns
CHECK_DEADLOCK FALSE
