SPECIFICATION ThreadsSpec
CONSTANTS
    Sessions = {"default", "programming", "extended"}
    Levels = {1}
    AskedLevels = {1}
    MaxAttempts = 2
    CounterMod = 2
    MayInject = FALSE
    MaxRuns = 2
    Segments <- MCSegments
    BlockRetries = 2
    MaxUpsets = 1
    Steps = 2
    StopOnFailure = TRUE
    MaxTests = 2
    MaxStops = 1
    Publishers = {p1, p2}
    Offers <- MCOffers
    MaxEvents = 2
    Senders = {s1, s2}
    Rate = 2
    Cost = 3
    Capacity = 4
    Patience = 2
    MaxTime = 5
    QueueLimit = 4
    Consumers = {c1, c2}
    Priorities = {0, 1}
    MaxPuts = 5
    Outbox <- MCOutbox
    Wanted = "n1"
    RxLimit = 2
    MaxRequests = 1
    MaxDrops = 1
    Users = {u1, u2}
    Sockets = {k1}
    MaxSessions = 2
    MaxRestarts = 1
    Calls = {q1, q2, q3}
    Nothing = nothing
    Interval = 4
    Longest = 3
    MaxStarts = 2
    Loggers = {l1, l2}
    BufferSize = 2
    MaxEntries = 4
    MaxFaults = 2
    MaxCloses = 2
    PgHome <- MCPgHome
    PgParents <- MCPgParents
    PgLinks <- MCPgLinks
    PgAccepted = {"demo", "scan", "car"}
    PgSeeded = {"demo"}
    MaxVersion = 2
    MaxOutages = 1
INVARIANTS
    ThreadsTypeOK
    OnceIsDropped
    RateKept
    NoLostWakeUp
    AssembledIsWhole
    NothingForgotten
    ScanningIsRunning
    TicksForSubscribers
    ReadyAgain
    QuietBounded
    NothingSkipped
    ClosedIsStored
PROPERTIES
    CompletedIsWhole
    EveryStepReported
    OnlyPredicatesBreakOff
    ServesByPriority
    KeepsUp
CHECK_DEADLOCK FALSE
