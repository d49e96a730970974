SPECIFICATION ServicesSpec
CONSTANTS
    Operator = operator
    Closer = closer
    Nobody = nobody
    AutoReconnect = TRUE
    MayShutDown = TRUE
    MaxPresses = 2
    MaxStacks = 6
    MaxLosses = 1
    MaxFailures = 1
    Sessions = {"default", "programming", "extended"}
    Levels = {1, 17}
    AskedLevels = {1, 3, 17}
    MaxAttempts = 3
    CounterMod = 3
    MayInject = TRUE
    MaxRuns = 1
    Segments <- MCSegments
    BlockRetries = 2
    MaxUpsets = 2
    FirstScript <- MCScript
    Palette = {"transfer", "default", "delay"}
    Blocks = 2
    MaxEdits = 1
    MaxFlashes = 1
    MaxFailedAsks = 1
    Payloads <- MCPayloads
    BlockSize = 2
    SnMod = 4
    MaxRejects = 1
    Callers = {w1, w2}
    MaxChanges = 3
    MaxDogs = 3
    Tester = Tester
    Ecu = Ecu
    Lengths = {0, 3, 4}
    TesterBlock = 1
    EcuBlock = 2
    TesterSends = 3
    SequenceMod = 2
    BsMod = 256
    WaitLimit = 1
INVARIANTS
    ServicesTypeOK
    WholeOrGone
    CompletedMeansFlashed
    TransferPrepared
    ReceivedWhole
    NoStrayDog
PROPERTIES
    EveryPayloadArrives
    OperationsReturn
    LossReported
    RunEnds
    RunReported
    BlockArrives
    FirstExpiryFallsBack
CHECK_DEADLOCK FALSE
