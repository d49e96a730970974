SPECIFICATION PromptLayersSpec
CONSTANTS
    Tester = Tester
    Ecu = Ecu
    Lengths = {0, 4}
    TesterBlock = 1
    EcuBlock = 3
    TesterSends = 2
    EcuSends = 2
    BlockSize <- MCBlockSize
    MaxSends <- MCMaxSends
    SequenceMod = 2
    BsMod = 256
    WaitLimit = 1
    MaxLoss = 2
    MaxForeign = 0
    Operator = operator
    Other = other
    Nobody = nobody
    Thread <- MCThread
    Jobs <- MCJobs
    MaxCalls <- MCMaxCalls
    OperatorJobs = "all"
    OtherJobs = "keepAlive"
    OperatorCalls = 4
    OtherCalls = 1
    RetryOnBusy = TRUE
    MaxRetries = 2
    MaxPending = 2
    PendingCount = 1
    MaxFaults = 1
    MayInject = TRUE
    Sessions = {"default", "extended"}
    Levels = {1}
    AskedLevels = {1}
    MaxAttempts = 2
    CounterMod = 2
INVARIANTS
    DeliveredIntact
    NoStaleFlow
    ExchangeTypeOK
    Agreement
    OwnAnswer
PROPERTIES
    ImplementsChannel
