CONSTANTS
    Operator = operator
    Other = other
    Nobody = nobody
    Thread <- MCThread
    Jobs <- MCJobs
    MaxCalls <- MCMaxCalls
    OperatorJobs = "late"
    OtherJobs = "keys"
    OperatorCalls = 2
    OtherCalls = 1
    RetryOnBusy = TRUE
    MaxRetries = 2
    MaxPending = 1
    PendingCount = 1
    MaxFaults = 1
    MayInject = TRUE
    Sessions = {"default", "extended"}
    Levels = {1}
    AskedLevels = {1}
    MaxAttempts = 1
    CounterMod = 2
SPECIFICATION FairExchangeSpec
INVARIANTS
    WireOwned
PROPERTIES
    RequestReturns
