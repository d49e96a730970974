CONSTANTS
    Operator = operator
    Other = other
    Nobody = nobody
    Thread <- MCThread
    Jobs <- MCJobs
    MaxCalls <- MCMaxCalls
    OperatorJobs = "sessions"
    OtherJobs = "sessions"
    OperatorCalls = 1
    OtherCalls = 1
    RetryOnBusy = TRUE
    MaxRetries = 3
    MaxPending = 1
    PendingCount = 0
    MaxFaults = 0
    MayInject = FALSE
    Sessions = {"default", "extended"}
    Levels = {1}
    AskedLevels = {1}
    MaxAttempts = 2
    CounterMod = 2
SPECIFICATION PromptExchangeSpec
INVARIANTS
    Agreement
