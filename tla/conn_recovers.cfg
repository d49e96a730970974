CONSTANTS
    Operator = operator
    Closer = closer
    Nobody = nobody
    AutoReconnect = TRUE
    MayShutDown = FALSE
    MaxPresses = 1
    MaxStacks = 6
    MaxLosses = 1
    MaxFailures = 0
SPECIFICATION FairSpec
PROPERTIES
    Recovers
CHECK_DEADLOCK FALSE
