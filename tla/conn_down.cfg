CONSTANTS
    Operator = operator
    Closer = closer
    Nobody = nobody
    AutoReconnect = TRUE
    MayShutDown = FALSE
    MaxPresses = 2
    MaxStacks = 6
    MaxLosses = 1
    MaxFailures = 0
SPECIFICATION Spec
INVARIANTS
    StaysDown
CHECK_DEADLOCK FALSE
