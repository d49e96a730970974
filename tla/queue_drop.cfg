SPECIFICATION QueueSpec
CONSTANTS
    QueueLimit = 3
    Consumers = {c1}
    Priorities = {0, 1}
    MaxPuts = 4
PROPERTY DropsLowest
CHECK_DEADLOCK FALSE
