SPECIFICATION LiveSpec
CONSTANTS
    QUEUE_DEPTH = 2
    MARGIN      = 1
    LONG_WAIT   = 3
    SyncCallers = {"gateway", "commands"}
    Delays      = {1, 2}
    MaxRequests = 3
INVARIANTS
    TypeOK
    AtMostOnce
PROPERTIES
    ImplementsOutbox
    QueueDrains
CHECK_DEADLOCK FALSE
