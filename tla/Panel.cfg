SPECIFICATION LiveSpec
CONSTANTS
    Tasks      = {"hardware", "ws"}
    QUEUE_LEN  = 1
    DEBOUNCE   = 1
    LONG_PRESS = 2
    LOCKOUT    = 1
    Bouncy     = {"B"}
    MaxPresses = 2
    MaxViolations = 1
INVARIANTS
    TypeOK
    SilentAtRest
    OneEventPerPress
PROPERTIES
    EventsHandled
CHECK_DEADLOCK FALSE
