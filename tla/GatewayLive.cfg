SPECIFICATION LiveSpec
CONSTANTS
    IDENTIFY_LIMIT = 9
    REFRESH_EVERY  = 2
    RETRY_MS       = 1500
    Timely         = TRUE
    MaxDisruptions = 4
    MaxDay         = 0
    MaxOwed        = 1
PROPERTIES
    HealthyNotCondemned
    ZombieAbandoned
    EventuallyReady
CHECK_DEADLOCK FALSE
