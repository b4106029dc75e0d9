SPECIFICATION Spec
CONSTANTS
    IDENTIFY_LIMIT = 1
    REFRESH_EVERY  = 2
    RETRY_MS       = 1500
    Timely         = FALSE
    MaxDisruptions = 3
    MaxDay         = 1
    MaxOwed        = 1
INVARIANTS
    TypeOK
    ReadyHeartbeats
    NoLostWakeup
    SessionSeqAgree
    OvershootPaid
CHECK_DEADLOCK FALSE
