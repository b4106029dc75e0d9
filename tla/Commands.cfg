SPECIFICATION LiveSpec
CONSTANTS
    Interactions  = {"k", "b", "o"}
    Kind          <- KickBanOther
    ACK_QUEUE     = 2
    CMD_QUEUE     = 1
    QUEUE_DEPTH   = 2
    MaxDeliveries = 2
    MaxFailures   = 2
INVARIANTS
    TypeOK
    OncePerAck
    ReplyFollowsAction
PROPERTIES
    EveryoneAnswered
CHECK_DEADLOCK FALSE
