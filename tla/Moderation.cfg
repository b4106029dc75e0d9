SPECIFICATION LiveSpec
CONSTANTS
    Users        = {"ann"}
    Talk         <- SomeTalk
    Reason       <- SomeReason
    Configs      <- SomeSettings
    MAX_KEYWORDS = 3
    MSG_CONTENT  = 4
    QUEUE_DEPTH  = 2
    MaxMessages  = 2
    MaxCommands  = 1
    MaxFailures  = 1
INVARIANTS
    TypeOK
    LogFollowsDelete
    NeverModeratesItsLog
PROPERTIES
    ViolationsAnswered
CHECK_DEADLOCK FALSE
