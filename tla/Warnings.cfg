SPECIFICATION Spec
CONSTANTS
    Ids             = {0, 1, 2}
    Callers         = {ws, commands}
    ws = ws
    commands = commands
    WARN_TABLE_SIZE = 2
    COUNT_MOD       = 3
    Ops             = {"increment", "get", "clear"}
    MaxCalls        = 4
    MaxReboots      = 1
INVARIANTS
    TypeOK
    OneEntryPerUser
    
    CountsMatch
PROPERTIES
    ImplementsCounts
CHECK_DEADLOCK FALSE
