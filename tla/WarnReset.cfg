SPECIFICATION Spec
CONSTANTS
    Ids             = {1, 2}
    Callers         = {commands}
    commands = commands
    WARN_TABLE_SIZE = 2
    COUNT_MOD       = 256
    Ops             = {"increment", "get"}
    MaxCalls        = 3
    MaxReboots      = 1
PROPERTIES
    StartsFromFlash
CHECK_DEADLOCK FALSE
