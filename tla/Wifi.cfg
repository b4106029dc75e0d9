SPECIFICATION Spec
CONSTANTS
    Creds         = {"home", "typo"}
    Right         = {"home"}
    MAX_RETRY     = 2
    StationPortal = TRUE
    MaxTests      = 3
    MaxFailures   = 3
    MaxReboots    = 1
INVARIANTS
    TypeOK
    ConnectedAgrees
    KeepsTrying
PROPERTIES
    SavedAfterAddress
CHECK_DEADLOCK FALSE
