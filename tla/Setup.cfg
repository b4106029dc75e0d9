SPECIFICATION LiveSpec
CONSTANTS
    Tokens    = {"t1", "t2"}
    Nets      = {"home", "typo"}
    Right     = {"home"}
    Guilds    = {"g1", "g2"}
    MAX_TRIES = 2
    MaxSaves  = 2
    MaxCuts   = 2
    MaxFaults = 1
INVARIANTS
    TypeOK
    FlagMeansRegistered
    NeverStranded
PROPERTIES
    SavedGoesLive
CHECK_DEADLOCK FALSE
