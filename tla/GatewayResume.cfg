SPECIFICATION Spec
CONSTANTS
    IDENTIFY_LIMIT = 9
    REFRESH_EVERY  = 2
    RETRY_MS       = 1500
    Timely         = TRUE
    MaxDisruptions = 1
    MaxDay         = 0
    MaxOwed        = 1
PROPERTIES
    ResumesOnResumeUrl
CHECK_DEADLOCK FALSE
