CONSTANTS
    Chroots = {c1}
    Srpm = srpm
    Workers = {w1, w2}
    MaxTriggers = 1
    MaxBuilds = 1
    MaxRetries = 0
    NULL = NULL
    LossyBus = TRUE
    Faults = FALSE
    SitterGivesUp = TRUE
    Removals = TRUE
    Skips = FALSE
    Timeouts = TRUE
    MaxQueue = 9
SPECIFICATION FairSpec
CHECK_DEADLOCK FALSE
PROPERTIES PendingEnds LinkedEnds BuiltIsTested
