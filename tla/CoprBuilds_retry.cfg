CONSTANTS
    Chroots = {c1}
    Srpm = srpm
    Workers = {w1}
    MaxTriggers = 1
    MaxBuilds = 2
    MaxRetries = 1
    NULL = NULL
    LossyBus = FALSE
    Faults = FALSE
    SitterGivesUp = FALSE
    Removals = FALSE
    Skips = FALSE
    Timeouts = FALSE
    MaxQueue = 2
SPECIFICATION Spec
CONSTRAINT ShortQueue
CHECK_DEADLOCK FALSE
INVARIANTS RetryIsUpdated
