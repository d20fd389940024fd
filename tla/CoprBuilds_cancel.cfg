CONSTANTS
    Chroots = {c1}
    Srpm = srpm
    Workers = {w1}
    MaxTriggers = 2
    MaxBuilds = 2
    MaxRetries = 0
    NULL = NULL
    LossyBus = FALSE
    Faults = TRUE
    SitterGivesUp = FALSE
    Removals = FALSE
    Skips = FALSE
    Timeouts = FALSE
    MaxQueue = 1
SPECIFICATION Spec
CONSTRAINT ShortQueue
CHECK_DEADLOCK FALSE
INVARIANTS TypeOK NewestNeverCanceled
