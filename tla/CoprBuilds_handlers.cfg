CONSTANTS
    Chroots = {c1, c2}
    Srpm = srpm
    Workers = {w1, w2}
    MaxTriggers = 1
    MaxBuilds = 1
    MaxRetries = 1
    NULL = NULL
    LossyBus = TRUE
    Faults = FALSE
    SitterGivesUp = TRUE
    Removals = TRUE
    Skips = TRUE
    Timeouts = TRUE
    MaxQueue = 2
SPECIFICATION Spec
SYMMETRY Symmetry
CONSTRAINT ShortQueue
CHECK_DEADLOCK FALSE
INVARIANTS PendingHasId ReportsTrue
