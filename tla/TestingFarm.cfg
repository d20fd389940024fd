SPECIFICATION Spec
CONSTANTS
    Targets <- OneTarget
    MaxTriggers = 3
    MaxRetries = 1
    MaxRuns = 2
    MaxRequests = 2
    MaxFaults = 1
    MaxQueue = 1
    Comments = FALSE
INVARIANTS TypeOK ResultsTrue SiblingsKept RetryScheduled SubmittedOnce
ACTION_CONSTRAINT ShortDispatch
CHECK_DEADLOCK FALSE
