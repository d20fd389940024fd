SPECIFICATION Spec
CONSTANTS
    Nvrs <- OneNvr
    MaxBranches = 1
    MaxEvents = 2
    MaxRetries = 1
    MaxGroups = 3
    MaxRows = 3
    MaxKoji = 2
    MaxFaults = 1
    MaxQueue = 1
CONSTRAINT ShortQueue
INVARIANTS TypeOK OncePerNvr StatusTrue NotBlocked CurrentBatchKept
CHECK_DEADLOCK FALSE
