SPECIFICATION FairSpec
CONSTANTS
    Targets <- OneTarget
    MaxTriggers = 3
    MaxRetries = 1
    MaxRuns = 1
    MaxRequests = 2
    MaxFaults = 1
    MaxQueue = 1
    Comments = TRUE
PROPERTIES RunsEnd
ACTION_CONSTRAINTS ShortDispatch LateComment
CHECK_DEADLOCK FALSE
