SPECIFICATION FairSpec
CONSTANTS
    None = None
    Branches = {b1}
    Releases = {1, 2}
    Events <- MCEvents
    Upstream <- MCUpstream
    Workers = {1, 2}
    MaxRuns = 6
    MaxDownloads = 1
    MaxRetries = 1
    MaxFaults = 1
INVARIANTS TypeOK SubmittedHasPr
PROPERTIES EveryReleaseEnds
CHECK_DEADLOCK FALSE
