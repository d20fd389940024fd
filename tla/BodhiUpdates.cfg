SPECIFICATION Spec
CONSTANTS
    Packages = {"a", "b"}
    Dependencies <- MCDependencies
    Dependents <- MCDependents
    BuildJobs = {"b"}
    Commented = {"a", "b"}
    Stable <- MCStable
    MaxVersion <- MCMaxVersion
    MaxTags = 2
    MaxCalls = 3
    MaxFaults = 1
    UpdateOf = "b"
    Requests <- MCRequests
    MaxTasks = 2
    MaxTargets = 3
    MaxRetries = 2
INVARIANTS TypeOK OneSidetag OneUpdatePerBuild
PROPERTY ImplementsPromise
ACTION_CONSTRAINTS TagsFirst UpdatesLast
CHECK_DEADLOCK FALSE
