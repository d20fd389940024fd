CONSTANTS
    SrpmRuns = {r1, r2}
    PlainRuns = {r3}
    CoprTasks = {c1, c2}
    TestTasks = {t1, t2}
    NULL = NULL
SPECIFICATION FairSpec
CHECK_DEADLOCK FALSE
INVARIANTS GroupOnOnePipeline SameSrpm NoOrphanTestGroup
PROPERTIES CallsReturn ImplementsAbstract
