CONSTANTS
    Tenant = {t1, t2}
    Brand = {b1}
    NoBrand = NoBrand
    FileName <- DistinctNames
    Slot = {1, 2}
    Task <- SomeTasks
    Hasty = t1
    ListingLags = TRUE
    MaxTasks = 2
    MaxRuns = 2
    MaxCrashes = 1
\* without builds the system is at rest
CHECK_DEADLOCK FALSE
SPECIFICATION FairSpec
INVARIANTS
    ReadyIsOwn
PROPERTY RecordedBuildEnds
