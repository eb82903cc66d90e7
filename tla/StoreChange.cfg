INIT Init
NEXT Next
CONSTANTS
    Cameras = {c1}
    NoCamera = NoCamera
    MaxTime = 3
    LastFootage = 1
    QueueCap = 3
    Batch = 1
    Retain = 1
    Back = 1
    Forward = 20
    DirSpan = 1
    DryDirs = 2
    Idle = 1
    Purges = {"free"}
    Reindexing = FALSE
    Changes = {"delete", "disable", "enable"}
    MaxCrashes = 1
    MaxStops = 1
    MaxLosses = 1
    MaxFailures = 0
INVARIANTS
    FootageAccounted
    GracefulStopIndexesAll
    PurgeSparesRecreated
CHECK_DEADLOCK FALSE
