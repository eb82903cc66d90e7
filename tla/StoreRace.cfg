SPECIFICATION Spec
CONSTANTS
    Cameras = {c1}
    NoCamera = NoCamera
    MaxTime = 5
    LastFootage = 2
    QueueCap = 2
    Batch = 1
    Retain = 1
    Back = 1
    Forward = 20
    DirSpan = 2
    DryDirs = 3
    Idle = 1
    Purges = {}
    Reindexing = FALSE
    Changes = {}
    MaxCrashes = 1
    MaxStops = 0
    MaxLosses = 0
    MaxFailures = 0
INVARIANTS
    RowCoversFile
CHECK_DEADLOCK FALSE
