SPECIFICATION LiveSpec
CONSTANTS
    Cameras = {c1}
    NoCamera = NoCamera
    MaxTime = 6
    LastFootage = 2
    QueueCap = 2
    Batch = 1
    Retain = 1
    Back = 1
    Forward = 20
    DirSpan = 2
    DryDirs = 3
    Idle = 1
    Purges = {"clean", "sweep"}
    Reindexing = FALSE
    Changes = {"delete"}
    MaxCrashes = 0
    MaxStops = 0
    MaxLosses = 0
    MaxFailures = 1
INVARIANTS
    IndexTellsAll
    OpenFileKept
    DeletedStaysDeleted
PROPERTIES
    RetentionSparesFresh
    RowsOutliveFiles
    ReclaimsAll
CHECK_DEADLOCK FALSE
