SPECIFICATION FairSpec
CONSTANTS
    Purges = {p1, p2}
    Capacity = 5
    Low = 2
    Batch = 2
    MaxWrites = 2
    MaxReleases = 1
    MaxStops = 1
CHECK_DEADLOCK FALSE
INVARIANTS
    OnePurge
    ShutdownIsPrompt
PROPERTIES
    DeletesUnderPressure
    LowIsAnswered
