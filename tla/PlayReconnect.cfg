SPECIFICATION PlaySpec
CONSTANTS
    PlayNone = PlayNone
    PlayWindow = 9
    PlayThreshold = 1
    PlaySecond = 1
    PlayLengths = {1}
    PlayOffsets = {0, 1}
    PlayGaps = {3}
    PlayLate = 1
    PlayStalls = {0, 1}
    PlayBefore = {2}
    PlayAfter = {0, 3}
    PlayRestarts = {4}
    PlaySegments = 3
INVARIANTS
    PlayTimesTrue
CHECK_DEADLOCK FALSE
