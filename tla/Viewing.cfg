SPECIFICATION FairSpec
CONSTANTS
    LiveViewers = {v1}
    LiveQueue = 1
    LiveBehind = 1
    LivePartLength = 1
    LiveMaxGOP = 2
    LiveWrap = 1000
    LiveSessions = 2
    LiveSamples = 3
    LiveJump = 2
    Talkers = {t1, t2}
    TalkFree = TalkFree
    TalkReserved = TalkReserved
    TalkBuffer = 1
    TalkFrames = 2
    PathNone = PathNone
    PathGap = 2
    PathBack = 1
    PathLength = 2
    PathJumps = {5}
    PathEnd = 6
    PathFaults = 1
INVARIANTS
    LiveFeedWhole
    TalkSafe
    PathFaithful
PROPERTIES
    LiveReleased
    TalkReleased
CHECK_DEADLOCK FALSE
