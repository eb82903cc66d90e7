INIT ServerInit
NEXT ServerNext
CONSTANTS
    Requests = {r1, r2}
    Seeds = {s1}
    Thingino = TRUE
    Operations = {"create", "update", "delete"}
    MaxRequests = 2
    MaxMutations = 1
    MaxWindows = 1
    MaxSwitches = 0
    AcctNames = {"root", "joe"}
    AcctRoles = {"admin", "user"}
    AcctFlags = {TRUE}
    AcctCalls = 3
    AcctTicks = 1
    AcctNone = AcctNone
    PlayNone = PlayNone
    PlayWindow = 5
    PlayThreshold = 1
    PlaySecond = 1
    PlayLengths = {1}
    PlayOffsets = {0, 1}
    PlayGaps = {3}
    PlayLate = 1
    PlayStalls = {0, 1}
    PlayBefore = {2}
    PlayAfter = {0, 3}
    PlayRestarts = {}
    PlaySegments = 2
    RegIds = {c1}
    RegScheds = {p1}
    RegHooks = {h1, h2}
    RegNone = RegNone
    RegCalls = 3
    RegTimes = 1
    SchedDay = 3
    SchedKeys = {0, 6, 7}
    SchedBodies <- SchedPairs
    SchedWrites = 1
INVARIANTS
    EngineMatchesMap
    PrivacyHolds
    AcctAdminRemains
    AcctSpentOnce
    AcctNothingOutlives
    PlayFaithful
    PlayFilled
    RegAgrees
    RegKept
    SchedAsAsked
SYMMETRY
    Symmetry
CHECK_DEADLOCK FALSE
