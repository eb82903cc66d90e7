SPECIFICATION LiveSpec
CONSTANTS
    Requests = {r1}
    Seeds = {s1}
    Thingino = TRUE
    Operations = {"create", "update", "delete"}
    MaxRequests = 1
    MaxMutations = 0
    MaxWindows = 1
    MaxSwitches = 1
    ThrAddresses = {i1, i2}
    ThrNames = {"root", "joe"}
    ThrAttempts = {a1, a2, a3}
    MaxFailsPerIP = 2
    MaxFailsPerUser = 1
    ThrWindows = 2
INVARIANTS
    ThrChecksBounded
PROPERTIES
    ScheduleSettles
    FollowsFirmware
CHECK_DEADLOCK FALSE
