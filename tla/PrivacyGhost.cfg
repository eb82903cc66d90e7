SPECIFICATION Spec
CONSTANTS
    Requests = {r1}
    Seeds = {s1}
    Thingino = FALSE
    Operations = {"delete", "create"}
    MaxRequests = 1
    MaxMutations = 2
    MaxWindows = 0
    MaxSwitches = 0
INVARIANTS
    EngineMatchesMap
