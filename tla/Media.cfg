SPECIFICATION MediaSpec
CONSTANTS
    Pipes = {1, 2}
    Sessions = {1, 2, 3, 4}
    None = None
    Operations = {"privacy", "create", "update", "disable", "delete"}
    Panics = {"toggle"}
    Publishers = {p1, p2}
    Variants = {"a", "b"}
    Names = {"a.apk", "b.apk"}
    Codes = {1, 2}
    Uploads <- UploadsOneName
    Mine = "a"
    MaxFailures = 1
    MaxCrashes = 1
INVARIANTS
    PausedIsSilent
    ResetForgetsNothing
    OneSessionServed
    ServedWhole
    NothingLeaks
PROPERTIES
    Implements
    ClientUpdated
CHECK_DEADLOCK FALSE
