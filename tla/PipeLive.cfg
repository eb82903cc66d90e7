SPECIFICATION FairSpec
CONSTANTS
    Pipes = {1, 2}
    Sessions = {1, 2, 3, 4}
    None = None
    Operations = {"privacy", "update", "disable", "delete"}
    Panics = {"toggle"}
PROPERTIES
    CallsReturn
    Recovers
