SPECIFICATION Spec
CONSTANTS
    Pipes = {1, 2}
    Sessions = {1, 2, 3, 4}
    None = None
    Operations = {"privacy", "create"}
    Panics = {}
INVARIANTS
    CloseIsSafe
