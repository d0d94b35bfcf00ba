SPECIFICATION Spec
CONSTANTS
    MaxOps = 2
    MaxEdits = 2
    MaxForeign = 0
    Faults = {}
    MaxFaults = 0
    Commands = {"edit", "move", "overtake"}
    MaxAttempts = 6
CHECK_DEADLOCK FALSE
INVARIANTS
    MovedIsMoved
