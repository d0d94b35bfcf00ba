SPECIFICATION Spec
CONSTANTS
    MaxCommands = 1
    MaxForeign = 1
    Faults = {"lost_reply"}
    MaxFaults = 1
CHECK_DEADLOCK FALSE
INVARIANTS
    TaskNotDoubled
