CONSTANTS
    Keys = {k1, k2}
    MaxClaims = 3
    Changes = {"remove", "undo"}
    MaxEdits = 2
    MaxSnoozes = 0
    Faults = {}
    MaxFaults = 0
CHECK_DEADLOCK FALSE
SPECIFICATION Spec
INVARIANTS
    RemindersScheduled
