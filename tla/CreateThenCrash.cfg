SPECIFICATION FairSpec
CONSTANTS
    MaxOps = 1
    MaxEdits = 1
    MaxForeign = 0
    Faults = {"crash"}
    MaxFaults = 1
    Commands = {"create"}
    MaxAttempts = 6
CHECK_DEADLOCK FALSE
PROPERTIES
    QueueMovesOn
