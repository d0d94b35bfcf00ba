SPECIFICATION FairSpec
CONSTANTS
    MaxOps = 2
    MaxEdits = 2
    MaxForeign = 1
    Faults = {"failure", "lost_reply", "throttled", "unauthorized", "forbidden", "crash"}
    MaxFaults = 1
    Commands = {"create", "edit", "remove", "move", "credentials", "probe"}
    MaxAttempts = 6
CHECK_DEADLOCK FALSE
INVARIANTS
    Converged
PROPERTIES
    MoveKeepsTheEvent
    EveryMutationSettles
