CONSTANTS
    Keys = {k1}
    MaxClaims = 5
    Changes = {"edit", "refresh", "remove", "undo", "hold", "delete", "mute"}
    MaxEdits = 2
    MaxSnoozes = 1
    Faults = {"refused", "timeout", "database", "stall", "sleep", "crash"}
    MaxFaults = 1
CHECK_DEADLOCK FALSE
SPECIFICATION FairSpec
INVARIANTS
    NoSpuriousRepeat
PROPERTIES
    SnoozeKept
    MutedStaysSilent
    EveryReminderEnds
