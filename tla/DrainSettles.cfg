CONSTANTS
    EventIds = {e1, e2, e3}
    Contents = {c1}
    MaxOps = 4
    NumForeign = 1
    MaxEdits = 2
    MaxEtag = 6
    Commands = {"undo", "discard"}
    Faults = {"failure", "lost_reply", "crash"}
    MaxFaults = 1
CHECK_DEADLOCK FALSE
SPECIFICATION FairSpec
PROPERTIES
    NoSilentOverwrite
    EveryMutationSettles
