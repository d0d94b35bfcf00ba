CONSTANTS
    EventIds = {e1, e2}
    Contents = {c1}
    MaxOps = 1
    NumForeign = 0
    MaxEdits = 1
    MaxEtag = 1
    Commands = {}
    Faults = {"lost_reply", "unheard_create"}
    MaxFaults = 1
CHECK_DEADLOCK FALSE
SPECIFICATION FairSpec
PROPERTIES
    EveryMutationSettles
