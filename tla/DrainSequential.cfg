CONSTANTS
    EventIds = {e1, e2, e3}
    Contents = {c1, c2}
    MaxOps = 3
    NumForeign = 1
    MaxEdits = 2
    MaxEtag = 5
    Commands = {"resolve"}
    Faults = {"failure", "lost_reply", "unheard_create", "auth", "crash"}
    MaxFaults = 2
CHECK_DEADLOCK FALSE
SYMMETRY Symmetry
SPECIFICATION CalmSpec
INVARIANTS
    Converged
    CleanIsFaithful
PROPERTIES
    LocalEditRemainsVisible
