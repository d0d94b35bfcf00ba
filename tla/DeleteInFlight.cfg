CONSTANTS
    EventIds = {e1, e2}
    Contents = {c1}
    MaxOps = 2
    NumForeign = 0
    MaxEdits = 2
    MaxEtag = 2
    Commands = {}
    Faults = {}
    MaxFaults = 0
CHECK_DEADLOCK FALSE
SYMMETRY Symmetry
SPECIFICATION Spec
INVARIANTS
    NoOrphanRemote
