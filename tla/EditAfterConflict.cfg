CONSTANTS
    EventIds = {e1, e2}
    Contents = {c1, c2}
    MaxOps = 4
    NumForeign = 1
    MaxEdits = 3
    MaxEtag = 6
    Commands = {}
    Faults = {}
    MaxFaults = 0
CHECK_DEADLOCK FALSE
SYMMETRY Symmetry
SPECIFICATION Spec
PROPERTIES
    KeepLocalKeepsEdits
