CONSTANTS
    EventIds = {e1, e2}
    Contents = {c1, c2}
    MaxOps = 2
    NumForeign = 0
    MaxEdits = 3
    MaxEtag = 2
    Commands = {}
    Faults = {}
    MaxFaults = 0
CHECK_DEADLOCK FALSE
SYMMETRY Symmetry
SPECIFICATION Spec
PROPERTIES
    LocalEditRemainsVisible
