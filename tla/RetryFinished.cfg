CONSTANTS
    EventIds = {e1}
    Contents = {c1}
    MaxOps = 3
    NumForeign = 0
    MaxEdits = 3
    MaxEtag = 6
    Commands = {"retry"}
    Faults = {}
    MaxFaults = 0
CHECK_DEADLOCK FALSE
SYMMETRY Symmetry
SPECIFICATION Spec
PROPERTIES
    NoSilentOverwrite
