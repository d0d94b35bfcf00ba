CONSTANTS
    EventIds = {e1, e2}
    Contents = {c1}
    MaxOps = 2
    NumForeign = 1
    MaxEdits = 2
    MaxEtag = 6
    Commands = {"undo","resolve"}
    Faults = {}
    MaxFaults = 0
CHECK_DEADLOCK FALSE
SYMMETRY Symmetry
SPECIFICATION Spec
PROPERTIES
    NoSilentOverwrite
