CONSTANTS
    EventIds = {e1, e2}
    Contents = {c1}
    MaxOps = 2
    NumForeign = 0
    MaxEdits = 3
    MaxEtag = 2
    Commands = {"discard"}
    Faults = {}
    MaxFaults = 0
CHECK_DEADLOCK FALSE
SYMMETRY Symmetry
SPECIFICATION Spec
PROPERTIES
    DoneNeverSentAgain
