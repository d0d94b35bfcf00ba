SPECIFICATION Spec
CONSTANTS
    MaxCommands = 2
    MaxForeign = 0
    Faults = {"lost_reply"}
    MaxFaults = 1
CHECK_DEADLOCK FALSE
PROPERTIES
    EditSurvives
