SPECIFICATION Spec
CONSTANTS
    EventIds = {src, dst}
    Source = src
    Target = dst
    Contents = {c1}
    MaxOps = 4
    NumForeign = 1
    MaxEdits = 2
    MaxEtag = 1
    Commands = {}
    MaxFaults = 1
    MaxCommands = 0
CHECK_DEADLOCK FALSE
INVARIANTS
    SourceNeedsArrival
