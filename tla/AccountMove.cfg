SPECIFICATION FairSpec
CONSTANTS
    EventIds = {src, dst}
    Source = src
    Target = dst
    Contents = {c1}
    MaxOps = 4
    NumForeign = 1
    MaxEdits = 3
    MaxEtag = 1
    Commands = {}
    MaxFaults = 2
    MaxCommands = 2
CHECK_DEADLOCK FALSE
INVARIANTS
    SourceOutlivesMove
    HiddenHasOperation
PROPERTIES
    MoveSettles
