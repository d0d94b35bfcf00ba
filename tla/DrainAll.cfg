CONSTANTS
    EventIds = {e1, e2}
    Contents = {c1}
    MaxOps = 2
    NumForeign = 1
    MaxEdits = 2
    MaxEtag = 4
    Commands = {"undo", "discard", "retry", "resolve"}
    Faults = {"failure", "lost_reply", "unheard_create", "auth", "crash"}
    MaxFaults = 1
CHECK_DEADLOCK FALSE
SYMMETRY Symmetry
SPECIFICATION Spec
INVARIANTS
    TypeOK
    NoDependencyDeadlock
    RemoteIdentityUnique
    NoDuplicateRemote
PROPERTIES
    StoreRefinement
