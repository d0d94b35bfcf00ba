SPECIFICATION FairSpec
CHECK_DEADLOCK FALSE
CONSTANTS
    Events = {e1, e2}
    MaxVersion = 2
    MaxFetches = 2
    MaxEntered = 1
    MaxCommands = 3
    Faults = {"network", "keyring", "cache", "crash"}
    MaxFaults = 1
INVARIANTS
    NotModifiedIsTrue
    RemovedLeavesNothing
PROPERTIES
    FeedConverges
