SPECIFICATION FairSpec
CONSTANTS
    MaxCommands = 2
    MaxForeign = 1
    Faults = {"failure", "lost_reply", "stop", "partial"}
    MaxFaults = 1
CHECK_DEADLOCK FALSE
INVARIANTS
    OneResourcePerTask
PROPERTIES
    EditKept
    OtherFieldKept
    RemovalReachesServer
    Converges
