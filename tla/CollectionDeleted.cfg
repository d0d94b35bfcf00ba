SPECIFICATION FairSpec
CONSTANTS
    CalCount = 2
    LaterOffers = {"ctag"}
    Events = {e1}
    MaxChanges = 1
    MaxCommands = 0
    Faults = {"deletion"}
    MaxFaults = 1
PROPERTIES
    OthersConverge
