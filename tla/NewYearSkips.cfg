SPECIFICATION Spec
CONSTANTS
    CalCount = 1
    LaterOffers = {"token"}
    Events = {e1}
    MaxChanges = 1
    MaxCommands = 1
    Faults = {"new_year"}
    MaxFaults = 1
INVARIANTS
    CoveredClaimIsTrue
