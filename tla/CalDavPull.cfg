SPECIFICATION FairSpec
CONSTANTS
    CalCount = 2
    Events = {e1}
    LaterOffers = {"ctag"}
    MaxChanges = 2
    MaxCommands = 1
    Faults = {"failure", "expired", "crash", "deletion", "new_year"}
    MaxFaults = 1
INVARIANTS
    ClaimIsTrue
PROPERTIES
    PullConverges
    PreferencesSurviveApply
