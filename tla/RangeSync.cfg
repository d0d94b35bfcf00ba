SPECIFICATION FairSpec
CONSTANTS
    EventIds = {e1}
    MaxDay = 3
    Width = 1
    MaxSpan = 2
    MaxChanges = 1
    MaxEdits = 1
    MaxRequests = 2
    MaxSlides = 1
    Faults = {"failure", "expired", "crash"}
    MaxFaults = 1
INVARIANTS
    CoverageSeparated
    CoveredIsFresh
PROPERTIES
    CoverageRefinement
    HydratedBeforeForgotten
