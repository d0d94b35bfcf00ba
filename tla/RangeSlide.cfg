SPECIFICATION Spec
CONSTANTS
    EventIds = {e1}
    MaxDay = 3
    Width = 1
    MaxSpan = 2
    MaxChanges = 2
    MaxEdits = 1
    MaxRequests = 2
    MaxSlides = 1
    Faults = {}
    MaxFaults = 0
INVARIANTS
    CoveredStaysFresh
