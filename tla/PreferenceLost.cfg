SPECIFICATION Spec
CONSTANTS
    CalCount = 1
    LaterOffers = {"ctag"}
    Events = {e1}
    MaxChanges = 0
    MaxCommands = 1
    Faults = {}
    MaxFaults = 0
PROPERTIES
    PreferencesKept
