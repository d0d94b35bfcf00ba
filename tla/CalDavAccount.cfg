SPECIFICATION FairAccountSpec
CHECK_DEADLOCK FALSE
CONSTANTS
    MaxPasswords = 3
    AccountFaults = {"network", "keyring", "revoke", "cache", "crash"}
    MaxAccountFaults = 2
INVARIANTS
    UsedIsStored
PROPERTIES
    DisconnectedStays
