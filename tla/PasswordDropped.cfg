SPECIFICATION FairAccountSpec
CHECK_DEADLOCK FALSE
CONSTANTS
    MaxPasswords = 2
    AccountFaults = {}
    MaxAccountFaults = 0
PROPERTIES
    LastPasswordUsed
