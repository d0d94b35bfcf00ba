CONSTANTS
    MaxTokens = 1
    MaxAccountFaults = 0
    AccountFaults = {}
    Commands = {"cancel"}
CHECK_DEADLOCK FALSE
SPECIFICATION FairAccountSpec
PROPERTIES
    ReconnectedAccountSyncs
