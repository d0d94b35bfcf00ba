CONSTANTS
    MaxTokens = 1
    MaxAccountFaults = 2
    AccountFaults = {"network"}
    Commands = {}
CHECK_DEADLOCK FALSE
SPECIFICATION FairAccountSpec
PROPERTIES
    ReconnectedAccountSyncs
