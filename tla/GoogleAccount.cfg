CONSTANTS
    MaxTokens = 3
    MaxAccountFaults = 2
    AccountFaults = {"network", "keyring", "revoke", "crash"}
    Commands = {"reauthorize", "cancel", "disconnect"}
CHECK_DEADLOCK FALSE
SPECIFICATION FairAccountSpec
INVARIANTS
    TokenSavedBeforeConnected
PROPERTIES
    DisconnectedStaysForgotten
    ConnectedAccountSyncs
