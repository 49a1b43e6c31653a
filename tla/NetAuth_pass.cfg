CONSTANTS
    Threads = 2
    NumRetries = 2
    MaxRequests = 1
    Disturbances = {"expiry", "refresh", "pairing", "stop"}
    MaxDisturbances = 2
SPECIFICATION FairSpec
INVARIANTS AuthenticatingIsOwned RecoveryPending
PROPERTY AuthenticationCompletes
CHECK_DEADLOCK FALSE
