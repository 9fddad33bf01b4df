SPECIFICATION Spec
CONSTANTS
    InitialBackoff = 1
    BackoffCap = 4
    MaxAttempts = 3
    MaxChanges = 4
INVARIANTS
    WifiTypeOK
    LinkLookedAfter
    StatusFollowsLink
PROPERTY OnlineOnceProvisioned
CHECK_DEADLOCK FALSE
