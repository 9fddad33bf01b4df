SPECIFICATION Spec
CONSTANTS
    InitialBackoff = 1
    BackoffCap = 4
    MaxAttempts = 3
    MaxChanges = 2
PROPERTY StartReturns
CHECK_DEADLOCK FALSE
