SPECIFICATION Spec
CONSTANTS
    Images <- AllImages
    First <- FirstImage
    None = None
    MaxRetries = 3
    InitialBackoff = 5
    MaxBackoff = 12
    MaxFaults = 3
INVARIANTS
    OtaTypeOK
    BackoffAsDocumented
    SafeToBoot
    InstalledOnce
PROPERTY ComesToRest
CHECK_DEADLOCK FALSE
