SPECIFICATION HmiStoreSpec
CONSTANTS
    Languages = {0, 1}
    Scales = {80, 100}
    Normal = 100
    Garbage = 255
    NoBlob = NoBlob
    OddBlob = OddBlob
    Services <- Announcements
    Configured = Configured
    None = None
    Ttl = 1
    ClockWrap = 8
    MaxUptime = 2
    MaxChanges = 2
INVARIANTS
    SettingsAgree
    PairFromOneAnswer
    FailedNotReused
PROPERTIES
    PrefsKept
    UntouchedKept
CHECK_DEADLOCK FALSE
