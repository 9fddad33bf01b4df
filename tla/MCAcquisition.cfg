SPECIFICATION Spec
CONSTANTS
    Boards <- MCBoards
    RecoverThreshold = 3
    FailureWrap = 4
    ShtRetries = 2
    ResetFrom = 1
    Roms <- MCRoms
    MaxDevices = 2
    ConvTicks = 2
    ScanTicks = 3
    MaxRound = 2
    TickWrap = 8
    MaxFaults = 2
INVARIANTS
    AcquisitionTypeOK
    ReadingIsOwn
    ReadingIsConverted
PROPERTY ReadingsResume
