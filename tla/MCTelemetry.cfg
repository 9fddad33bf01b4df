SPECIFICATION Spec
CONSTANTS
    Channels = {"ch"}
    Values = {0, 1}
    Default = 0
    MaxTemp = 2
    Threshold = 1
    NaN = NaN
    QueueDepth = 1
    MaxInFlight = 1
    SeqWrap = 3
    MaxInputs = 2
INVARIANT TelemetryTypeOK
INVARIANT SettledIsRight
PROPERTY SnapshotsInOrder
PROPERTY ScreenCatchesUp
PROPERTY CommandsTakeEffect
