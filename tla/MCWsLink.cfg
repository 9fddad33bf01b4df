SPECIFICATION Spec
CONSTANTS
    MinDelay = 1
    MaxDelay = 3
    MaxCounter = 3
    MaxInFlight = 2
    MaxFails = 4
INVARIANT SensorFramesAccepted
INVARIANT RejectOnlyAfterOverlap
INVARIANT BackoffDoubles
PROPERTY SessionKept
PROPERTY ReconnectsUnlessRestartFails
