CONSTANTS
    Settings <- MCSettings
    Disks <- MCDisks
    Logs <- MCLogs
    Signals <- MCSignals
    Faults = FALSE
    MaxNoise = 0
    MaxRetry = 2
SPECIFICATION Spec
INVARIANTS
    OneGeometry
    NoTrackSkipped
    GeometryRecovered
    ImageEndsWithData
CHECK_DEADLOCK FALSE
