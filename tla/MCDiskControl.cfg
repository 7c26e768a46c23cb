CONSTANTS
    Settings <- MCSettings
    Disks <- MCDisks
    Logs <- MCLogs
    Signals <- MCSignals
    Faults = FALSE
    MaxNoise = 2
    MaxRetry = 1
SPECIFICATION Spec
INVARIANTS
    TypeOK
    OneGeometry
    NoTrackSkipped
    SidesAgree
    RestartBound
    MotorRunsForReads
PROPERTY
    ExitStopsScan
CHECK_DEADLOCK FALSE
