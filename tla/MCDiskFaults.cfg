CONSTANTS
    Settings <- MCSettings
    Disks <- MCDisks
    Logs <- MCLogs
    Signals <- MCSignals
    Faults = TRUE
    MaxNoise = 1
    MaxRetry = 1
SPECIFICATION FairSpec
INVARIANT
    NoTrackSkipped
PROPERTY
    Termination
CHECK_DEADLOCK FALSE
