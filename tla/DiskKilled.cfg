CONSTANTS
    Settings <- PlainSettings
    Disks <- PlainDisk
    Logs <- NoLog
    Signals <- Terminate
    Faults = FALSE
    MaxNoise = 0
    MaxRetry = 1
SPECIFICATION Spec
PROPERTY
    KilledStopsDrive
CHECK_DEADLOCK FALSE
