CONSTANTS
    Settings <- MenuSettings
    Disks <- PlainDisk
    Logs <- NoLog
    Signals <- NoSignal
    Faults = FALSE
    MaxNoise = 1
    MaxRetry = 1
SPECIFICATION Spec
PROPERTY
    RaisedLimitRetries
CHECK_DEADLOCK FALSE
