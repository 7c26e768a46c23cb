CONSTANTS
    Settings <- AlternateSettings
    Disks <- DoubleStepDisk
    Logs <- NoLog
    Signals <- NoSignal
    Faults = FALSE
    MaxNoise = 1
    MaxRetry = 1
SPECIFICATION Spec
PROPERTY
    AlternatesOnRetry
CHECK_DEADLOCK FALSE
