CONSTANTS
    Settings <- ReplaySettings
    Disks <- DoubleStepDisk
    Logs <- DoubleStepLog
    Signals <- NoSignal
    Faults = FALSE
    MaxNoise = 0
    MaxRetry = 1
SPECIFICATION Spec
INVARIANT
    ReplayRecovered
CHECK_DEADLOCK FALSE
