CONSTANTS
    Bus = 1
    Unit = 0
    DriveTracks = 3
    Media <- MCMedia
    Underruns = TRUE
    Tracks = 2
    Sides = 1
    Steps = 1
    ReverseSides = 1
    Settings <- MCSettings
    MaxRetries = 2
    Capacity = 2
    Signals <- MCSignals
    MaxRuns = 2
SPECIFICATION FairSpec
INVARIANTS
    TypeOK
    InStep
    NoWriteWithoutMedia
PROPERTIES
    WritesTracks
    EndStopsDrive
    Termination
CHECK_DEADLOCK FALSE
