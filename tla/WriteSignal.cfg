CONSTANTS
    Bus = 1
    Unit = 0
    DriveTracks = 3
    Media <- Writable
    Underruns = FALSE
    Tracks = 2
    Sides = 1
    Steps = 1
    ReverseSides = 1
    Settings <- Plain
    MaxRetries = 2
    Capacity = 2
    Signals <- Terminate
    MaxRuns = 1
SPECIFICATION FairSpec
PROPERTY
    SignalStopsDrive
CHECK_DEADLOCK FALSE
