SPECIFICATION Spec
CONSTANTS
    MaxTracks = 2
    LineLen = 3
    FrameMax = 8
    InfoLen = 4
    MaxVisits = 3
    MaxServes = 3
    Positions <- MCPositions
INVARIANTS TypeOK StreamsInPlace StatusKept LossWarned ReplaysCapture InStep
CHECK_DEADLOCK FALSE
