SPECIFICATION Spec
CONSTANTS
    Hdr = 4
    MaxIdams = 2
    Gap1Plus = 2
    WrapMin = 13
    Sec128 = 1
    Sec16 = 1
    TrackMax = 130
    Stale = 7
    Cases <- MCCases
    NoiseBytes <- MCNoiseBytes
INVARIANTS TypeOK FlagsAreErrors SectorsAsWritten ReportedGood TableInOrder
PROPERTIES ErrorsNeverRise
CHECK_DEADLOCK FALSE
