SPECIFICATION Spec
CONSTANTS
    Hdr = 128
    MaxIdams = 64
    Gap1Plus = 24
    WrapMin = 20
    Sec128 = 2
    Sec16 = 1
    WriteSplice = 32
    MfmGap3z = 8
    FmGap3z = 4
    Dummy = 7200
    NfaThresh = 10800
    NfaPeriod = 90
    Gme <- MCGme
    ChunkSizes = {1, 7}
    Cases <- MCCases
INVARIANTS TypeOK WrittenOnMedium SectorsSurvive GapsSurvive StreamExact
CHECK_DEADLOCK FALSE
