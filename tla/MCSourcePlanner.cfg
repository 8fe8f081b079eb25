SPECIFICATION SrcFairSpec
CONSTANTS
    MaxLen = 7
    MaxParts = 3
    Byte <- MCByte
    Datas <- MCDatas
    Delims <- MCDelims
    Parts <- MCParts
    ScanBuffers <- MCScanBuffers
    InitialProbe = 1
    IsizeMax = 5
INVARIANTS
    SrcTypeOK
    NoMatchSkipped
    ProbeHoldsPattern
    RecordedLengthCovered
PROPERTIES
    PlansLikeSlice
    SrcTerminates
