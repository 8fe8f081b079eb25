SPECIFICATION Spec
CONSTANTS
    MaxLen = 8
    UsizeMax = 15
    NoPosition = NoPosition
    Byte <- MCByte
    Datas <- MCDatas
    Delims <- MCDelims
    ChunkSizes <- MCChunkSizes
INVARIANTS
    ChunksTile
    MatchesScalarOracles
    FixedMatchesOracle
    CursorAgrees
