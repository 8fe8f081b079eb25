SPECIFICATION Spec
CONSTANTS
    MaxLen = 9
    MaxParts = 11
    NoPosition = NoPosition
    Byte <- MCByte
    Datas <- MCDatas
    Delims <- PlainDelims
    Parts <- MCParts
INVARIANTS
    TypeOK
    Coverage
    RecordAligned
    MatchesScalarOracles
    NoRecordSplit
