SPECIFICATION Spec
CONSTANTS
    MaxLen = 6
    MaxParts = 6
    NoPosition = NoPosition
    Byte <- MCByte
    Datas <- MCDatas
    Delims <- SelfOverlappingDelims
    Parts <- MCParts
INVARIANT
    NoRecordSplit
