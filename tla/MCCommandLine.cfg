SPECIFICATION Spec
CONSTANTS
    Tokens <- MCTokens
    Number <- MCNumber
    Decimal <- MCDecimal
    HexDigits <- MCHexDigits
    MIN_WINDOW_BYTES = 256
    FileNames <- MCFileNames
    MaxFiles = 2
    MaxRanges = 3
    None = None
    Invalid = Invalid
    EndOfArgs = EndOfArgs
INVARIANTS
    GrammarDecides
    AllOrNothing
