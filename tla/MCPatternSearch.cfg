SPECIFICATION FairSearchSpec
CONSTANTS
    ByteBits = 2
    WordBytes = 3
    MaxLen = 7
    NoPosition = NoPosition
    Haystacks <- MCHaystacks
    Patterns <- MCPatterns
INVARIANT FindsFirst
PROPERTY SearchTerminates
