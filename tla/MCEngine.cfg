SPECIFICATION Spec
CONSTANTS
    f1 = f1
    f2 = f2
    d = d
    t1 = t1
    t2 = t2
    Missing = Missing
    Files <- MCFiles
    Specials <- MCSpecials
    Sizes <- MCSizes
    ChunkSizes <- MCChunkSizes
    Counts <- MCCounts
    Flags <- MCFlags
    Threads <- MCThreads
    Owner = t1
    MaxChanges = 3
SYMMETRY InterchangeableFiles
INVARIANTS
    TypeOK
    GateIsSound
    FaultNeedsRace
    LayoutTilesMapping
    FailClosed
    ErrorsExplained
    NothingLeaks
PROPERTY LayoutSurvivesErrors
