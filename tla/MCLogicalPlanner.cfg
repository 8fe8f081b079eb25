SPECIFICATION FairSpec
CONSTANTS
    MaxLen = 4
    Byte <- MCByte
    FileLists <- MCFileLists
    Contents <- MCContents
    Delims <- MCDelims
    PartCounts <- MCPartCounts
    ScanBuffers <- MCScanBuffers
    MaxReplacements = 1
    Missing = Missing
    NoSource = NoSource
    NoPosition = NoPosition
INVARIANTS
    LogicalCoverage
    CutsMatchReference
    OpensOnceInOrder
PROPERTIES
    PlanningEnds
