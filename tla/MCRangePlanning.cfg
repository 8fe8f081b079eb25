SPECIFICATION FairSpec
CONSTANTS
    Files <- MCFiles
    PartCounts <- MCPartCounts
    Capacities <- MCCapacities
    Missing = Missing
    None = None
INVARIANTS
    BufferNeverOverrun
    PlanIsCoherent
    HandlesReleased
PROPERTIES
    CallReturns
