SPECIFICATION FairSpec
CONSTANTS
    t1 = t1
    t2 = t2
    Threads = {t1, t2}
    None = None
    Align = 2
    U64Max = 7
    Sizes <- MCSizes
    Windows <- MCWindows
    Offsets <- MCOffsets
    Lengths <- MCLengths
    Addresses <- MCAddresses
INVARIANTS
    ExactBytes
    CopiesFromLiveView
    NoViewLeaks
    ViewBudget
PROPERTY
    LockReleased
