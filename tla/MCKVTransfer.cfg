SPECIFICATION Spec
CONSTANTS
    r1 = r1
    r2 = r2
    p1 = p1
    p2 = p2
    p3 = p3
    Requests <- MCRequests
    Pages <- MCPages
    PagesOf <- MCPagesOf
    InitialTier <- MCInitialTier
    Capacity <- MCCapacity
    CacheLines = 1
    Steps = 1
    Versions = 2
    MaxPlans = 3
    MaxRestores = 1
CHECK_DEADLOCK FALSE
INVARIANTS
    TransfersAccounted
    OnlyThisTimeline
    ContentMoved
PROPERTIES
    PrefetchEnds
