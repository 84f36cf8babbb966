SPECIFICATION FairSpec
CONSTANTS
    N = 3
    Slots = 2
    BatchTokens = 4
    ChunkTokens = 2
    PageTokens = 2
    CapacityPages = 3
    OffloadPages = 2
    Starvation = 1
    AgeLimit = 2
    TokenLimit = 4
    Priorities = {0, 1}
    Eager = {FALSE, TRUE}
    Aging = {FALSE, TRUE}
    Mixed = {TRUE}
    Stable = {FALSE}
    Preemption = {FALSE, TRUE}
    SomePolicies = {"auto", "swap", "recompute"}
    Shapes <- MixedShapes
    OddShapes <- EdgeShapes
    Loads <- MCLoads
    Plans <- EndingPlans
CHECK_DEADLOCK FALSE
INVARIANTS
    PagesFollowStatus
    CohortFunded
    SwapKeepsHistory
PROPERTIES
    LoneSwappedResumes
    LazyRunEnds
