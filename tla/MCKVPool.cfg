SPECIFICATION Spec
CONSTANTS
    hbm = hbm
    flash = flash
    hbf = hbf
    Requests = {r1, r2}
    PrefixKeys = {k1}
    Components <- MCComponents
    Active <- MCActive
    Offload <- MCOffload
    Capacity <- MCCapacity
    LogicalSize <- MCLogicalSize
    PhysicalSize <- MCPhysicalSize
    Rank <- MCRank
    PageLimit = 3
    SizeLimit = 2
    GenerationLimit = 1
    PrepareShared = FALSE
SYMMETRY Symmetry
INVARIANTS
    LedgerConserved
    ReferencesExact
    PendingSourceLive
PROPERTIES
    InFlightUndisturbed
