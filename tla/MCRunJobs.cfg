SPECIFICATION FairSpec
CONSTANTS
    Jobs = {j1, j2}
    Workers = {w1, w2}
    Submitters = {s1, s2}
    NoJob = NoJob
    MaxHistory = 1
    MaxActive = 2
CHECK_DEADLOCK FALSE
INVARIANTS
    CancelWins
    NeverStranded
PROPERTIES
    TerminalIsFinal
    EvictsOldest
    EveryJobEnds
    ShutdownJoins
    ImplementsLifecycle
