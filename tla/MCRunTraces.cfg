SPECIFICATION TraceFairSpec
CONSTANTS
    Jobs = {j1, j2}
    Workers = {w1}
    Submitters = {s1}
    NoJob = NoJob
    MaxHistory = 2
    MaxActive = 1
    Readers = {r1, r2}
    Batches = {b1}
    NoReader = NoReader
    MaxCache = 1
CHECK_DEADLOCK FALSE
INVARIANTS
    CacheOfKeptJobs
    SingleFlight
PROPERTIES
    EveryReaderAnswered
