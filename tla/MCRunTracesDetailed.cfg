SPECIFICATION TraceSpec
CONSTANTS
    Jobs = {j1}
    Workers = {w1}
    Submitters = {s1}
    NoJob = NoJob
    MaxHistory = 1
    MaxActive = 1
    Readers = {r1}
    Batches = {b1}
    NoReader = NoReader
    MaxCache = 1
CHECK_DEADLOCK FALSE
INVARIANT DetailedTraceServed
