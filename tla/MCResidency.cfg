SPECIFICATION ResSpec
CONSTANTS
  weights = weights  kv = kv  work = work  head = head
  l1 = l1  c1 = c1  c2 = c2
  Allocations = {weights, kv, work}
  Views = {head}
  Leases = {l1}
  Consumers = {c1, c2}
  Capacity = 4
  Profile <- MCProfile
  Window <- MCWindow
INVARIANTS PoolConsistent ContentKept EvictionWaits
PROPERTIES EvictsLeastRecent
SYMMETRY MCSymmetry
CHECK_DEADLOCK FALSE
