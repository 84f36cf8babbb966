SPECIFICATION ShardSpec
CONSTANTS
  Primary = primary
  Helpers = {h1, h2}
  None = none
  Windows = 2
  ZombiesLookAlive = FALSE
  Scenarios <- MCScenarios
INVARIANTS  UselessRunsCancelled
PROPERTIES ImplementsOneProcess SampleEnds
CHECK_DEADLOCK FALSE
