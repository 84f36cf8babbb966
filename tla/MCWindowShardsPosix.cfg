SPECIFICATION ShardSpec
CONSTANTS
  Primary = primary
  Helpers = {h1}
  None = none
  Windows = 2
  ZombiesLookAlive = TRUE
  Scenarios <- MCScenarios
PROPERTIES LostWindowsRun
CHECK_DEADLOCK FALSE
