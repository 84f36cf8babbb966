SPECIFICATION QueueSpec
CONSTANTS
  Points = 3
  Medium <- MCMedium
  MaxWorkers = 2
  MaxManagers = 2
  MaxSpawns = 3
  
PROPERTIES ResultKept ManagerEnds
CHECK_DEADLOCK FALSE
