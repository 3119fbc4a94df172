SPECIFICATION ExecutionSpec
CONSTANTS
  w1 = w1
  w2 = w2
  NoWorker = NoWorker
  Workers <- MCWorkers
  MaxAttempts = 1
  MaxBlocks = 0
  MaxCrashes = 0
  MaxStalls = 0
PROPERTIES
  CancelWins
CHECK_DEADLOCK FALSE
