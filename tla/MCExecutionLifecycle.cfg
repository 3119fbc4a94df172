SPECIFICATION ExecutionSpec
CONSTANTS
  w1 = w1
  w2 = w2
  NoWorker = NoWorker
  Workers <- MCWorkers
  MaxAttempts = 2
  MaxBlocks = 1
  MaxCrashes = 1
  MaxStalls = 1
SYMMETRY WorkerSymmetry
INVARIANTS
  ResultsMatchStatus
  DoneJobEndedExecution
  OneHandler
PROPERTIES
  EndedStaysEnded
CHECK_DEADLOCK FALSE
