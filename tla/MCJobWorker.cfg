SPECIFICATION FairSpec
CONSTANTS
  j1 = j1
  w1 = w1
  w2 = w2
  NoWorker = NoWorker
  NoJob = NoJob
  Jobs <- MCJobs
  Workers <- MCWorkers
  Supervised <- MCSupervised
  RetryCount = 1
  MaxBlocks = 1
  MaxRunning = 2
  MaxCrashes = 2
  MaxStalls = 2
  MaxReprocess = 1
INVARIANTS
  TypeOK
  BusyWorkerHoldsLease
PROPERTIES
  LostClaimWritesNothing
  ImplementsLifecycle
  EveryJobEnds
