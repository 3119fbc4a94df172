SPECIFICATION RecordsSpec
CONSTANTS
  j1 = j1
  j2 = j2
  w1 = w1
  p1 = p1
  p2 = p2
  Nobody = Nobody
  Genesis = Genesis
  Publishers <- TwoPublishers
  Staged <- ThreeEvents
  Direct <- OneDirect
  Limit = 2
  MaxInserts = 6
  MaxFailures = 1
  w2 = w2
  s1 = s1
  s2 = s2
  NoWorker = NoWorker
  Workers <- TwoWorkers
  Sources <- TwoSources
  SourcesOf <- PayloadSources
  RetryDelay <- BackoffDelay
  SourceLimit <- SourceQuota
  Jobs <- TwoJobs
  Lease = 1
  BlockDelay = 1
  RetryCount = 1
  MaxRunning = 2
  MaxLag = 1
  MaxTime = 3
  MaxVersion <- RowChanges
INVARIANTS
  RecordsTypeOK
  ChainIntact
  OnlyCommittedRecorded
  PublishedIsRecorded
  ClaimMatchesStatus
  CancelIsKept
  DeadLettersMatchJobs
PROPERTIES
  ClaimsRespectQuotas
  LeaseProtectsOwner
  ImplementsLifecycle
  CommittedIsPublished
CHECK_DEADLOCK FALSE
