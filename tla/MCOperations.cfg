SPECIFICATION OperationsSpec
CONSTANTS
  c1 = c1
  c2 = c2
  p3 = p3
  u1 = u1
  u2 = u2
  r1 = r1
  r2 = r2
  k1 = k1
  k2 = k2
  s1 = s1
  h1 = h1
  j1 = j1
  q1 = q1
  i1 = i1
  NoProcess = NoProcess
  Processes <- MCProcesses
  LostReplies = TRUE
  MaxVersion = 8
  SourceRequests <- MCRequests
  SourceCommands <- MCCommands
  SourceMakers <- MCUsers
  SourceCheckers <- MCUsers
  MaxRevision = 2
  Tables <- MCTables
  Columns <- MCColumns
  Types <- MCTypes
  Labels <- MCLabels
  Unclassified = "none given"
  SourceStates <- MCSourceStates
  Catalogues <- MCCatalogues
  Discoveries <- MCRequests
  DiscoveryWorkers <- MCCommands
  DiffAppliers <- MCUsers
  MaxChanges = 1
  Records <- MCRecords
  Reviewed <- MCRecords
  Until <- MCUntil
  Holds <- MCHolds
  Disposals <- MCDisposals
  Recalls <- MCRecalls
  RetentionCommands <- MCCommands
  Officers <- MCUsers
  MaxClock = 2
  Issues <- MCIssues
  TicketKeys <- MCKeys
  Payload <- MCPayload
  Callers <- MCCommands
  Threshold = 2
  OpenFor = 1
  MaxTries = 2
  BaseDelay = 1
  MaxTicks = 2
SYMMETRY Symmetry
INVARIANTS
  OperationsTypeOK
  SuccessorStaysInService
  ActiveConnectionPassed
  DisposalIsSafe
  DeliveriesAreKept
PROPERTIES
  DecisionsHold
  AppliedDiffReconciles
CHECK_DEADLOCK FALSE
