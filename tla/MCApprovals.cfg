SPECIFICATION ApprovalsSpec
CONSTANTS
  u1 = u1
  u2 = u2
  c1 = c1
  c2 = c2
  r1 = r1
  r2 = r2
  v1 = v1
  v2 = v2
  Requests <- MCCommands
  Users <- MCUsers
  Assigners <- MCUsers
  Resolvers <- MCUsers
  Verifiers <- MCUsers
  MaxLag = 0
  MaxTime = 2
  MaxVersion = 6
  MaxOccurrences = 2
  Approvals <- MCRequests
  Commands <- MCCommands
  Makers <- MCCheckers
  Checkers <- MCCheckers
  Owners <- MCUsers
  ApprovalTypes <- RequestTypes
  MaxDataset = 2
  RuleRequests <- MCRequests
  RuleCommands <- MCCommands
  Stewards <- MCUsers
  Deciders <- MCUsers
  MaxVersions = 2
  Configurations <- MCRequests
  Scopes <- MCScopes
  ScoringActors <- MCCheckers
  ScoringDecisions <- MCCommands
  ScoredExecutions <- MCScored
  Periods <- MCPeriods
  Endings <- MCEndings
  Rules <- MCRules
  DatasetOf <- MCDatasetOf
  DimensionOf <- MCDimension
  Weight <- MCWeight
  SourceOf <- MCSourceOf
  Thresholds <- MCThresholds
  Callers <- MCCommands
  Principals <- MCCheckers
  Clients <- MCClients
  SessionIds <- MCRequests
  IdleTimeout = 1
  AbsoluteTimeout = 2
  MaxFailures = 2
  FailureWindow = 2
  BlockDuration = 1
  MaxClock = 2
  Files <- MCFiles
  EvidenceCallers <- MCCommands
  Scanners <- MCRequests
  MaxFilesPerIssue = 1
  MaxUploads = 2
  MaxReopenings = 1
  MaxEvidenceCrashes = 1
  Runs <- MCRuns
  Outputs <- MCOutputs
  Size <- MCSize
  GoodOutputs <- MCGood
  Policies <- MCPolicies
  PolicyFrom <- MCFrom
  PolicyTo <- MCTo
  Permissive <- MCPermissive
  SyntheticCallers <- MCCommands
  MaxDay = 3
SYMMETRY Symmetry
INVARIANTS
  ApprovalsTypeOK
  TwoPeople
  OnceEach
  OneInForce
  ResultsAreGrounded
PROPERTIES
  GuardsHold
  DecisionsAreFinal
CHECK_DEADLOCK FALSE
