SPECIFICATION PublicationSpec
CONSTANTS
  Rules <- MCRules
  DatasetOf <- MCDatasetOf
  DimensionOf <- MCDimension
  Weight <- MCWeight
  SourceOf <- MCSourceOf
  Thresholds <- MCThresholds
  ScoredExecutions <- MCExecutions
  Endings <- MCEndings
  Periods <- MCPeriods
INVARIANT ShadowStaysOut
CHECK_DEADLOCK FALSE
