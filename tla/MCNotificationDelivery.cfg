SPECIFICATION Spec
CONSTANTS
  handler = handler
  retryQueue = retryQueue
  Callers <- MCCallers
  MaxRetryAttempts = 5
  MaxVersion = 8
  MaxCrashes = 1
INVARIANTS
  OutcomeIsRecorded
CHECK_DEADLOCK FALSE
