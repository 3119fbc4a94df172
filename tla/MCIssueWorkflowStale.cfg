SPECIFICATION IssueSpec
CONSTANTS
  u1 = u1
  u2 = u2
  c1 = c1
  c2 = c2
  Requests <- MCRequests
  Users <- MCUsers
  Assigners <- MCUsers
  Resolvers <- MCUsers
  Verifiers <- MCUsers
  MaxLag = 0
  MaxTime = 2
  MaxVersion = 6
  MaxOccurrences = 1
SYMMETRY Symmetry
INVARIANTS
  VerificationIsCurrent
CHECK_DEADLOCK FALSE
