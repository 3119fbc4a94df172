SPECIFICATION ScoringSpec
CONSTANTS
  k1 = k1
  k2 = k2
  u1 = u1
  u2 = u2
  c1 = c1
  c2 = c2
  Configurations <- MCConfigurations
  Scopes <- MCScopes
  ScoringActors <- MCActors
  ScoringDecisions <- MCDecisions
SYMMETRY Symmetry
INVARIANT ScopesAreIndependent
CHECK_DEADLOCK FALSE
