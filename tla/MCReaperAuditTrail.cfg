SPECIFICATION Spec
CONSTANTS
  j1 = j1
  j2 = j2
  j3 = j3
  Jobs <- MCJobs
SYMMETRY JobSymmetry
INVARIANTS
  CancellationIsAudited
