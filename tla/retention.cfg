SPECIFICATION Spec
CONSTANTS
  j1 = j1  j2 = j2  f1 = f1  f2 = f2  g1 = g1  g2 = g2  x1 = x1
  Jobs <- TwoJobs
  Archives <- FiveArchives
  TypeOf <- Types
  SizeOf <- Sizes
  Weeks <- Windows
  MaxBytes = 2
  MaxTime = 6
  Faults = {"delete"}
INVARIANTS
  OneOfEachTypeSurvives
PROPERTIES
  SizePassFollowsPolicy
SYMMETRY Interchangeable
CHECK_DEADLOCK FALSE
