SPECIFICATION Spec
CONSTANTS
  Managed = {m1, m2}
  Hosted = {h1}
  NoRef = NoRef
  InitialThreshold = 1
  Thresholds = {0, 2}
  MaxAllocations = 4
  MaxEdges = 1
  MaxProtected = 2
  MaxScopes = 2
SYMMETRY AddressSymmetry
INVARIANTS
  NoDangling
  Accounting
  ScopesNested
PROPERTY
  GrowthBeforeCollection
CHECK_DEADLOCK FALSE
