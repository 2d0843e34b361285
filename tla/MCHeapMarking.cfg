\* One node of each kind, so that every worklist feeds the others.
SPECIFICATION FairSpec
CONSTANTS
  Objects = {o1}
  CaptureCells = {c1}
  Environments = {e1}
  HostValues = {f1}
  NoRef = NoRef
  InitialThreshold = 2
  Thresholds = {}
  MaxAllocations = 2
  MaxEdges = 1
  MaxProtected = 1
  MaxScopes = 1
INVARIANTS
  MarkingInv
PROPERTIES
  ImplementsManagedHeap
  CollectionEnds
CHECK_DEADLOCK FALSE
