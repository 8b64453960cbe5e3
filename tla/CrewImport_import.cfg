CONSTANTS
  k1 = k1
  k2 = k2
  a1 = a1
  Keys = {k1, k2}
  Olds = {a1}
  Plan <- MCPlan
  None = None
  MaxGens = 2
  MaxImports = 2
  MaxCrashes = 2
  MaxFails = 1
SPECIFICATION FairSpec
INVARIANT AllOrNothing
INVARIANT NoOrphans
PROPERTY BootEnds
PROPERTY ImplementsAtomicImport
CHECK_DEADLOCK FALSE
