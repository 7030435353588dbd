SPECIFICATION Spec
CONSTANTS
  t1 = t1
  t2 = t2
  NoThread = NoThread
  Thread <- MCThread
  Pools = 2
  MaxDepth = 2
  CountModulus = 8
SYMMETRY MCSymmetry
INVARIANT LinkerNeverFaults LockedScopeNeverFaults
