SPECIFICATION Spec
CONSTANTS
  u1 = u1
  u2 = u2
  u3 = u3
  Units = {u1, u2, u3}
  NoUnit = NoUnit
  NoLock = NoLock
  Locks <- MCLocks
  MaxAttempts = 2
SYMMETRY Symmetry
INVARIANTS
  MutualExclusion
PROPERTIES
  RowIsNeverStolen
  ImplementsClusterLock
