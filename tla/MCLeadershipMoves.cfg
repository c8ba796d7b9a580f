SPECIFICATION Spec
CONSTANTS
  u1 = u1
  u2 = u2
  Units = {u1, u2}
  ReadyUnits = {u1, u2}
  FirstLeaders = {u1, u2}
  NoUnit = NoUnit
  NoLock = NoLock
  MaxAttempts = 1
  ClusterMaxSize = 9
  MaxMoves = 1
  MaxFaults = 0
INVARIANTS
  OneCluster
