SPECIFICATION FairSpec
CONSTANTS
  u1 = u1
  u2 = u2
  u3 = u3
  Units = {u1, u2, u3}
  ReadyUnits = {u1, u2, u3}
  FirstLeaders = {u1}
  NoUnit = NoUnit
  NoLock = NoLock
  MaxAttempts = 2
  ClusterMaxSize = 9
  MaxMoves = 0
  MaxFaults = 0
PROPERTIES
  EveryUnitJoins
  LocksAreReleased
