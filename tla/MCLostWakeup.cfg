SPECIFICATION FairSpec
CONSTANTS
  u1 = u1
  u2 = u2
  Units = {u1, u2}
  ReadyUnits = {u1}
  FirstLeaders = {u1}
  NoUnit = NoUnit
  NoLock = NoLock
  MaxAttempts = 1
  ClusterMaxSize = 9
  MaxMoves = 0
  MaxFaults = 0
PROPERTIES
  EveryUnitJoins
