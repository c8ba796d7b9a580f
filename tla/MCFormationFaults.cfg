SPECIFICATION Spec
CONSTANTS
  u1 = u1
  u2 = u2
  Units = {u1, u2}
  ReadyUnits = {}
  FirstLeaders = {u1, u2}
  NoUnit = NoUnit
  NoLock = NoLock
  MaxAttempts = 2
  ClusterMaxSize = 2
  MaxMoves = 1
  MaxFaults = 2
SYMMETRY Symmetry
INVARIANTS
  OneClusterUnderOneLeader
  MembersAreListed
PROPERTIES
  ListingChangesUnderLock
  NeverSwitchesCluster
