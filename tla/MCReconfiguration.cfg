CONSTANTS
  MiB = 8
  N = 2
  None = None
  NodeMemory <- Machine
  ContainerMemory <- Container
  Options <- FewOptions
  MaxChanges = 2
  MaxFaults = 2
SPECIFICATION Spec
INVARIANTS
  SomeMemberOnline
  TlsFollowsRelation
  PoolFits
PROPERTIES
  ConfigConverges
  OperationsEnd
CHECK_DEADLOCK FALSE
