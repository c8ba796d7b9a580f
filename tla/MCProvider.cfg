CONSTANTS
  None = None
  u1 = u1
  u2 = u2
  c1 = c1
  Units = {u1, u2}
  Relations = {c1}
  Setups <- FewSetups
  Service = Service
  MaxFaults = 1
  MaxMoves = 1
SPECIFICATION Spec
INVARIANTS
  PublishedCredentialsWork
  AccountsEndWithRelation
PROPERTIES
  RequestsAreAnswered
  ClientsFollowTopology
  LabelsFollowTopology
CHECK_DEADLOCK FALSE
