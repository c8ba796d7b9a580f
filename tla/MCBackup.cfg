CONSTANTS
  u1 = u1
  u2 = u2
  u3 = u3
  Units = {u1, u2, u3}
  Live = Live
  Lost = Lost
  Torn = Torn
  MaxSecond = 2
  MaxFaults = 2
  MaxRequests = 2
  MaxMoves = 1
SPECIFICATION Spec
INVARIANTS
  InServiceWhenIdle
  ReportedIsListed
  OnlineServesWholeData
PROPERTIES
  DataGivenUpForCopy
  IsolationEnds
  InstanceComesBack
CHECK_DEADLOCK FALSE
