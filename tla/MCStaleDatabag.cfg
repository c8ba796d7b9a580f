SPECIFICATION Spec
CONSTANTS
  u1 = u1
  u2 = u2
  u3 = u3
  Units = {u1, u2, u3}
  NoUnit = NoUnit
  Leaders = {u1}
  WaitingSets <- NoneJoined
  MaxFaults = 1
INVARIANTS
  RecoversOnlyFromOutage
