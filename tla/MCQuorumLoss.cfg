SPECIFICATION FairSpec
CONSTANTS
  u1 = u1
  u2 = u2
  u3 = u3
  Units = {u1, u2, u3}
  NoUnit = NoUnit
  Leaders = {u1}
  WaitingSets <- AllJoined
  MaxFaults = 1
PROPERTIES
  QuorumLossAwaitsUser
