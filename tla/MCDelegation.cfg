SPECIFICATION Spec
CONSTANTS
  g1 = g1
  g2 = g2
  c1 = c1
  c2 = c2
  Daemon = Daemon
  Gateways <- MCGateways
  Calls <- MCCalls
  at <- MCAt
  MaxDeaths = 1
  MaxLate = 1
  MaxRefusals = 1
INVARIANTS
  TypeOK
  TwiceNeedsFault
PROPERTIES
  EveryCallReturns
  PrewarmedSetIsGivenUp
CHECK_DEADLOCK FALSE
