SPECIFICATION Spec
CONSTANTS
  d1 = d1
  d2 = d2
  g1 = g1
  Daemons <- MCTwoDaemons
  Gateways <- MCGateways
  NPorts = 3
  Foreign0 <- MCFirst
  ForeignLeaves = TRUE
  Platforms <- MCBothPlatforms
  MaxCrashes = 1
  MaxStops = 1
  Nobody = Nobody
INVARIANTS
  TypeOK
  OneListenerWhenCalm
PROPERTY StartLeadsToService
CHECK_DEADLOCK FALSE
