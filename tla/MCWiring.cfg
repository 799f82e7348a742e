CONSTANTS
  Parts = {"wiring"}
  g1 = g1
  p1 = p1
  p2 = p2
  p3 = p3
  p4 = p4
  w1 = w1
  neuron = neuron
  neurag = neurag
  Gateways <- MCGateways
  Pulses <- MCPulses
  Stores <- MCStores
  at <- MCAt
  about <- MCAbout
  Topics <- MCTopics
  Changes <- MCChanges
  Blank = " "
  MaxKey = 3
  CacheSize = 1
  HalfTTL = 1
  ErrorText = ErrorText
  Absent = Absent
  Keys <- MCKeys
  Logged <- MCLogged
  Json <- MCJson
  Toml <- MCToml
  Cli <- MCCli
  rank <- MCRank
  Tools <- MCTools
  Neuron = neuron
  GM = gm
  Picks <- MCPicks
  MaxNow = 3
  MaxStarts = 2
  MaxFaults = 1
SYMMETRY ToolSymmetry
SPECIFICATION Spec
INVARIANTS
  TypeOK
  WiringIsSound
PROPERTIES
  ToolsStayReachable
