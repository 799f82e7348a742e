CONSTANTS
  Parts = {"stimuli", "promotion", "blackboard", "processes", "migration"}
  a1 = a1
  a2 = a2
  b1 = b1
  b2 = b2
  Slots <- MCActors
  Ops <- MCActors
  Gateways <- MCActors
  Tools <- MCActors
  Concepts <- MCThings
  Keys <- MCThings
  Pairs <- MCThings
  Matches <- MCMatches
  Users = {d1, g1}
  Daemon = d1
  Missing = Missing
  Limits = {1, 2}
  InitWeights = {1, 2}
  OldRows <- MCOldRows
  OldMax = 4
  PromoteAt = 3
  Cap = 3
  MaxOps = 0
  Sessions = {s1, s2}
  SessionsMax = 1
  Gateway = gateway
  Topics = {t1, t2}
  Dormant = {k1}
  Sections = {x1}
  FlashGap = 2
  SafetyGap = 2
  Facts = {f1, f2}
  MinAge = 1
  MinStrong = 1
  Setters = {p1, p2, p3}
  Daemons = {d1}
  Workers = {w1}
  Reapers = {r1}
  Files = {file1, file2}
  MaxTurns = 2
  MaxLinks = 1
  MaxFaults = 1
  MaxVersion = 4
  MaxRounds = 1
  MaxWrites = 2
SYMMETRY Symmetry
SPECIFICATION Spec
INVARIANTS
  TypeOK
  StimuliKeepMeasure
  FactsArriveOnce
  DeltaMissesNothing
  OnlyTheLeftAreReaped
  MemoryIsSomewhere
