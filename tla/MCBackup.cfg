SPECIFICATION Spec
CONSTANTS
  daemon = daemon
  cli = cli
  bridges = bridges
  graph = graph
  config = config
  Procs <- MCBoth
  Forced <- MCCli
  Overlap = FALSE
  Files <- MCFiles
  Brittle <- MCBrittle
  Keep = 2
  MaxDay = 4
  MaxCrashes = 2
  MaxForced = 2
  NoDir = NoDir
INVARIANTS
  TypeOK
  KeptIsWhole
PROPERTIES
  CopyGoesOnlyWhenOutdated
  EveryDayBackedUp
CHECK_DEADLOCK FALSE
