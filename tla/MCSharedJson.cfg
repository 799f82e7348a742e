SPECIFICATION MCSpec
CONSTANTS
  Procs <- MCProcs
  NoLock = NoLock
  Absent = Absent
  MaxDeaths = 1
INVARIANTS
  TypeOK
  OneWriter
PROPERTIES
  UpdatesStay
  EveryWriterReturns
CHECK_DEADLOCK FALSE
