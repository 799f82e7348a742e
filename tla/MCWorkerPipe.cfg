SPECIFICATION Spec
CONSTANTS
  c1 = c1
  c2 = c2
  s1 = s1
  Requests <- MCRequests
  ToolCalls <- MCCalls
  Cancellable <- MCRequests
  PoolSize = 2
  NoReq = NoReq
  Eof = Eof
INVARIANTS
  TypeOK
  MisdeliveryNeedsTwoAbandoned
  PipeIInv
PROPERTIES
  ImplementsService
CHECK_DEADLOCK FALSE
