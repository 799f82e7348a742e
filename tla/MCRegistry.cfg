SPECIFICATION Spec
CONSTANTS
  neuron = neuron
  neurag = neurag
  recall = recall
  shared = shared
  query = query
  stdio = stdio
  r1 = r1
  r2 = r2
  Names <- MCNames
  Tools <- MCTools
  installed <- MCInstalled
  rank <- MCRank
  Standalone <- MCStandalone
  workerTools <- MCWorkerTools
  offers <- MCOffers
  default <- MCDefault
  Procs <- MCAlone
  Listener = stdio
  Http <- MCNoHttp
  Requests <- MCRequests
  at <- MCAt
  MaxInputs = 3
  MaxFaults = 2
INVARIANTS
  TypeOK
  PublishedIsRouted
  UserDecisionsStay
PROPERTIES
  ShortListsAreExplained
CHECK_DEADLOCK FALSE
