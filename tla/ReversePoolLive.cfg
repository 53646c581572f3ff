\* Two offers and one acquisition of a pool for one connection; Close and Acquire end.
SPECIFICATION FairSpec
CONSTANTS
  Conns = {c1, c2}
  Acquirers = {a1}
  readyLimit = 1
  NoConn = NoConn
INVARIANTS
  CapacityRespected
PROPERTIES
  CloseTerminates
  AcquireReturns
