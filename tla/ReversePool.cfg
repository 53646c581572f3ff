\* Two offers and two acquisitions of a pool for two connections.
SPECIFICATION Spec
CONSTANTS
  Conns = {c1, c2}
  Acquirers = {a1, a2}
  readyLimit = 2
  NoConn = NoConn
SYMMETRY Symmetry
INVARIANTS
  TypeOK
  ReservationsExact
  ConnectionOwned
  QueueInv
  ClosedIsFinal
PROPERTIES
  ContractSpec
