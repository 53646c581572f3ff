\* Two slots, listeners, URLs, tunnels or requests of each kind; seven route lists; nine gates.
SPECIFICATION Spec
CONSTANTS
  Plane = "client"
  noLease = noLease
  a1 = a1
  a2 = a2
  z1 = z1
  z2 = z2
  w1 = w1
  w2 = w2
  w3 = w3
SYMMETRY PairSymmetry
CHECK_DEADLOCK FALSE
INVARIANTS
  ClientTypes
  ListenerSafe
  ExposureSafe
  RelaySetSafe
  SelectionSound
  AgentSound
  GatewaySound
  SigninSound
PROPERTIES
  StaleNeverStored
  RelaySteps
