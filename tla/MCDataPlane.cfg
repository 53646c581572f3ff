\* Two or three connections, leases or requests of each kind.
SPECIFICATION Spec
CONSTANTS
  Plane = "data"
  noLease = noLease
  a1 = a1
  a2 = a2
  z1 = z1
  z2 = z2
  w1 = w1
  w2 = w2
  w3 = w3
SYMMETRY Symmetry
CHECK_DEADLOCK FALSE
INVARIANTS
  DataTypes
  IngressSafe
  CarriersSafe
  TenantsSafe
PROPERTIES
  DataSteps
