\* One relay; two hosts, keys, sources or requests of each kind.
SPECIFICATION Spec
CONSTANTS
  Plane = "control"
  noLease = noLease
  a1 = a1
  a2 = a2
  z1 = z1
  z2 = z2
  w1 = w1
  w2 = w2
  w3 = w3
SYMMETRY PairSymmetry
CHECK_DEADLOCK FALSE
INVARIANTS
  ControlTypes
  CertificateSafe
  DnsSafe
  ZoneSound
  AdmissionFair
  StoresSafe
