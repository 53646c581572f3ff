\* Two registrations, of one identity or two, with both kinds of public port, renewals,
\* departures and shutdown.
SPECIFICATION Spec
CONSTANTS
  Leases = {l1, l2}
  NoLease = NoLease
  Keys = {kA, kB}
  NoKey = NoKey
  Kinds = {"udp", "tcp"}
  Requests = {{}, {"udp"}, {"udp", "tcp"}}
  Returning = {l1, l2}
  Stops = TRUE
  MinPort = 1
  MaxPort = 1
  MaxLeases = 0
SYMMETRY Symmetry
INVARIANTS
  TypeOK
  PortsSound
  TableSound
PROPERTIES
  GraceHonoured
