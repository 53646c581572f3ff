\* Two live leases may answer to one friendly hostname.
SPECIFICATION Spec
CONSTANTS
  Leases = {l1, l2}
  NoLease = NoLease
  Keys = {kA, kB}
  NoKey = NoKey
  Kinds = {"udp"}
  Requests = {{}, {"udp"}}
  Returning = {l1, l2}
  Stops = TRUE
  MinPort = 1
  MaxPort = 1
  MaxLeases = 0
SYMMETRY Symmetry
INVARIANT FriendlyNameOwned
