\* Two relays; a ban, a removal and the passing of time.
SPECIFICATION Spec
CONSTANTS
  Urls = {a1, a2}
  Identities = {z1}
  Bootstraps = {}
  Horizon = 3
  Validity = 2
  Skew = 0
  PoolBan = 1
  Backoff = 1
  MaxRelays = 1
  MaxPerIdentity = 1
  Recovery = 1
  MaxSteps = 4
CHECK_DEADLOCK FALSE
INVARIANT BanIsPermanent
