\* Two requests of one identity against two commits.
SPECIFICATION FairSpec
CONSTANTS
  Requests = {r1, r2}
  Keys = {kA}
  NoKey = NoKey
  MaxRevision = 2
  MaxAttempts = 2
INVARIANTS
  TypeOK
  FailClosed
  Converged
PROPERTIES
  AccessEnds
