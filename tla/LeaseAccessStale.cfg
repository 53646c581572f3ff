\* An older snapshot opens an identity while it registers.
SPECIFICATION Spec
CONSTANTS
  Requests = {r1, r2}
  Keys = {kA}
  NoKey = NoKey
  MaxRevision = 2
  MaxAttempts = 2
INVARIANT StaleNeverApplied
