\* One tenant, four certificates of six units: a write that fails between the two files.
SPECIFICATION Spec
CONSTANTS
  MaxCerts = 4
  MaxTime = 9
  Life = 6
  Interval = 2
  Threshold = 3
  ExpiryFloor = 2
  Tenants = {t1}
CHECK_DEADLOCK FALSE
INVARIANTS
  FilesAreServed
