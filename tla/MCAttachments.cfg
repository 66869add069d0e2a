SPECIFICATION FairSpec
CONSTANTS
  Op = {o1, o2}
  Client = {c1, c2}
  Worker = worker
  None = none
  Ttl = 0
  MaxBytes = 1
  MaxFiles = 1
  MaxTombs = 2
  MaxRows = 2
  MaxCalls = 3
  MaxFaults = 2
  MaxTime = 1
INVARIANTS TypeOK BoundHasFile FilesAreCharged
PROPERTIES CancelStands Collected
CHECK_DEADLOCK FALSE
