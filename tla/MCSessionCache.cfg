SPECIFICATION FairSpec
CONSTANTS
  Key = {k1, k2, k3}
  NoKey = nokey
  Request = {r1, r2}
  Capacity = 2
  Ttl = 1
  BatchSize = 1
  MaxTime = 2
  MaxSlots = 3
INVARIANTS TypeOK HeldIsResident 
PROPERTIES LiveLeavesLast ExpiredIsRetired
CHECK_DEADLOCK FALSE
