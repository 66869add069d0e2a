SPECIFICATION FairSpec
CONSTANTS
  Session = {s1, s2}
  Id = {i1, i2, i3}
  Request = {r1, r2}
  Lifetime = 2
  StoreCap = 1
  SessionCap = 2
  BudgetCap = 3
  MaxLag = 1
  MaxTime = 3
  None = none
INVARIANTS TypeOK AdmittedOnce BudgetExact
PROPERTIES ExpiredIsReleased
CHECK_DEADLOCK FALSE
