SPECIFICATION FairSpec
CONSTANTS
  Send = {s1}
  Copies = 3
  MaxCrashes = 2
  MaxDrops = 2
CHECK_DEADLOCK FALSE
INVARIANTS AtMostOnce AcceptedRan
PROPERTIES SettledStands CallReturns
