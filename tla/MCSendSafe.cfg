SPECIFICATION Spec
CONSTANTS
  Send = {s1}
  Copies = 1
  MaxCrashes = 0
  MaxDrops = 1
CHECK_DEADLOCK FALSE
INVARIANT SafeToSendAgain
