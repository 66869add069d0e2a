SPECIFICATION FairSpec
CONSTANTS
  Route = {r1}
  NoRoute = none
  Attempt = {a1, a2, a3}
  Window = 1
  Threshold = 2
  Cooldown = 1
  MinCapacity = 1
  MaxCapacity = 2
  Hint = {0, 3}
  Leases = 2
  MaxFailures = 4
  MaxDrops = 1
  MaxTime = 3
INVARIANTS ProbeOwned
PROPERTIES OnlyCleanProbeHeals Reopens
CHECK_DEADLOCK FALSE
