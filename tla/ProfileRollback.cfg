SPECIFICATION Spec
CONSTANTS
  Commands = {c1}
  Loop = loop
  Calls = calls
  Nobody = nobody
  Families = {1, 2}
  c1 = c1
  c2 = c2
  Operations <- OnlyRefresh
  MaxFaults = 1
  MaxDeaths = 0
  MaxLapses = 1
  LateFaults = FALSE
CHECK_DEADLOCK FALSE
INVARIANT Recoverable
