SPECIFICATION FairSpec
CONSTANTS
  Commands = {c1, c2}
  Loop = loop
  Calls = calls
  Nobody = nobody
  Families = {1}
  c1 = c1
  c2 = c2
  Operations <- Configuring
  MaxFaults = 1
  MaxDeaths = 0
  MaxLapses = 1
  LateFaults = FALSE
CHECK_DEADLOCK FALSE
PROPERTY MaintenanceEnds
PROPERTY RefreshedInTheEnd
PROPERTY ConfigCatchesUp
