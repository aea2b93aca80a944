SPECIFICATION Spec
CONSTANTS
  r1 = r1
  r2 = r2
  Runs = {r1, r2}
  Plans = {}
  MaxTasks = 4
  MaxCapacity = 2
  MaxGen = 2
  MaxFaults = 0
  MaxDeaths = 1
  LiveLeaseMayExpire = FALSE
  MaxCapacityChanges = 1
INVARIANT TypeOK
 
INVARIANT SlotsDistinct
