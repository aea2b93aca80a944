SPECIFICATION Spec
CONSTANTS
  r1 = r1
  r2 = r2
  Runs = {r1}
  Plans = {r1}
  MaxTasks = 3
  MaxCapacity = 1
  MaxGen = 2
  MaxFaults = 0
  MaxDeaths = 0
  LiveLeaseMayExpire = FALSE
  MaxCapacityChanges = 0
PROPERTY ClaimedIsExecuted
