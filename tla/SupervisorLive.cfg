SPECIFICATION FairSpec
CONSTANTS
  r1 = r1
  r2 = r2
  Runs = {r1, r2}
  Plans = {r2}
  MaxTasks = 4
  MaxCapacity = 1
  MaxGen = 2
  MaxFaults = 1
  MaxDeaths = 1
  LiveLeaseMayExpire = FALSE
  MaxCapacityChanges = 0
PROPERTY SavedResultKept
PROPERTY ResultDelivered
PROPERTY EndedIsTidied
