SPECIFICATION Spec
CONSTANTS
  Commands = {c1}
  Loop = loop
  Calls = calls
  Nobody = nobody
  Families = {1, 2}
  c1 = c1
  c2 = c2
  Operations <- AnyOperation
  MaxFaults = 1
  MaxDeaths = 1
  MaxLapses = 1
  LateFaults = FALSE
INVARIANT TypeOK
INVARIANT RecoverableUnlessUndone
INVARIANT MutationExclusive
INVARIANT FamilyUnmixed
PROPERTY LogoutSticks
CHECK_DEADLOCK FALSE
