SPECIFICATION Spec
CONSTANTS
  Daemon = daemon
  Terminals = {terminal}
  OtherProfile = other
  Nobody = nobody
  ServerMayRefuse = TRUE
  MaxVal = 1
  MaxFaults = 1
  MaxEdits = 1
  MaxRetries = 1
INVARIANT TypeOK
INVARIANT HandoffInv
INVARIANT OnlyAcceptedAdvances
INVARIANT ServerNeverAhead
INVARIANT PassedMeansPassed
PROPERTY BoundForGood
PROPERTY UserBranchKept
PROPERTY AppliedOnce
PROPERTY KeepsPromise
