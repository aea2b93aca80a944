SPECIFICATION FairSpec
CONSTANTS
  N = 3
  MaxTurns = 7
  MaxRev = 2
  MaxFaults = 1
  MaxDeaths = 1
  MaxEdits = 1
CHECK_DEADLOCK FALSE
INVARIANT TypeOK
INVARIANT PersistedBeforeAdvancing
INVARIANT SnapshotIsReportedWork
PROPERTY CompletedNotRerun
PROPERTY BatchSettles
