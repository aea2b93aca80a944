SPECIFICATION FairSpec
CONSTANTS
  Daemon = daemon
  Terminal = terminal
  Nobody = nobody
  Accepted = accepted
  UserCommit = usercommit
  Absent = absent
  MaxFaults = 1
  MaxUser = 1
  MaxCommands = 1
INVARIANT TypeOK
INVARIANT RetainedUntilMerge
INVARIANT CleanedMeansGone
INVARIANT StoreFollowsServer
PROPERTY PublicationSettles
PROPERTY MergedIsCleaned
CHECK_DEADLOCK FALSE
