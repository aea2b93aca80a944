SPECIFICATION FairSpec
CONSTANTS
  Daemon = daemon
  Terminals = {terminal}
  OtherProfile = other
  Nobody = nobody
  ServerMayRefuse = FALSE
  MaxVal = 0
  MaxFaults = 1
  MaxEdits = 1
  MaxRetries = 1
PROPERTY AcceptedIsSettled
