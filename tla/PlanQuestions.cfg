\* One run in plan mode: two questions, three leases, two failed calls and two
\* deaths of the daemon, with the remote branch moved once.
SPECIFICATION Spec
CONSTANTS
  MaxCommits = 2
  MaxQuestions = 2
  MaxGen = 3
  MaxFaults = 2
  MaxDeaths = 2
INVARIANT TypeOK
INVARIANT PlannedAtBase
INVARIANT ResumedWithAnswer
 
PROPERTY EditsKept
\* A run that has ended stays so.
CHECK_DEADLOCK FALSE
