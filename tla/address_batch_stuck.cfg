CONSTANTS
  None = None
  Callers = {c1}
  MaxJobs = 3
  ThreadCap = 2
  ChanCap = 1
  MaxErrors = 1
  MaxAddresses = 3
  Limit <- LimitStuck
  Budget = 1
SPECIFICATION FairSpec
PROPERTY BatchAlwaysEnds
CHECK_DEADLOCK FALSE
