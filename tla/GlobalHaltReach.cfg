SPECIFICATION FairSpec
CONSTANTS
  Processes = {p}
  Operators = {o}
  MaxCalls = 1
  MaxFailures = 0
PROPERTY HaltReachesEveryProcess
CHECK_DEADLOCK FALSE
