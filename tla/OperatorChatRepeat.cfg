SPECIFICATION FairSpec
CONSTANTS
  Executions = {e}
  Modes = {"getUpdates", "webhook"}
  Handlers = {h}
  MaxUpdates = 3
  MaxPendings = 2
  MaxFaults = 1
INVARIANT ReleaseIsFirst
CHECK_DEADLOCK FALSE
