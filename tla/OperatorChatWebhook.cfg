SPECIFICATION FairSpec
CONSTANTS
  Executions = {e}
  Modes = {"webhook"}
  Handlers = {h1, h2}
  MaxUpdates = 2
  MaxPendings = 1
  MaxFaults = 1
INVARIANT PendingActsOnce
CHECK_DEADLOCK FALSE
