SPECIFICATION Spec
CONSTANTS
  Processes = {p}
  Operators = {o}
  MaxCalls = 2
  MaxFailures = 0
PROPERTY ForcedHaltHolds
CHECK_DEADLOCK FALSE
