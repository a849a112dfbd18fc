SPECIFICATION Spec
CONSTANTS
  Trades = {a}
  Priced = {}
  Size = 2
  PartialFills = TRUE
  MaxReplaces = 0
  Cancels = TRUE
  Failures = {}
  MaxFailures = 0
PROPERTY CancelKeepsPlanOfPosition
