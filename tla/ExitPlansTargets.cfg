SPECIFICATION Spec
CONSTANTS
  Trades = {a}
  Priced = {a}
  Size = 2
  PartialFills = TRUE
  MaxReplaces = 1
  Cancels = TRUE
  Failures = {"hook", "build", "market"}
  MaxFailures = 1
PROPERTY TargetTakenOnce
