SPECIFICATION Spec
CONSTANTS
  Trades = {a}
  Priced = {a}
  Size = 3
  PartialFills = TRUE
  MaxReplaces = 0
  Cancels = TRUE
  Failures = {}
  MaxFailures = 0
INVARIANT TypeOK
INVARIANT ExitsWithinPosition
PROPERTY TargetTakenOnce
