SPECIFICATION Spec
CONSTANTS
  Trades = {a}
  Priced = {a}
  Size = 2
  PartialFills = FALSE
  MaxReplaces = 0
  Cancels = FALSE
  Failures = {}
  MaxFailures = 0
INVARIANT ClosedPlanMeansFlat
