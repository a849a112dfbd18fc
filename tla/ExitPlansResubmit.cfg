SPECIFICATION Spec
CONSTANTS
  Trades = {a}
  Priced = {}
  Size = 2
  PartialFills = FALSE
  MaxReplaces = 0
  Cancels = FALSE
  Failures = {"submit"}
  MaxFailures = 1
INVARIANT ExitsWithinPosition
