SPECIFICATION Spec
CONSTANTS
  Trades = {a, b}
  Priced = {}
  Size = 1
  PartialFills = FALSE
  MaxReplaces = 0
  Cancels = FALSE
  Failures = {}
  MaxFailures = 0
INVARIANT ExitsWithinPosition
SYMMETRY TradeSymmetry
