SPECIFICATION FairSpec
CONSTANTS
  Trades = {a}
  Priced = {}
  Size = 2
  PartialFills = FALSE
  MaxReplaces = 1
  Cancels = TRUE
  Failures = {"submit", "hook", "build", "market", "crash"}
  MaxFailures = 2
INVARIANT ClosedPlanMeansFlat
PROPERTY PositionIsExitedAtStop
PROPERTY EndedPlanIsNotRevived
