SPECIFICATION FairSpec
CONSTANTS
  Prices <- MCPrices
  Entry = 30
  Stops = {0, 6}
  Goals = {0, 15}
  TrailMult = 1
  StopTrigger = "mark_price"
  TpTrigger = "fill_price"
  Defaults <- MCDefaults
  WickTicks = 2
  MaxFailures = 2
CHECK_DEADLOCK FALSE
INVARIANT TypeOK
INVARIANT StopIsEvenAfterTarget
INVARIANT ArmedRunnerKeepsProfit
INVARIANT HitsAreSold
INVARIANT WickIsConfirmed
INVARIANT SidesMirror
PROPERTY ProtectionOnlyTightens
PROPERTY OrderedCloseHappens
