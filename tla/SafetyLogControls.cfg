SPECIFICATION Spec
CONSTANTS
  service = service
  account = account
  trade = trade
  WideScopes <- MCWideScopes
  TradeScopes <- MCTradeScopes
  Service = service
  Threads = {t1, t2}
  MaxKillEvents = 3
  MaxLatchAudits = 4
SYMMETRY ThreadSymmetry
INVARIANT TypeOK
PROPERTY SwitchesLinearizable
PROPERTY LatchArmsOnlyOnFailure
CHECK_DEADLOCK FALSE
