SPECIFICATION Spec
CONSTANTS
  service = service
  account = account
  trade = trade
  WideScopes <- MCLatchScopes
  TradeScopes <- MCNoScopes
  Service = service
  Threads = {t1, t2, t3}
  MaxKillEvents = 0
  MaxLatchAudits = 7
SYMMETRY ThreadSymmetry
PROPERTY LatchHeldUntilRelease
CHECK_DEADLOCK FALSE
