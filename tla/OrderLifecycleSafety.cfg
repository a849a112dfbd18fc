SPECIFICATION Spec
CONSTANTS
  Roots = {a}
  Replacements = {b}
  Service = service
  Handlers = {h1}
  Worker = worker
  Exempt = {}
  ActionLogFK = FALSE
  PartialRecordsBind = TRUE
  Controls = {"service"}
  MayCrash = TRUE
  WebSocket = "reliable"
INVARIANT TypeOK
INVARIANT ClosedRowIsClosedAtExchange
INVARIANT SweptServiceLeavesOnlyEarlyOrders
INVARIANT NobodyClaimsFalseEnd
