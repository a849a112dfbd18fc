SPECIFICATION Spec
CONSTANTS
  Roots = {a}
  Replacements = {b}
  Service = service
  Handlers = {h1}
  Worker = worker
  Exempt = {}
  ActionLogFK = TRUE
  PartialRecordsBind = FALSE
  Controls = {}
  MayCrash = FALSE
  WebSocket = "down"
PROPERTY AcknowledgedOrderIsJournalled
