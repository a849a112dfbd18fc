SPECIFICATION FairSpec
CONSTANTS
  Roots = {a}
  Replacements = {}
  Service = service
  Handlers = {}
  Worker = worker
  Exempt = {}
  ActionLogFK = FALSE
  PartialRecordsBind = FALSE
  Controls = {}
  MayCrash = FALSE
  WebSocket = "reliable"
PROPERTY HangingOrderIsCancelled
