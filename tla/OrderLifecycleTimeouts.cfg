SPECIFICATION FairSpec
CONSTANTS
  Roots = {a}
  Replacements = {}
  Service = service
  Handlers = {h1}
  Worker = worker
  Exempt = {}
  ActionLogFK = FALSE
  PartialRecordsBind = FALSE
  Controls = {}
  MayCrash = FALSE
  WebSocket = "lossy"
PROPERTY ActiveLiveOrderIsCancelled
