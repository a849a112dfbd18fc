SPECIFICATION Spec
CONSTANTS
  Roots = {a}
  Replacements = {b, c}
  Service = service
  Handlers = {h1}
  Worker = worker
  Exempt = {}
  ActionLogFK = FALSE
  PartialRecordsBind = FALSE
  Controls = {"trade", "flatten"}
  MayCrash = FALSE
  WebSocket = "down"
INVARIANT ArmedSwitchBlocksLaterCalls
