SPECIFICATION Spec
CONSTANTS
  Roots = {a, r}
  Replacements = {}
  Service = service
  Handlers = {h1}
  Worker = worker
  Exempt = {r}
  ActionLogFK = FALSE
  PartialRecordsBind = FALSE
  Controls = {"service"}
  MayCrash = FALSE
  WebSocket = "down"
INVARIANT ArmedSwitchBlocksLaterCalls
