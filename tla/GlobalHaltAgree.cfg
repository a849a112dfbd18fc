SPECIFICATION Spec
CONSTANTS
  Processes = {p, q}
  Operators = {o}
  MaxCalls = 3
  MaxFailures = 1
INVARIANT TypeOK
INVARIANT HeardIsLast
SYMMETRY ProcessSymmetry
CHECK_DEADLOCK FALSE
