SPECIFICATION FairSpec
CONSTANTS
  Signals = {a, b}
  Prebound = {a}
  Modes = {"paper", "shadow", "live"}
  Binding = TRUE
  ReleaseRequired = TRUE
  MatchRequired = TRUE
  Batch = 2
  MaxMessages = 2
  MaxFaults = 1
INVARIANT TypeOK
INVARIANT AckedIsAnswered
INVARIANT OpenedIsProven
INVARIANT CandidateWasMatched
PROPERTY SignalIsAnswered
PROPERTY KeepsProtocol
CHECK_DEADLOCK FALSE
