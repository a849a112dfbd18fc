SPECIFICATION FairSpec
CONSTANTS
  Chats = {c}
  Keys = {k}
  NoKey = none
  MaxAttempts = 2
  Cap = 1
  Limit = 2
  Batch = 2
  MaxInputs = 2
  MaxTroubles = 1
INVARIANT FailedWasTried
CHECK_DEADLOCK FALSE
