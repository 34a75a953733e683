SPECIFICATION Spec
CONSTANTS
  MaxTurns = 2
  MaxSteps = 1
  MaxCalls = 1
  MaxRetries = 0
  MaxStops = 1
  Faults = FALSE
  RestoreModes = {"live"}
INVARIANT NoHalfOpenTurn
CHECK_DEADLOCK FALSE
