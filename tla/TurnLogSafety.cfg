SPECIFICATION Spec
CONSTANTS
  MaxTurns = 2
  MaxSteps = 2
  MaxCalls = 2
  MaxRetries = 1
  MaxStops = 1
  Faults = TRUE
  RestoreModes = {"live", "metadata", "cold"}
INVARIANTS TypeOK TurnNumbersIncrease ClosesMatch OneResultPerCall NotStartedNeverRan
PROPERTY ColdRestoreCloses
CHECK_DEADLOCK FALSE
