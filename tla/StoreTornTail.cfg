SPECIFICATION Spec
CONSTANTS
  Formats = {"raw"}
  MaxAppends = 4
  MaxRestarts = 1
INVARIANT CommittedStaysReadable
CHECK_DEADLOCK FALSE
