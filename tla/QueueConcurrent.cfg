SPECIFICATION Spec
CONSTANTS
  Messages = {m1, m2, m3}
  Background = {b1, b2}
  Volatile = {b2}
  SendTargets = {"followup", "inject"}
  Updates = {"edit", "remove"}
  MaxSteps = 1
  MaxStops = 1
  AppendFaults = TRUE
SYMMETRY Symmetry
INVARIANTS AtMostOnce ContentAgrees UpdateExcludesClaim
CHECK_DEADLOCK FALSE
