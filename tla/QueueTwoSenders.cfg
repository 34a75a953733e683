SPECIFICATION Spec
CONSTANTS
  Messages = {m1, m2, m3}
  Background = {b1}
  Volatile = {}
  SendTargets = {"followup"}
  Updates = {}
  MaxSteps = 1
  MaxStops = 0
  AppendFaults = FALSE
INVARIANT AcceptedIsAccountedFor
CHECK_DEADLOCK FALSE
