SPECIFICATION Spec
CONSTANTS
  Messages = {m1, m2, m3}
  Background = {}
  Volatile = {}
  SendTargets = {"followup", "steer"}
  Updates = {"steer"}
  MaxSteps = 2
  MaxStops = 2
  AppendFaults = TRUE
SYMMETRY Symmetry
INVARIANTS TypeOK ReplayIsUnclaimedQueue AcceptedIsAccountedFor
CHECK_DEADLOCK FALSE
