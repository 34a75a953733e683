SPECIFICATION FairSpec
CONSTANTS
  Messages = {m1, m2, m3}
  Background = {}
  Volatile = {}
  SendTargets = {"followup"}
  Updates = {"edit"}
  MaxSteps = 1
  MaxStops = 0
  AppendFaults = FALSE
PROPERTY NextTurnIsServed
CHECK_DEADLOCK FALSE
