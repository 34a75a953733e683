SPECIFICATION FairSpec
CONSTANTS
  Messages = {m1, m2, m3}
  Background = {}
  Volatile = {}
  SendTargets = {"followup"}
  Updates = {}
  MaxSteps = 1
  MaxStops = 1
  AppendFaults = FALSE
PROPERTY NextTurnIsServed
CHECK_DEADLOCK FALSE
