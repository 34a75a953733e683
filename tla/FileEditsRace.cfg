SPECIFICATION Spec
CONSTANTS
  Calls = {c1, c2}
  Jobs <- SmallJobs
  Tree <- SmallTree
  OneFilesystem = FALSE
  Stops = {}
  MaxOutside = 0
  MaxFaults = 0
  Inputs = {0}
INVARIANTS OutcomeIsExact
