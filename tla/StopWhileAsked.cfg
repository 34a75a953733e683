SPECIFICATION Spec
CONSTANTS
  Approvals = {a1}
  Questions = {q1}
  Policies = {}
  CallSets = {{a1, q1}}
  Stopped = {{a1, q1}}
  MaxPending = 1
INVARIANT StopFreesSession
CHECK_DEADLOCK FALSE
