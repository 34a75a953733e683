SPECIFICATION FairSpec
CONSTANTS
  Sessions = {s1}
  Calls = {c1, c2}
  SessionOf <- OneSession
  NoCall = NoCall
  MaxGeneration = 2
INVARIANTS TypeOK OneRuntimePerSession FailureLeavesNothing OwnedIsLive DisposalDrains
PROPERTIES SetupReturns AbandonedIsReleased DisposalTerminates
CHECK_DEADLOCK FALSE
