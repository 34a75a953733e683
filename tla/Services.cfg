SPECIFICATION Spec
CONSTANTS
  a1 = a1
  a2 = a2
  q1 = q1
  p1 = p1
  d1 = d1
  d2 = d2
  j1 = j1
  j2 = j2
  o1 = o1
  c1 = c1
  k1 = k1
  k2 = k2
  r1 = r1
  r2 = r2
  c2 = c2
  g1 = g1
  g2 = g2
  p2 = p2
  i1 = i1
  i2 = i2
  e1 = e1
  e2 = e2
  p3 = p3
  m1 = m1
  m2 = m2
  m3 = m3
INVARIANTS OutcomeIsDurable
INVARIANTS AcceptedIsHonoured
INVARIANTS AnnouncedOnce
INVARIANTS AcknowledgedIsStored
INVARIANTS LedgerViewsAgree
INVARIANTS RoundsFold
INVARIANTS RemindersAccounted
INVARIANTS RemindersWatched
INVARIANTS NothingOutlivesDisposal
INVARIANTS LimitsHold
INVARIANTS RequestsSettle
INVARIANTS WatchersCatchUp
INVARIANTS RollbackRestores
INVARIANTS CompactionKeepsContext
INVARIANTS StreamsWellFormed
INVARIANTS WritesAreAtomic
PROPERTY RevisionAdvances
CHECK_DEADLOCK FALSE
