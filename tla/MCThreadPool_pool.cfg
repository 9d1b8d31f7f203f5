SPECIFICATION FairSpec
CONSTANTS
  w1 = w1
  w2 = w2
  c1 = c1
  c2 = c2
  t1 = t1
  t2 = t2
  None = None
  Workers = {w1, w2}
  Clients = {c1, c2}
  Tasks = {t1, t2}
  Spurious = TRUE
INVARIANTS TypeOK ExactlyOnce ActiveCount SomeoneWillTake DrainedOnDestroy
PROPERTIES TasksRun WaitReturnsUnlessMissed DestructorReturns
CHECK_DEADLOCK FALSE
