SPECIFICATION Spec
CONSTANTS
  w1 = w1
  w2 = w2
  c1 = c1
  c2 = c2
  t1 = t1
  t2 = t2
  None = None
  Workers = {w1}
  Clients = {c1}
  Tasks = {t1}
  Spurious = FALSE
INVARIANT WaitMeansDone
CHECK_DEADLOCK FALSE
