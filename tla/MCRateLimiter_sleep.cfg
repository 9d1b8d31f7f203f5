SPECIFICATION Spec
CONSTANTS
  c1 = c1
  c2 = c2
  c3 = c3
  Calls = {c1, c2, c3}
  Requests = {0, 3, 4}
  Rates = {1}
  Rate = 2
  Burst = 4
  TicksPerSecond = 4
  SizeModulus = 1000
  MaxElapsed = 4
INVARIANT SleepsAsNeeded
