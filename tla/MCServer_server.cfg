SPECIFICATION ServerFairSpec
CONSTANTS
  NoRow = NoRow
  d1 = d1
  p1 = p1
  p2 = p2
  u1 = u1
  u2 = u2
  h1 = h1
  h2 = h2
  s1 = s1
  Devices = {d1}
  Paths = {p1, p2}
  Hashes = {h1, h2}
  Uploads = {u1, u2}
  MaxTime = 2
  Streams = {s1}
  MaxStops = 1
INVARIANTS ServerTypeOK NothingMissed
PROPERTIES SignalStops StaleCopiesRefreshed
