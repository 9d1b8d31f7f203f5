SPECIFICATION Spec
CONSTANTS
  NoRow = NoRow
  d1 = d1
  p1 = p1
  p2 = p2
  u1 = u1
  u2 = u2
  h1 = h1
  h2 = h2
  Devices = {d1}
  Paths = {p1}
  Hashes = {h1, h2}
  Uploads = {u1}
  MaxTime = 2
INVARIANT AllChangesReported
