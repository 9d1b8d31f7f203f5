SPECIFICATION Spec
CONSTANTS
  NoRow = NoRow
  c1 = c1
  p1 = p1
  p2 = p2
  Clients = {c1}
  Paths = {p1, p2}
  Hashes = {"a", "b"}
  Data <- MCData
  Versions <- OneChunk
  Uploads = {1, 2}
  Faults = {"same_chunk"}
  Zero = "0"
  Uninit = {0}
  MaxTime = 0
INVARIANTS
  NoTornFile
