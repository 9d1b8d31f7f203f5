SPECIFICATION Spec
CONSTANTS
  NoRow = NoRow
  c1 = c1
  p1 = p1
  p2 = p2
  Clients = {c1}
  Paths = {p1, p2}
  Hashes = {"a", "b"}
  Data <- MCData
  Versions <- Mixed
  Uploads = {1, 2}
  Faults = {"crash", "short_write", "partial_write", "open", "read", "db", "broken_stream", "overlap", "same_chunk"}
  Zero = "0"
  Uninit = {0}
  MaxTime = 1
INVARIANTS
  TypeOK
  ChunkRowsBacked
  ChunkBytesInPlace
  NoForeignBytes
SYMMETRY PathSymmetry
