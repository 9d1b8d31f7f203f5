SPECIFICATION FairSpec
CONSTANTS
  NoRow = NoRow
  c1 = c1
  p1 = p1
  p2 = p2
  Clients = {c1}
  Paths = {p1, p2}
  Hashes = {"a", "b"}
  Data <- MCData
  Versions <- Separate
  Uploads = {1, 2, 3}
  Faults = {"crash"}
  Zero = "0"
  Uninit = {0}
  MaxTime = 0
INVARIANTS
  RecordMatchesDisk
  RefusedWithReason
PROPERTIES
  AtomicUploads
  UploadAnswered
