SPECIFICATION DeltaSpec
CONSTANTS
  NoRow = NoRow
  kPrime = 3
  kMod = 11
  window_size_ = 2
  kMinChunkSize = 2
  kAvgChunkSize = 4
  kMaxChunkSize = 4
  kMaskBits = 2
  Byte = {0, 7}
  MaxLen = 5
  MaxCalls = 2
  MaxOthers = 1
  MaxOtherLen = 3
  MaxOriginal = 24
  MaxDoublings = 6
INVARIANTS Tiling SizesBounded CutByContent StatsOfLastRead UpdateForgets
  DeltaRebuilds DeltaUploadStored ApplyKeepsOrCuts DecompressEnds
CHECK_DEADLOCK FALSE
