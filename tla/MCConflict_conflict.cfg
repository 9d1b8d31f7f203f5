SPECIFICATION ConflictSpec
CONSTANTS
  t1 = t1
  t2 = t2
  f1 = f1
  f2 = f2
  x1 = x1
  x2 = x2
  Nobody = Nobody
  Threads = {t1, t2}
  Levels = {0, 1}
  Files = {f1, f2}
  MaxTime = 2
  Offset <- MCOffset
  MaxCalls = 3
  Paths <- MCPaths
  Hashes = {x1, x2}
  Infos <- MCInfos
INVARIANTS LogOrdered FileFollowsConsole NamesClash SidesAgree
SYMMETRY Symmetry
CHECK_DEADLOCK FALSE
