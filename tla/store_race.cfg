SPECIFICATION StoreSpec
CONSTANTS
  Procs = {p, q}
  Paths <- OnePath
  Names = {"x"}
  CacheOf <- OneCacheOf
  Contents <- MCContents
  Size <- MCSize
  Traces <- MCTraces
  Parallel = 2
  MaxLoads = 4
  MaxReplaced = 0
INVARIANTS LoadedRight
CHECK_DEADLOCK FALSE
