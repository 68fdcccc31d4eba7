SPECIFICATION StoreSpec
CONSTANTS
  Procs = {p}
  Paths <- MCPaths
  Names = {"x"}
  CacheOf <- MCCacheOf
  Contents <- MCContents
  Size <- MCSize
  Traces <- MCTraces
  Parallel = 1
  MaxLoads = 4
  MaxReplaced = 2
INVARIANTS LoadedRight
PROPERTIES LeavesCache
CHECK_DEADLOCK FALSE
