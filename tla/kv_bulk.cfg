SPECIFICATION BoundedSpec
CONSTANTS
  s1 = s1
  s2 = s2
  None = None
  Reqs <- FourReqs
  Plays = {s1, s2}
  NodeIds = {1, 2, 3, 4, 5, 6, 7, 8}
  PlayOf <- LongPlayOf
  Prompt <- LongPrompt
  Isl <- WholeIsl
  Osl <- LongOsl
  Before <- LongBefore
  BlockSize = 1
  NTiers = 3
  Cap <- ThreeTiers
  ChunkTokens = 2
  Nextn = 0
  Residency = FALSE
  MaxPreemptions = 2
INVARIANT BulkExact
CHECK_DEADLOCK FALSE
