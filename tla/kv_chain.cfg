SPECIFICATION BoundedSpec
CONSTANTS
  s1 = s1
  s2 = s2
  None = None
  Reqs <- FourReqs
  Plays = {s1, s2}
  NodeIds = {1, 2, 3, 4, 5, 6, 7, 8}
  PlayOf <- ChainPlayOf
  Prompt <- ChainPrompt
  Isl <- WholeIsl
  Osl <- ChainOsl
  Before <- ChainBefore
  BlockSize = 1
  NTiers = 2
  Cap <- TwoTiers
  ChunkTokens = 2
  Nextn = 1
  Residency = TRUE
  MaxPreemptions = 2
INVARIANTS TypeOK PinsExact HeldLive TierOrder LruExact UsedExact BulkExact
CHECK_DEADLOCK FALSE
