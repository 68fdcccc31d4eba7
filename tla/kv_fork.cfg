SPECIFICATION BoundedSpec
CONSTANTS
  s1 = s1
  s2 = s2
  None = None
  Reqs <- ForkReqs
  Plays = {s1, s2}
  NodeIds = {1, 2, 3, 4, 5, 6, 7, 8}
  PlayOf <- ForkPlayOf
  Prompt <- ForkPrompt
  Isl <- WholeIsl
  Osl <- ForkOsl
  Before <- ForkBefore
  BlockSize = 1
  NTiers = 2
  Cap <- SmallTiers
  ChunkTokens = 2
  Nextn = 0
  Residency = FALSE
  MaxPreemptions = 2
INVARIANTS IInv HeldInHbm HeldPrefix
CHECK_DEADLOCK FALSE
