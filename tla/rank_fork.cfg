SPECIFICATION RankSpec
CONSTANTS
  s1 = s1
  s2 = s2
  None = None
  Reqs <- Fork
  Plays = {s1, s2}
  NodeIds = {1, 2, 3, 4, 5, 6, 7, 8, 9, 10}
  PlayOf <- ForkPlayOf
  Prompt <- ForkPrompt
  Isl <- WholeIsl
  Osl <- ForkOsl
  Before <- ForkBefore
  BlockSize = 1
  NTiers = 1
  Cap <- Tiers1
  ChunkTokens = 2
  Nextn = 1
  Residency = FALSE
  SeqCap = 3
  TokCap = 6
  Interval = 1
  Overlap = FALSE
  Mix = FALSE
INVARIANT NoOvercommit
CHECK_DEADLOCK FALSE
