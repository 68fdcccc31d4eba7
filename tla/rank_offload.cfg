SPECIFICATION RankSpec
CONSTANTS
  s1 = s1
  s2 = s2
  None = None
  Reqs <- Crowd
  Plays = {s1, s2}
  NodeIds = {1, 2, 3, 4, 5, 6, 7, 8, 9, 10}
  PlayOf <- CrowdPlayOf
  Prompt <- CrowdPrompt
  Isl <- WholeIsl
  Osl <- CrowdOsl
  Before <- CrowdBefore
  BlockSize = 1
  NTiers = 2
  Cap <- Tiers2
  ChunkTokens = 2
  Nextn = 1
  Residency = TRUE
  SeqCap = 2
  TokCap = 3
  Interval = 1
  Overlap = FALSE
  Mix = TRUE
INVARIANTS QueuesExact BatchValid NotStuck AdmittedFits
PROPERTY ImplementsKvTree
CHECK_DEADLOCK FALSE
