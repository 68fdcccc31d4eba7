SPECIFICATION RankSpec
CONSTANTS
  s1 = s1
  s2 = s2
  None = None
  Reqs <- Turn
  Plays = {s1, s2}
  NodeIds = {1, 2, 3, 4, 5, 6, 7, 8, 9, 10}
  PlayOf <- TurnPlayOf
  Prompt <- TurnPrompt
  Isl <- WholeIsl
  Osl <- TurnOsl
  Before <- TurnBefore
  BlockSize = 1
  NTiers = 1
  Cap <- Tight
  ChunkTokens = 2
  Nextn = 0
  Residency = FALSE
  SeqCap = 3
  TokCap = 6
  Interval = 1
  Overlap = FALSE
  Mix = FALSE
INVARIANT NotStuck
CHECK_DEADLOCK FALSE
