SPECIFICATION FairSpec
CONSTANTS
  s1 = s1
  s2 = s2
  None = None
  Reqs <- Chat
  Plays = {s1, s2}
  NodeIds = {1, 2, 3, 4, 5, 6, 7, 8, 9, 10}
  PlayOf <- ChatPlayOf
  Prompt <- ChatPrompt
  Isl <- WholeIsl
  Osl <- ChatOsl
  Before <- ChatBefore
  BlockSize = 1
  NTiers = 1
  Cap <- Tight
  ChunkTokens = 2
  Nextn = 1
  Residency = FALSE
  SeqCap = 2
  TokCap = 4
  Interval = 1
  Overlap = FALSE
  Mix = FALSE
PROPERTY Served
CHECK_DEADLOCK FALSE
