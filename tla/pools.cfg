SPECIFICATION PoolsSpec
CONSTANTS
  r1 = r1
  r2 = r2
  r3 = r3
  r4 = r4
  r5 = r5
  r6 = r6
  s1 = s1
  s2 = s2
  s3 = s3
  p1 = p1
  d1 = d1
  d2 = d2
  None = None
  Reqs <- Agents
  Trees <- Sessions
  TreeOf <- AgentTree
  Before <- AgentBefore
  Isl <- AgentIsl
  Osl <- AgentOsl
  Workers <- TwoDecode
  Dp <- TwoRanks
  Cap <- Rooms
  SeqCap <- Seqs
  TokCap <- Toks
  ChunkTokens = 2
  Nextn = 1
  KvAware = TRUE
  Overlap = FALSE
INVARIANTS RoomExact KeepSlots TreesExact RestedEmpty
CHECK_DEADLOCK FALSE
