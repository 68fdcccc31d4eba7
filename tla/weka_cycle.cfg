SPECIFICATION WekaSpec
CONSTANTS
  Raws <- MCHashless
  SeamMaxGap = 2
  SeamMinOverlapDiv = 2
  AuxIslDiv = 10
  AuxIslFloor = 8
  AuxReductionOslMax = 4
  AuxReductionRatio = 20
  WorkerGroupMin = 3
  TitleGenMaxOutputTokens = 2
INVARIANT Acyclic
CHECK_DEADLOCK FALSE
