SPECIFICATION WekaSpec
CONSTANTS
  Raws <- MCRaws
  SeamMaxGap = 2
  SeamMinOverlapDiv = 2
  AuxIslDiv = 10
  AuxIslFloor = 8
  AuxReductionOslMax = 4
  AuxReductionRatio = 20
  WorkerGroupMin = 3
  TitleGenMaxOutputTokens = 2
INVARIANTS EachOnce TurnsFollow ComponentsExact StatsExact AcyclicHashed
CHECK_DEADLOCK FALSE
