SPECIFICATION FairSpec
CONSTANTS
  NLanes = 1
  Traces <- OneTurns
  TStars = {0, 2}
  WarmBudget = 1
  Duration = 12
  IdleShift = 1
  TreeCap = 4
  MaxService = 2
  MaxPlays = 8
PROPERTY IdleGapCapped
CHECK_DEADLOCK FALSE
