SPECIFICATION FairSpec
CONSTANTS
  NLanes = 1
  Traces <- OneFan
  TStars = {0, 2}
  WarmBudget = 1
  Duration = 12
  IdleShift = 1
  TreeCap = 4
  MaxService = 2
  MaxPlays = 8
PROPERTY CapAdvances
CHECK_DEADLOCK FALSE
