SPECIFICATION FairSpec
CONSTANTS
  NLanes = 2
  Traces <- JoinPair
  TStars = {2, 3}
  WarmBudget = 1
  Duration = 6
  IdleShift = 1
  TreeCap = 2
  MaxService = 2
  MaxPlays = 8
INVARIANTS TimerExact PredsExact CountersExact OneLivePlay TreeGapCapped
PROPERTIES ImplementsDag Drains
CHECK_DEADLOCK FALSE
