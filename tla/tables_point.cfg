SPECIFICATION OpSpec
CONSTANTS
  Scenarios <- MCGemmPoints
  RowsAnswer <- QueryRows
INVARIANT AnswersNumbers
CHECK_DEADLOCK FALSE
