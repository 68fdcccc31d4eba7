SPECIFICATION OpSpec
CONSTANTS
  Scenarios <- MCDigits
  RowsAnswer <- QueryRows
INVARIANT AnswersPure
CHECK_DEADLOCK FALSE
