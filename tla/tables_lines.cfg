SPECIFICATION OpSpec
CONSTANTS
  Scenarios <- MCOffLines
  RowsAnswer <- QueryRows
INVARIANT BetweenLines
CHECK_DEADLOCK FALSE
