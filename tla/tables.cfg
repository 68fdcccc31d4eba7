SPECIFICATION OpSpec
CONSTANTS
  Scenarios <- MCScenarios
  RowsAnswer <- QueryRows
INVARIANTS AnswersPure SourceTruthful GridAnswers NobodyStuck
CHECK_DEADLOCK FALSE
