SPECIFICATION HttpSpec
CONSTANT MaxLines = 5
INVARIANTS
  AnswersMatch
PROPERTIES
  AnsweredInTurn
CHECK_DEADLOCK FALSE
