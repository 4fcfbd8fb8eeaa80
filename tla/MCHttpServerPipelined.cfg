SPECIFICATION HttpSpec
CONSTANT MaxLines = 4
PROPERTY PipelinedAnswered
CHECK_DEADLOCK FALSE
