SPECIFICATION QuerySpec
CONSTANTS
  t1 = t1
  Threads <- MCThreads
  Detached = {}
  StackDepth = 3
PROPERTIES
  QueryAnswers
CHECK_DEADLOCK FALSE
