SPECIFICATION FairSpec
CONSTANTS
  Callers = {c1, c2, c3}
  QueueSize = 1
  MaxWriters = 2
  Main = main
  Nobody = nobody
INVARIANTS AnswerIsTruth
PROPERTIES StopDrains CallsReturn
