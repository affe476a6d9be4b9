SPECIFICATION FairSpec
CONSTANTS
  Callers = {c1}
  Tasks = {t1}
  NoTask = NoTask
  c1 = c1
  t1 = t1
  MinThr = 1
  MaxThr = 1
  QueueMax = 1
  MinWaitTaskNum = 1
  ThreadVary = 1
PROPERTY ShutdownStopsWorkers
CHECK_DEADLOCK FALSE
