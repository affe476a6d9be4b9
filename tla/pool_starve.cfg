SPECIFICATION FairSpec
CONSTANTS
  Callers = {c1}
  Tasks = {t1, t2, t3}
  NoTask = NoTask
  c1 = c1
  t1 = t1
  t2 = t2
  t3 = t3
  MinThr = 1
  MaxThr = 2
  QueueMax = 2
  MinWaitTaskNum = 2
  ThreadVary = 1
PROPERTY QueuedTaskRuns
CHECK_DEADLOCK FALSE
