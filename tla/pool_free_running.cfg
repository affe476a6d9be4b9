SPECIFICATION Spec
CONSTANTS
  Callers = {c1}
  Tasks = {t1, t2, t3}
  NoTask = NoTask
  c1 = c1
  t1 = t1
  t2 = t2
  t3 = t3
  MinThr = 1
  MaxThr = 2
  QueueMax = 2
  MinWaitTaskNum = 1
  ThreadVary = 1
INVARIANT FreeAfterWorkersStop
CHECK_DEADLOCK FALSE
