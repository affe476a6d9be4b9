SPECIFICATION Spec
CONSTANTS
  Callers = {c1, c2}
  Tasks = {t1, t2, t3}
  NoTask = NoTask
  c1 = c1
  c2 = c2
  t1 = t1
  t2 = t2
  t3 = t3
  MinThr = 1
  MaxThr = 3
  QueueMax = 2
  MinWaitTaskNum = 1
  ThreadVary = 2
SYMMETRY Symmetry
INVARIANT TypeOK
INVARIANT LiveBounds
INVARIANT LiveCount
INVARIANT BusyAmongLive
INVARIANT BlockedMeansFull
PROPERTY RunsInOrder
CHECK_DEADLOCK FALSE
