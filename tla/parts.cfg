SPECIFICATION PartsSpec
CONSTANTS
  Users = {u1, u2}
  u1 = u1
  u2 = u2
  Nobody = Nobody
  LineLen = 2
  MaxLines = 2
  MaxServed = 2
  Peers = {p1, p2}
  p1 = p1
  p2 = p2
  MaxSent = 2
  W = 4
  Callers = {c1, c2}
  c1 = c1
  c2 = c2
  Tasks = {t1, t2, t3}
  t1 = t1
  t2 = t2
  t3 = t3
  NoTask = NoTask
INVARIANT EchoIsOwn
INVARIANT EventsNeverBlock
INVARIANT WatchedAreOpen
INVARIANT AnswersFitQuestions
INVARIANT MulAddsProduct
INVARIANT DiveIsQuotient
PROPERTY ServesEcho
PROPERTY AcceptedAreServed
PROPERTY OnlyLossBlocks
PROPERTY LoopsEnd
PROPERTY BlockedCallerReturns
CHECK_DEADLOCK FALSE
