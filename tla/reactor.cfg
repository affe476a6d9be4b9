SPECIFICATION FairSpec
CONSTANTS
  Clients = {a, b, c3}
  a = a
  b = b
  c3 = c3
  None = None
  MaxEvents = 2
  Batch = 1
  Timeout = 1
  MaxTime = 1
INVARIANT TypeOK
INVARIANT RegistrationsMatch
INVARIANT EventsStayFresh
INVARIANT NoAnswers
INVARIANT UnwatchedAreLost
PROPERTY ScanMissesConnections
PROPERTY SpeakerIsClosed
CHECK_DEADLOCK FALSE
