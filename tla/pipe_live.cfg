SPECIFICATION PipeFairSpec
CONSTANTS
  Kids = {a, b, keeper}
  a = a
  b = b
  keeper = keeper
  Server = Server
  Listener = Listener
  Saver = keeper
  MaxMsgs = 2
  MaxJobs = 1
  MaxReads = 1
  Capacity = 1
PROPERTY EveryMessageIsRead
PROPERTY SocketDestroyed
CHECK_DEADLOCK FALSE
