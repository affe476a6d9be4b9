SPECIFICATION PipeSpec
CONSTANTS
  Kids = {a, b, keeper}
  a = a
  b = b
  keeper = keeper
  Server = Server
  Listener = Listener
  Saver = keeper
  MaxMsgs = 2
  MaxJobs = 2
  MaxReads = 2
  Capacity = 2
INVARIANT PipeTypeOK
INVARIANT BlankOnlyByJobControl
INVARIANT OnlySaverKeepsListener
INVARIANT FileHasAllEchoes
PROPERTY ServesEcho
CHECK_DEADLOCK FALSE
