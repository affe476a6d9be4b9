SPECIFICATION FairSpec
CONSTANTS
  Clients = {alice, bob}
  alice = alice
  bob = bob
  NoClient = NoClient
  MaxAccepts = 2
  MaxMsgs = 1
PROPERTY FinishedClientIsClosed
CHECK_DEADLOCK FALSE
