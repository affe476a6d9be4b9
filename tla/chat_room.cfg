SPECIFICATION RoomSpec
CONSTANTS
  Clients = {alice, bob}
  alice = alice
  bob = bob
  NoClient = NoClient
  MaxAccepts = 2
  MaxMsgs = 1
PROPERTY BroadcastEnds
PROPERTY QuitterEndsWhenSpokenTo
CHECK_DEADLOCK FALSE
