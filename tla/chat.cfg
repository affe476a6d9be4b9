SPECIFICATION Spec
CONSTANTS
  Clients = {alice, bob, carol}
  alice = alice
  carol = carol
  bob = bob
  NoClient = NoClient
  MaxAccepts = 3
  MaxMsgs = 1
SYMMETRY Symmetry
INVARIANT TypeOK
INVARIANT CountIsHandlers
PROPERTY RegistryStable
PROPERTY ServesChat
CHECK_DEADLOCK FALSE
