\* Three clients; users leave and interrupt the server at any time.
SPECIFICATION Spec
CONSTANTS
  c1 = c1
  c2 = c2
  c3 = c3
  Nobody = Nobody
  Clients <- ThreeClients
  Capacity = 1
  Commands = {"LIST", "2ONE"}
  Named = {1}
  MaxCommands = 2
  Leaving = TRUE
  ServerSignals = {"receive", "send"}
  ClientSignals = TRUE
  EarlySignals = TRUE
INVARIANTS
  TypeOK
  KnownSender
  FailsOnlyForTheDeparted
PROPERTIES
  ImplementsChatRoom
SYMMETRY ClientSymmetry
CHECK_DEADLOCK FALSE
