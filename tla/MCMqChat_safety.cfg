\* Two clients and a command of each kind; anybody leaves or is interrupted at any time.
SPECIFICATION Spec
CONSTANTS
  c1 = c1
  c2 = c2
  Nobody = Nobody
  Clients <- TwoClients
  Capacity = 2
  Commands = {"ECHO", "FRIENDS", "2FRIENDS", "2ONE"}
  MaxCommands = 1
  Leaving = TRUE
  ServerSignals = {"receive", "send"}
  ClientSignals = TRUE
INVARIANTS
  TypeOK
  EveryReceiverHasMail
  StaysRegistered
PROPERTIES
  FailsOnlyForTheDeparted
  ImplementsChatRoom
SYMMETRY ClientSymmetry
CHECK_DEADLOCK FALSE
