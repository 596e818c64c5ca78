\* Queues of three messages, as many as fit the limits of Linux.
SPECIFICATION FairSpec
CONSTANTS
  c1 = c1
  c2 = c2
  c3 = c3
  Nobody = Nobody
  Clients <- TwoClients
  Capacity = 3
  Commands = {"ECHO"}
  Named = {}
  MaxCommands = 4
  Leaving = FALSE
  ServerSignals = {"receive"}
  ClientSignals = FALSE
  EarlySignals = FALSE
PROPERTIES
  ServerLeaves
CHECK_DEADLOCK FALSE
