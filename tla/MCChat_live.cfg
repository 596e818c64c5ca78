\* Two clients and every command; queues with room for all messages.
SPECIFICATION FairSpec
CONSTANTS
  c1 = c1
  c2 = c2
  c3 = c3
  Nobody = Nobody
  Clients <- TwoClients
  Capacity = 6
  Commands = {"ECHO", "FRIENDS", "ADD", "2ALL", "2FRIENDS"}
  Named = {1, 2}
  MaxCommands = 2
  Leaving = FALSE
  ServerSignals = {"receive", "send"}
  ClientSignals = FALSE
  EarlySignals = TRUE
PROPERTIES
  RequestsAnswered
  ServerLeaves
CHECK_DEADLOCK FALSE
