\* A client asks a second time before it has its first answer.
SPECIFICATION FairSpec
CONSTANTS
  c1 = c1
  c2 = c2
  Nobody = Nobody
  Clients <- TwoClients
  Capacity = 10
  Commands = {"ECHO"}
  MaxCommands = 2
  Leaving = FALSE
  ServerSignals = {}
  ClientSignals = FALSE
PROPERTIES
  RequestsAnswered
CHECK_DEADLOCK FALSE
