\* Three trolleys of two seats and two rides each.  Every thread ends, so the
\* program may stop.
SPECIFICATION Spec
CONSTANTS
  p1 = p1
  p2 = p2
  p3 = p3
  p4 = p4
  p5 = p5
  p6 = p6
  Passengers <- SixPassengers
  T = 3
  C = 2
  N = 2
  SpuriousWakeups = TRUE
SYMMETRY PassengerSymmetry
INVARIANTS
  TypeOK
  StationInv
  RideTogether
  ButtonPressed
  InOrder
PROPERTIES
  OnlyThroughTheOpenDoor
  ImplementsRollerCoaster
CHECK_DEADLOCK FALSE
