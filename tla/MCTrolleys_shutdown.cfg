\* main must end every passenger thread after the last ride.
SPECIFICATION FairSpec
CONSTANTS
  p1 = p1
  p2 = p2
  p3 = p3
  p4 = p4
  p5 = p5
  p6 = p6
  Passengers <- ThreePassengers
  T = 2
  C = 1
  N = 1
  SpuriousWakeups = FALSE
PROPERTIES
  EveryThreadEnds
CHECK_DEADLOCK FALSE
