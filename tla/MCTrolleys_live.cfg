\* No symmetry: the properties are temporal.  No spurious wakeups, which could
\* hide a missing broadcast.
SPECIFICATION FairSpec
CONSTANTS
  p1 = p1
  p2 = p2
  p3 = p3
  p4 = p4
  p5 = p5
  p6 = p6
  Passengers <- FourPassengers
  T = 2
  C = 2
  N = 2
  SpuriousWakeups = FALSE
PROPERTIES
  EveryRideHappens
  EverybodyGetsOut
CHECK_DEADLOCK FALSE
