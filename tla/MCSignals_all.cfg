\* Every mode, both builds, a sender that is too early and one that is not.
SPECIFICATION Spec
CONSTANTS
  Modes <- AllModes
  Builds <- BothBuilds
  Starts <- BothStarts
  N = 4
INVARIANTS
  TypeOK
  RealTimeLossless
  OneGetsThrough
  ConfirmedAll
  OneAtATime
  NothingInvented
CHECK_DEADLOCK FALSE
