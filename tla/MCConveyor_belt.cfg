\* Two loaders with two packages each on a belt of two places: the ring wraps
\* round.  Every package fits the truck; no signals.
SPECIFICATION FairSpec
CONSTANTS
  l1 = l1
  l2 = l2
  NoLoader = NoLoader
  Loaders <- TwoLoaders
  Weights <- LightWeights
  C = 2
  X = 2
  K = 2
  M = 3
  Word = 16
  Posix = TRUE
  EarlyLoaders = FALSE
  LoaderSignals = FALSE
  TruckerSignals = FALSE
INVARIANTS
  CommittedIsKept
PROPERTIES
  ImplementsBelt
  EverythingDelivered
CHECK_DEADLOCK FALSE
