\* Everybody may receive SIGINT, loaders may come too early, and a package of
\* 3 kg is too heavy for the truck (zad1).
SPECIFICATION ServedSpec
CONSTANTS
  l1 = l1
  l2 = l2
  NoLoader = NoLoader
  Loaders <- TwoLoaders
  Weights <- AnyWeights
  C = 1
  X = 2
  K = 2
  M = 3
  Word = 16
  Posix = FALSE
  EarlyLoaders = TRUE
  LoaderSignals = TRUE
  TruckerSignals = TRUE
INVARIANTS
  TypeOK
  MutualExclusion
PROPERTIES
  LoadersEnd
CHECK_DEADLOCK FALSE
