CONSTANTS
  a = a
  b = b
  c = c
  d = d
  States <- ABCD
  Stuttering = Stuttering
  Models <- SmallModels
  MaximalStates = 4
  MaximalSearchDepth = 3
  Debug = TRUE
SPECIFICATION FairSpec
CHECK_DEADLOCK FALSE
INVARIANTS
  TypeOK
  PendingStatesAreTracked
  FinishedIsComplete
  ReachabilityIsCorrect
  LastStatesFormPath
PROPERTIES
  TraversalEnds
