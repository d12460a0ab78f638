CONSTANTS
  t1 = t1
  t2 = t2
  Threads <- TwoThreads
  StateIndexes = {0, 1, 2}
  Transitions <- SomeTransitions
  Chains <- SmallChains
  Capacities = {4, 10}
  NoEntry = NoEntry
  One <- Unit
  Weight = 3
  MaxBound = 3
  Formulas <- UntilFormulas
SPECIFICATION CheckerSpec
CHECK_DEADLOCK FALSE
SYMMETRY ThreadSymmetry
INVARIANTS
  ExcludesDirectly
