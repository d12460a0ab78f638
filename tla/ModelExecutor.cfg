CONSTANTS
  Weight = 6
  MaxDepth = 3
  Steps <- SomeSteps
  SuccessorCapacity = 8
SPECIFICATION FairSpec
CHECK_DEADLOCK FALSE
INVARIANTS
  TypeOK
  EnumeratesEveryPath
  PayloadIsDistribution
  NothingStrangeOccurs
PROPERTIES
  CalculationEnds
