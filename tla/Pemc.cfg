CONSTANTS
  Threads = {worker}
  worker = worker
  StateIndexes = {0, 1, 2, 3, 4, 5, 6, 7, 8, 9, 10, 11, 12}
  Transitions = {}
  Chains = {}
  Capacities = {}
  NoEntry = NoEntry
  One <- One4
  Weight = 4
  MaxBound = 5
  Formulas = {}
  ProgramStates <- DiceStates
  Programs <- SmallPrograms
  Configurations <- Configs
  MaximalStates = 13
  MaximalSearchDepth = 5
  Debug = TRUE
  NoState = NoState
  ChooseMaxOptions = 2
  MaxLabels = 3
SPECIFICATION PemcSpec
CHECK_DEADLOCK FALSE
INVARIANTS
  PemcTypeOK
  ChainIsProgram
  AnswersAreProbabilities
  VerdictsAgree
PROPERTIES
  CallsReturn
