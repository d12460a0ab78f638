CONSTANTS
  StateIndexes <- Indexes
  Capacity = 4
  Debug = TRUE
  MaxEntries = 5
SPECIFICATION Spec
INVARIANTS
  PathHasTopmostStates
