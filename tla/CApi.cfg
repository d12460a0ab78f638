CONSTANTS
  f = f
  g = g
  l = l
  m = m
  c = c
  d = d
  Formulas <- FG
  Chains <- LM
  NoLmc = NoLmc
  Calls <- CD
  MaxHeld = 2
  MaxLost = 1
SPECIFICATION FairSpec
CHECK_DEADLOCK FALSE
INVARIANTS
  TypeOK
  RefsAreHolders
  UsedIsAlive
  UnusedIsDestroyed
  ObjectsAreUsable
PROPERTIES
  GivenBackIsDestroyed
