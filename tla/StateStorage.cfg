CONSTANTS
  t1 = t1
  t2 = t2
  a = a
  b = b
  c = c
  Threads <- TwoThreads
  States <- ABC
  NoState = NoState
  Torn = Torn
  Reserved = Reserved
  ZeroState = a
  TotalCapacity = 6
  BucketsPerCacheLine = 2
  ProbeThreshold = 3
  MemoRange = 2
  RawHash <- CollidingHash
  MaxReserved = 1
SPECIFICATION FairSpec
INVARIANTS
  TypeOK
  NeverThrows
  ComparesFinishedStates
  ReservedSlotsKept
  AnswerReadsBack
  NoDuplicateStates
PROPERTIES
  ImplementsAbstractStorage
  SlotLifeCycle
  EveryCallAnswered
