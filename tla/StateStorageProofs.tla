------------------------- MODULE StateStorageProofs -------------------------
(***************************************************************************)
(* Proofs about StateStorage for any number of threads and states, any     *)
(* capacity, cache line, probe count and hash function: types, the answers *)
(* and the life of a slot; that the lock-free table implements the         *)
(* abstract storage; and what RawMemory's functions, by which the storage  *)
(* tells state vectors apart and keeps them, compute for every size.       *)
(***************************************************************************)
EXTENDS StateStorage, RawMemory, FiniteSetTheorems, SequenceTheorems, TLAPS

-----------------------------------------------------------------------------
(***************************************************************************)
(* Typing.  That indexes stay below the capacity needs more than types, so *)
(* they are natural numbers here and bounded below.                        *)
(***************************************************************************)
TypeInv ==
  /\ savedStates \in Nat
  /\ reservedStatesCapacity \in 0..MaxReserved
  /\ cachedStatesCapacity = ClearedCapacity - reservedStatesCapacity
  /\ indexMapper \in [Slots -> Nat \cup {-1}]
  /\ hashes \in [Slots -> SlotValues]
  /\ stateMemory \in [Slots -> States \cup {Torn}]
  /\ pc \in [Threads -> Labels]
  /\ state \in [Threads -> States \cup {NoState}]
  /\ probe \in [Threads -> Probes]
  /\ bucket \in [Threads -> Buckets]
  /\ currentValue \in [Threads -> SlotValues]
  /\ compactIndex \in [Threads -> Nat \cup {-1}]
  /\ isNew \in [Threads -> BOOLEAN]
  /\ \A t \in Threads : pc[t] # "idle" => state[t] \in States

\* The slots that addState can reach when the modulus is capacity.
Reach(capacity) == 0..capacity + BucketsPerCacheLine - 2

-----------------------------------------------------------------------------
(***************************************************************************)
(* What the inductive invariants say.  A thread owns the slot that it has  *)
(* claimed and not yet published.                                          *)
(***************************************************************************)
Owning == {"fetch", "map", "copy", "copying", "publish"}

\* A slot is claimed by one thread, and a claimed slot is never empty again.
SlotInv ==
  /\ \A o \in Slots : hashes[o].phase = "empty" => hashes[o] = Empty
  /\ \A t \in Threads :
       /\ pc[t] \in Owning => hashes[Slot(t)] = Writing(Memo(t))
       /\ pc[t] = "exchange" /\ currentValue[t] # Empty => hashes[Slot(t)] # Empty
       /\ pc[t] \in {"reload", "spin", "lookup", "compare"} =>
            hashes[Slot(t)] # Empty
       /\ pc[t] \in {"spin", "lookup", "compare"} =>
            hashes[Slot(t)].memo = Memo(t)
       /\ pc[t] \in {"lookup", "compare", "done"} =>
            hashes[Slot(t)].phase = "written"
  /\ \A t, u \in Threads :
       pc[t] \in Owning /\ pc[u] \in Owning /\ Slot(t) = Slot(u) => t = u

\* The slots whose claimer has been given its state index.
Numbered ==
  {o \in Slots : /\ hashes[o] # Empty
                 /\ \A t \in Threads : pc[t] = "fetch" => Slot(t) # o}

\* fetch_add counts the claimed slots, which all lie below the reserved ones.
CountInv ==
  /\ \A o \in Slots : hashes[o] # Empty => o \in Reach(cachedStatesCapacity)
  /\ savedStates = reservedStatesCapacity + Cardinality(Numbered)

\* The indexes that are remembered have been given out since the last clear.
BoundInv ==
  /\ \A o \in Slots : indexMapper[o] < savedStates
  /\ \A t \in Threads : compactIndex[t] < savedStates
  /\ \A t \in Threads : pc[t] = "idle" => compactIndex[t] = -1
  /\ \A t \in Threads : pc[t] \in {"map", "copy", "copying", "publish"} =>
                          compactIndex[t] # -1

IndInv ==
  /\ TypeInv
  /\ SlotInv
  /\ CountInv
  /\ BoundInv
  /\ NeverThrows
  /\ ReservedSlotsKept

LEMMA DivisionFacts ==
  ASSUME NEW h \in Nat, NEW n \in Nat \ {0}
  PROVE  /\ h % n \in 0..n - 1
         /\ (h \div n) * n \in Nat
         /\ (h \div n) * n <= h
  OBVIOUS

LEMMA OffsetInReach ==
  ASSUME TypeInv, NEW s \in States, NEW i \in Probes, NEW j \in Buckets
  PROVE  /\ HashedIndex(s, i) \in 0..cachedStatesCapacity - 1
         /\ MemoizedHash(s, i) \in 0..MemoRange - 1
         /\ Offset(s, i, j) \in Reach(cachedStatesCapacity)
         /\ Offset(s, i, j) \in Slots
<1>1. cachedStatesCapacity \in Nat \ {0}
  BY CapacityAssumption DEF TypeInv, ClearedCapacity
<1>2. RawHash[s][i] \in Nat
  BY HashAssumption DEF Probes
<1>3. HashedIndex(s, i) \in 0..cachedStatesCapacity - 1
  <2>1. PICK raw \in Nat : raw = RawHash[s][i]
    BY <1>2
  <2>2. raw % cachedStatesCapacity \in 0..cachedStatesCapacity - 1
    BY <1>1, DivisionFacts
  <2> QED BY <2>1, <2>2 DEF HashedIndex
<1>4. PICK h \in Nat : h = HashedIndex(s, i)
  BY <1>1, <1>3
<1>5. h % MemoRange \in 0..MemoRange - 1
  BY DivisionFacts, HashAssumption
<1>6. /\ (h \div BucketsPerCacheLine) * BucketsPerCacheLine \in Nat
      /\ (h \div BucketsPerCacheLine) * BucketsPerCacheLine <= h
  BY DivisionFacts, CapacityAssumption
<1>7. (h + j) % BucketsPerCacheLine \in 0..BucketsPerCacheLine - 1
  <2>1. PICK k \in Nat : k = h + j
    BY DEF Buckets
  <2>2. k % BucketsPerCacheLine \in 0..BucketsPerCacheLine - 1
    BY DivisionFacts, CapacityAssumption
  <2> QED BY <2>1, <2>2
<1>8. /\ Offset(s, i, j) = (h \div BucketsPerCacheLine) * BucketsPerCacheLine
                              + ((h + j) % BucketsPerCacheLine)
      /\ h <= cachedStatesCapacity - 1
  BY <1>3, <1>4 DEF Offset
<1>9. Offset(s, i, j) \in Reach(cachedStatesCapacity)
  <2> DEFINE line  == (h \div BucketsPerCacheLine) * BucketsPerCacheLine
             place == (h + j) % BucketsPerCacheLine
  <2> HIDE DEF line, place
  <2>1. /\ line \in Nat /\ line <= h
        /\ place \in 0..BucketsPerCacheLine - 1
        /\ Offset(s, i, j) = line + place
    BY <1>6, <1>7, <1>8 DEF line, place
  <2> QED BY <1>1, <1>8, <2>1, CapacityAssumption DEF Reach
<1>10. Reach(cachedStatesCapacity) \subseteq Slots
  BY CapacityAssumption DEF Reach, Slots, TypeInv, ClearedCapacity
<1> QED BY <1>3, <1>4, <1>5, <1>9, <1>10 DEF MemoizedHash

\* Each thread inside addState stands at a slot that its loops can reach.
LEMMA SlotOfThread ==
  ASSUME TypeInv, NEW t \in Threads, pc[t] # "idle"
  PROVE  /\ Slot(t) \in Slots
         /\ Slot(t) \in Reach(cachedStatesCapacity)
         /\ Memo(t) \in 0..MemoRange - 1
<1>1. state[t] \in States /\ probe[t] \in Probes /\ bucket[t] \in Buckets
  BY DEF TypeInv
<1> QED BY <1>1, OffsetInReach DEF Slot, Memo

\* A thread's slot and memoized hash depend on its loop variables alone.
LEMMA SlotStays ==
  ASSUME NEW t \in Threads,
         cachedStatesCapacity' = cachedStatesCapacity,
         state'[t] = state[t], probe'[t] = probe[t], bucket'[t] = bucket[t]
  PROVE  Slot(t)' = Slot(t) /\ Memo(t)' = Memo(t)
BY DEF Slot, Memo, Offset, MemoizedHash, HashedIndex

\* The loops go on within their bounds, or the thread gives up.
LEMMA NextBucketTyped ==
  ASSUME TypeInv, NEW t \in Threads, NextBucket(t)
  PROVE  /\ probe' \in [Threads -> Probes]
         /\ bucket' \in [Threads -> Buckets]
         /\ pc' \in [Threads -> Labels]
         /\ \A u \in Threads : u # t => pc'[u] = pc[u]
         /\ \A u \in Threads : u # t => probe'[u] = probe[u] /\ bucket'[u] = bucket[u]
         /\ pc'[t] \in {"load", "outOfMemory"}
<1>1. BucketsPerCacheLine \in Nat \ {0} /\ ProbeThreshold \in Nat /\ ProbeThreshold > 1
  BY CapacityAssumption, HashAssumption
<1>2. CASE bucket[t] + 1 < BucketsPerCacheLine
  BY <1>1, <1>2 DEF NextBucket, Goto, TypeInv, Buckets, Labels
<1>3. CASE ~(bucket[t] + 1 < BucketsPerCacheLine) /\ probe[t] + 1 < ProbeThreshold
  BY <1>1, <1>3 DEF NextBucket, Goto, TypeInv, Buckets, Probes, Labels
<1>4. CASE ~(bucket[t] + 1 < BucketsPerCacheLine) /\ ~(probe[t] + 1 < ProbeThreshold)
  BY <1>1, <1>4 DEF NextBucket, Goto, TypeInv, Labels
<1> QED BY <1>2, <1>3, <1>4

-----------------------------------------------------------------------------
LEMMA InitTypeInv == Init => TypeInv
<1> SUFFICES ASSUME Init PROVE TypeInv
  OBVIOUS
<1>1. Empty \in SlotValues
  BY HashAssumption DEF Empty, SlotValues
<1>2. 1 \in Probes /\ 0 \in Buckets
  BY HashAssumption, CapacityAssumption DEF Probes, Buckets
<1>3. cachedStatesCapacity = ClearedCapacity - 0
  BY CapacityAssumption DEF Init, ClearedCapacity
<1> QED BY <1>1, <1>2, <1>3, StatesAssumption, CapacityAssumption
        DEF Init, TypeInv, Labels

LEMMA NextTypeInv == TypeInv /\ [Next]_vars => TypeInv'
<1> SUFFICES ASSUME TypeInv, [Next]_vars PROVE TypeInv'
  OBVIOUS
<1>0. /\ Empty \in SlotValues
      /\ 1 \in Probes /\ 0 \in Buckets
      /\ ClearedCapacity \in Nat
  BY HashAssumption, CapacityAssumption
  DEF Empty, SlotValues, Probes, Buckets, ClearedCapacity
<1>1. ASSUME Clear PROVE TypeInv'
  BY <1>0, <1>1, CapacityAssumption DEF Clear, TypeInv, locals
<1>2. ASSUME Reserve PROVE TypeInv'
  <2>1. reservedStatesCapacity + 1 \in 0..MaxReserved
    BY <1>2, CapacityAssumption DEF Reserve, ReserveIn, TypeInv
  <2>2. cachedStatesCapacity' = ClearedCapacity - reservedStatesCapacity'
    BY <1>0, <1>2, CapacityAssumption DEF Reserve, ReserveIn, TypeInv
  <2>3. savedStates \in Nat /\ savedStates + 1 \in Nat
    BY DEF TypeInv
  <2>4. indexMapper' \in [Slots -> Nat \cup {-1}]
    BY <1>2, <2>3 DEF Reserve, ReserveIn, TypeInv
  <2> QED BY <1>2, <2>1, <2>2, <2>3, <2>4
          DEF Reserve, ReserveIn, TypeInv, locals, ClearedCapacity
<1>3. ASSUME NEW t \in Threads, NEW s \in States, Call(t, s) PROVE TypeInv'
  BY <1>0, <1>3 DEF Call, Goto, TypeInv, Labels, shared
<1>4. ASSUME NEW t \in Threads, Return(t) PROVE TypeInv'
  BY <1>0, <1>4 DEF Return, Goto, TypeInv, Labels, shared
<1>5. ASSUME NEW t \in Threads, Step(t) PROVE TypeInv'
  <2>0. pc[t] # "idle"
    BY <1>5 DEF Step, Load, Exchange, ExchangeFails, Fetch, Map, BeginCopy,
      EndCopy, WriteMemory, Publish, PublishAs, ReloadMatch, ReloadMismatch,
      Spin, Lookup, CompareEqual, CompareDiffers
  <2>1. /\ Slot(t) \in Slots
        /\ hashes[Slot(t)] \in SlotValues
        /\ indexMapper[Slot(t)] \in Nat \cup {-1}
        /\ Writing(Memo(t)) \in SlotValues
        /\ Written(Memo(t)) \in SlotValues
        /\ state[t] \in States
    BY <2>0, SlotOfThread DEF TypeInv, Writing, Written, SlotValues
  <2>2. CASE Load(t)
    BY <2>1, <2>2 DEF Load, Goto, TypeInv, Labels, shared
  <2>3. CASE Exchange(t)
    BY <2>1, <2>3 DEF Exchange, Goto, TypeInv, Labels
  <2>4. CASE ExchangeFails(t)
    BY <2>1, <2>4 DEF ExchangeFails, Goto, TypeInv, Labels, shared
  <2>5. CASE Fetch(t)
    BY <2>1, <2>5 DEF Fetch, Goto, TypeInv, Labels
  <2>6. CASE Map(t)
    <3>1. compactIndex[t] \in Nat \cup {-1}
      BY DEF TypeInv
    <3> QED BY <2>1, <2>6, <3>1 DEF Map, Goto, TypeInv, Labels
  <2>7. CASE BeginCopy(t)
    BY <2>1, <2>7 DEF BeginCopy, WriteMemory, Goto, TypeInv, Labels
  <2>8. CASE EndCopy(t)
    BY <2>1, <2>8 DEF EndCopy, WriteMemory, Goto, TypeInv, Labels
  <2>9. CASE Publish(t)
    BY <2>1, <2>9 DEF Publish, PublishAs, Goto, TypeInv, Labels
  <2>10. CASE ReloadMatch(t)
    BY <2>1, <2>10 DEF ReloadMatch, AfterLoad, Goto, TypeInv, Labels, shared
  <2>11. CASE ReloadMismatch(t)
    BY <2>0, <2>1, <2>11, NextBucketTyped DEF ReloadMismatch, TypeInv, shared
  <2>12. CASE Spin(t)
    BY <2>1, <2>12 DEF Spin, AfterLoad, Goto, TypeInv, Labels, shared
  <2>13. CASE Lookup(t)
    BY <2>1, <2>13 DEF Lookup, Goto, TypeInv, Labels, shared
  <2>14. CASE CompareEqual(t)
    BY <2>1, <2>14 DEF CompareEqual, Goto, TypeInv, Labels, shared
  <2>15. CASE CompareDiffers(t)
    BY <2>0, <2>1, <2>15, NextBucketTyped DEF CompareDiffers, TypeInv, shared
  <2> QED BY <1>5, <2>2, <2>3, <2>4, <2>5, <2>6, <2>7, <2>8, <2>9, <2>10,
             <2>11, <2>12, <2>13, <2>14, <2>15 DEF Step
<1>6. CASE UNCHANGED vars
  BY <1>6 DEF TypeInv, vars, shared, locals
<1> QED BY <1>1, <1>2, <1>3, <1>4, <1>5, <1>6 DEF Next

-----------------------------------------------------------------------------
\* An empty, a claimed and a written slot are told apart by their phase.
LEMMA PhasesDiffer ==
  ASSUME NEW m, NEW n
  PROVE  /\ Writing(m) # Empty
         /\ Written(m) # Empty
         /\ Writing(m) # Written(n)
<1>1. /\ Empty.phase = "empty"
      /\ Writing(m).phase = "writing"
      /\ Written(m).phase = "written"
      /\ Written(n).phase = "written"
  BY DEF Empty, Writing, Written
<1> QED BY <1>1

(***************************************************************************)
(* What one step of addState leaves alone.                                 *)
(***************************************************************************)
LEMMA StepOfOthers ==
  ASSUME TypeInv, NEW t \in Threads, Step(t)
  PROVE  /\ cachedStatesCapacity' = cachedStatesCapacity
         /\ reservedStatesCapacity' = reservedStatesCapacity
         /\ state' = state
         /\ \A u \in Threads : u # t =>
              /\ pc'[u] = pc[u]
              /\ currentValue'[u] = currentValue[u]
              /\ compactIndex'[u] = compactIndex[u]
              /\ Slot(u)' = Slot(u)
              /\ Memo(u)' = Memo(u)
<1>1. /\ cachedStatesCapacity' = cachedStatesCapacity
      /\ reservedStatesCapacity' = reservedStatesCapacity
      /\ state' = state
      /\ \A u \in Threads : u # t =>
           /\ pc'[u] = pc[u]
           /\ currentValue'[u] = currentValue[u]
           /\ compactIndex'[u] = compactIndex[u]
           /\ probe'[u] = probe[u]
           /\ bucket'[u] = bucket[u]
  <2>1. CASE ReloadMismatch(t)
    BY <2>1, NextBucketTyped DEF ReloadMismatch, TypeInv, shared
  <2>2. CASE CompareDiffers(t)
    BY <2>2, NextBucketTyped DEF CompareDiffers, TypeInv, shared
  <2>3. CASE Load(t) \/ Exchange(t) \/ ExchangeFails(t) \/ Fetch(t) \/ Map(t)
    BY <2>3 DEF Load, Exchange, ExchangeFails, Fetch, Map, Goto, TypeInv, shared
  <2>4. CASE BeginCopy(t) \/ EndCopy(t) \/ Publish(t)
    BY <2>4 DEF BeginCopy, EndCopy, WriteMemory, Publish, PublishAs, Goto, TypeInv
  <2>5. CASE ReloadMatch(t) \/ Spin(t) \/ Lookup(t) \/ CompareEqual(t)
    BY <2>5 DEF ReloadMatch, Spin, Lookup, CompareEqual, Goto, TypeInv, shared
  <2> QED BY <2>1, <2>2, <2>3, <2>4, <2>5 DEF Step
<1> QED BY <1>1, SlotStays

\* Only a claim and a publication change a slot, and only the acting thread's.
LEMMA StepOfSlots ==
  ASSUME TypeInv, SlotInv, NEW t \in Threads, Step(t), NEW o \in Slots
  PROVE  \/ hashes'[o] = hashes[o]
         \/ /\ o = Slot(t) /\ hashes[o] = Empty /\ Exchange(t)
            /\ hashes'[o] = Writing(Memo(t))
         \/ /\ o = Slot(t) /\ hashes[o] = Writing(Memo(t)) /\ Publish(t)
            /\ hashes'[o] = Written(Memo(t))
<1>1. CASE Exchange(t)
  BY <1>1 DEF Exchange, TypeInv
<1>2. CASE Publish(t)
  BY <1>2 DEF Publish, PublishAs, TypeInv, SlotInv, Owning
<1>3. CASE ~Exchange(t) /\ ~Publish(t)
  BY <1>3 DEF Step, Load, ExchangeFails, Fetch, Map, BeginCopy, EndCopy,
    WriteMemory, ReloadMatch, ReloadMismatch, Spin, Lookup, CompareEqual,
    CompareDiffers, shared
<1> QED BY <1>1, <1>2, <1>3

\* A slot that is not empty keeps its memoized hash, and stays so.
LEMMA SlotsKept ==
  ASSUME TypeInv, SlotInv, NEW t \in Threads, Step(t), NEW o \in Slots,
         hashes[o] # Empty
  PROVE  /\ hashes'[o] # Empty
         /\ hashes'[o].memo = hashes[o].memo
         /\ hashes[o].phase = "written" => hashes'[o] = hashes[o]
<1>1. \/ hashes'[o] = hashes[o]
      \/ hashes[o] = Writing(Memo(t)) /\ hashes'[o] = Written(Memo(t))
  BY StepOfSlots
<1>2. Written(Memo(t)) # Empty
  BY PhasesDiffer
<1>3. /\ Writing(Memo(t)).memo = Written(Memo(t)).memo
      /\ Writing(Memo(t)).phase # "written"
  BY DEF Writing, Written
<1> QED BY <1>1, <1>2, <1>3

-----------------------------------------------------------------------------
(***************************************************************************)
(* Claims.                                                                 *)
(***************************************************************************)
\* What SlotInv says of one thread.
ThreadSlotInv(t) ==
  /\ pc[t] \in Owning => hashes[Slot(t)] = Writing(Memo(t))
  /\ pc[t] = "exchange" /\ currentValue[t] # Empty => hashes[Slot(t)] # Empty
  /\ pc[t] \in {"reload", "spin", "lookup", "compare"} => hashes[Slot(t)] # Empty
  /\ pc[t] \in {"spin", "lookup", "compare"} => hashes[Slot(t)].memo = Memo(t)
  /\ pc[t] \in {"lookup", "compare", "done"} => hashes[Slot(t)].phase = "written"

\* A step of one thread does not disturb what another one knows of its slot.
LEMMA SlotInvOfOthers ==
  ASSUME TypeInv, SlotInv, NEW t \in Threads, Step(t),
         NEW u \in Threads, u # t
  PROVE  ThreadSlotInv(u)'
<1>1. /\ pc'[u] = pc[u] /\ currentValue'[u] = currentValue[u]
      /\ Slot(u)' = Slot(u) /\ Memo(u)' = Memo(u)
  BY StepOfOthers
<1>2. ThreadSlotInv(u)
  BY DEF SlotInv, ThreadSlotInv
<1>3. CASE pc[u] = "idle"
  BY <1>1, <1>3 DEF ThreadSlotInv, Owning
<1>4. CASE pc[u] # "idle"
  <2>1. Slot(u) \in Slots
    BY <1>4, SlotOfThread
  <2>2. /\ hashes[Slot(u)] # Empty => /\ hashes'[Slot(u)] # Empty
                                      /\ hashes'[Slot(u)].memo = hashes[Slot(u)].memo
        /\ hashes[Slot(u)].phase = "written" => hashes'[Slot(u)] = hashes[Slot(u)]
    <3>1. hashes[Slot(u)].phase = "written" => hashes[Slot(u)] # Empty
      BY DEF Empty
    <3> QED BY <2>1, <3>1, SlotsKept
  <2>3. pc[u] \in Owning => hashes'[Slot(u)] = Writing(Memo(u))
    <3> SUFFICES ASSUME pc[u] \in Owning PROVE hashes'[Slot(u)] = Writing(Memo(u))
      OBVIOUS
    <3>1. hashes[Slot(u)] = Writing(Memo(u)) /\ hashes[Slot(u)] # Empty
      BY <1>2, PhasesDiffer DEF ThreadSlotInv
    <3>2. Publish(t) => Slot(t) # Slot(u)
      BY DEF SlotInv, Owning, Publish, PublishAs
    <3> QED BY <2>1, <3>1, <3>2, StepOfSlots
  <2> QED BY <1>1, <1>2, <2>2, <2>3 DEF ThreadSlotInv
<1> QED BY <1>3, <1>4

\* The acting thread knows what it needs of the slot at which it goes on.
LEMMA SlotInvOfActor ==
  ASSUME TypeInv, SlotInv, NEW t \in Threads, Step(t)
  PROVE  ThreadSlotInv(t)'
<1>0. pc[t] # "idle"
  BY DEF Step, Load, Exchange, ExchangeFails, Fetch, Map, BeginCopy,
    EndCopy, WriteMemory, Publish, PublishAs, ReloadMatch, ReloadMismatch,
    Spin, Lookup, CompareEqual, CompareDiffers
<1>1. Slot(t) \in Slots /\ hashes[Slot(t)] \in SlotValues
  BY <1>0, SlotOfThread DEF TypeInv
<1>2. ThreadSlotInv(t)
  BY DEF SlotInv, ThreadSlotInv
<1>3. ~ReloadMismatch(t) /\ ~CompareDiffers(t)
        => Slot(t)' = Slot(t) /\ Memo(t)' = Memo(t)
  <2>1. ~ReloadMismatch(t) /\ ~CompareDiffers(t) => probe' = probe /\ bucket' = bucket
    BY DEF Step, Load, Exchange, ExchangeFails, Fetch, Map, BeginCopy, EndCopy,
      WriteMemory, Publish, PublishAs, ReloadMatch, Spin, Lookup, CompareEqual,
      shared
  <2> QED BY <2>1, StepOfOthers, SlotStays
<1>4. /\ hashes[Slot(t)] # Empty => hashes'[Slot(t)] # Empty
      /\ hashes[Slot(t)].phase = "empty" <=> hashes[Slot(t)] = Empty
  BY <1>1, SlotsKept DEF SlotInv, Empty
<1>5. CASE Load(t)
  BY <1>1, <1>3, <1>5 DEF Load, Goto, TypeInv, ThreadSlotInv, Owning, shared,
    ReloadMismatch, CompareDiffers
<1>6. CASE Exchange(t)
  BY <1>1, <1>2, <1>3, <1>6 DEF Exchange, Goto, TypeInv, ThreadSlotInv, Owning,
    ReloadMismatch, CompareDiffers
<1>7. CASE ExchangeFails(t)
  BY <1>1, <1>2, <1>3, <1>7 DEF ExchangeFails, Goto, TypeInv, ThreadSlotInv,
    Owning, shared, ReloadMismatch, CompareDiffers
<1>8. CASE Fetch(t) \/ Map(t)
  BY <1>1, <1>2, <1>3, <1>8 DEF Fetch, Map, Goto, TypeInv, ThreadSlotInv,
    Owning, ReloadMismatch, CompareDiffers
<1>9. CASE BeginCopy(t) \/ EndCopy(t)
  BY <1>1, <1>2, <1>3, <1>9 DEF BeginCopy, EndCopy, WriteMemory, Goto, TypeInv,
    ThreadSlotInv, Owning, ReloadMismatch, CompareDiffers
<1>10. CASE Publish(t)
  BY <1>1, <1>2, <1>3, <1>10 DEF Publish, PublishAs, Goto, TypeInv, Written,
    ThreadSlotInv, Owning, ReloadMismatch, CompareDiffers
<1>11. CASE ReloadMatch(t) \/ Spin(t)
  BY <1>1, <1>2, <1>3, <1>4, <1>11 DEF ReloadMatch, Spin, AfterLoad, Goto, TypeInv,
    ThreadSlotInv, Owning, ReloadMismatch, CompareDiffers, shared
<1>12. CASE Lookup(t) \/ CompareEqual(t)
  BY <1>1, <1>2, <1>3, <1>12 DEF Lookup, CompareEqual, Goto, TypeInv,
    ThreadSlotInv, Owning, ReloadMismatch, CompareDiffers, shared
<1>13. CASE ReloadMismatch(t) \/ CompareDiffers(t)
  BY <1>13, NextBucketTyped DEF ReloadMismatch, CompareDiffers, ThreadSlotInv,
    Owning
<1> QED BY <1>5, <1>6, <1>7, <1>8, <1>9, <1>10, <1>11, <1>12, <1>13 DEF Step

LEMMA InitSlotInv == Init => SlotInv
BY CapacityAssumption DEF Init, SlotInv, Owning

LEMMA NextSlotInv == TypeInv /\ SlotInv /\ [Next]_vars => SlotInv'
<1> SUFFICES ASSUME TypeInv, SlotInv, [Next]_vars PROVE SlotInv'
  OBVIOUS
<1>1. CASE Clear
  <2>1. \A t \in Threads : pc'[t] = "idle"
    BY <1>1 DEF Clear, Quiet, locals
  <2>2. \A o \in Slots : hashes'[o] = Empty
    BY <1>1 DEF Clear
  <2> QED BY <2>1, <2>2 DEF SlotInv, Owning
<1>2. CASE Reserve
  <2>1. \A t \in Threads : pc'[t] = "idle"
    BY <1>2 DEF Reserve, ReserveIn, Quiet, locals
  <2>2. hashes' = hashes
    BY <1>2 DEF Reserve, ReserveIn
  <2> QED BY <2>1, <2>2 DEF SlotInv, Owning
<1>3. ASSUME NEW t \in Threads,
             Return(t) \/ \E s \in States : Call(t, s)
      PROVE  SlotInv'
  <2>1. /\ hashes' = hashes
        /\ pc'[t] \in {"idle", "load"}
        /\ \A u \in Threads : u # t =>
             /\ pc'[u] = pc[u] /\ currentValue'[u] = currentValue[u]
             /\ Slot(u)' = Slot(u) /\ Memo(u)' = Memo(u)
    <3>1. /\ hashes' = hashes
          /\ cachedStatesCapacity' = cachedStatesCapacity
          /\ pc'[t] \in {"idle", "load"}
          /\ \A u \in Threads : u # t =>
               /\ pc'[u] = pc[u] /\ currentValue'[u] = currentValue[u]
               /\ state'[u] = state[u] /\ probe'[u] = probe[u]
               /\ bucket'[u] = bucket[u]
      BY <1>3 DEF Call, Return, Goto, TypeInv, shared
    <3> QED BY <3>1, SlotStays
  <2> QED BY <2>1 DEF SlotInv, Owning
<1>4. ASSUME NEW t \in Threads, Step(t) PROVE SlotInv'
  <2>1. ASSUME NEW o \in Slots, hashes'[o].phase = "empty" PROVE hashes'[o] = Empty
    <3>1. Writing(Memo(t)).phase # "empty" /\ Written(Memo(t)).phase # "empty"
      BY DEF Writing, Written
    <3>2. hashes'[o] = hashes[o]
      BY <1>4, <2>1, <3>1, StepOfSlots
    <3> QED BY <2>1, <3>2 DEF SlotInv
  <2>2. \A u \in Threads : ThreadSlotInv(u)'
    BY <1>4, SlotInvOfActor, SlotInvOfOthers
  <2>3. ASSUME NEW u \in Threads, NEW v \in Threads,
               pc'[u] \in Owning, pc'[v] \in Owning, Slot(u)' = Slot(v)'
        PROVE  u = v
    <3>1. \A w \in Threads : w # t => pc'[w] = pc[w] /\ Slot(w)' = Slot(w)
      BY <1>4, StepOfOthers
    <3>2. \A w \in Threads : pc[w] \in Owning => hashes[Slot(w)] # Empty
      BY PhasesDiffer DEF SlotInv
    <3>3. pc'[t] \in Owning =>
            /\ Slot(t)' = Slot(t)
            /\ pc[t] \in Owning \/ hashes[Slot(t)] = Empty
      <4> SUFFICES ASSUME pc'[t] \in Owning
                   PROVE  /\ Slot(t)' = Slot(t)
                          /\ pc[t] \in Owning \/ hashes[Slot(t)] = Empty
        OBVIOUS
      <4>1. CASE Exchange(t)
        <5>1. probe' = probe /\ bucket' = bucket /\ hashes[Slot(t)] = Empty
          BY <4>1 DEF Exchange
        <5> QED BY <1>4, <5>1, StepOfOthers, SlotStays
      <4>2. CASE Fetch(t) \/ Map(t) \/ BeginCopy(t) \/ EndCopy(t)
        <5>1. probe' = probe /\ bucket' = bucket /\ pc[t] \in Owning
          BY <4>2 DEF Fetch, Map, BeginCopy, EndCopy, WriteMemory, Owning
        <5> QED BY <1>4, <5>1, StepOfOthers, SlotStays
      <4>3. CASE ReloadMismatch(t) \/ CompareDiffers(t)
        <5>1. pc'[t] \in {"load", "outOfMemory"}
          BY <4>3, NextBucketTyped DEF ReloadMismatch, CompareDiffers
        <5> QED BY <5>1 DEF Owning
      <4>4. CASE \/ Load(t) \/ ExchangeFails(t) \/ Publish(t) \/ ReloadMatch(t)
                 \/ Spin(t) \/ Lookup(t) \/ CompareEqual(t)
        BY <4>4 DEF Load, ExchangeFails, Publish, PublishAs, ReloadMatch, Spin,
          Lookup, CompareEqual, AfterLoad, Goto, TypeInv, Owning
      <4> QED BY <1>4, <4>1, <4>2, <4>3, <4>4 DEF Step
    <3> QED BY <2>3, <3>1, <3>2, <3>3 DEF SlotInv
  <2> QED BY <2>1, <2>2, <2>3 DEF SlotInv, ThreadSlotInv
<1>5. CASE UNCHANGED vars
  BY <1>5 DEF SlotInv, vars, shared, locals, Slot, Memo, Offset, MemoizedHash,
    HashedIndex
<1> QED BY <1>1, <1>2, <1>3, <1>4, <1>5 DEF Next

-----------------------------------------------------------------------------
(***************************************************************************)
(* Counting.  fetch_add numbers the claimed slots, and there are fewer of  *)
(* them than indexes: that is why operator[] never throws.                 *)
(***************************************************************************)
LEMMA NumberedIsFinite ==
  ASSUME TypeInv, CountInv
  PROVE  /\ IsFiniteSet(Numbered)
         /\ Cardinality(Numbered) \in 0..TotalCapacity - reservedStatesCapacity - 1
         /\ savedStates <= TotalCapacity - 1
<1> DEFINE last == cachedStatesCapacity + BucketsPerCacheLine - 2
<1>1. /\ last \in Int /\ last = TotalCapacity - reservedStatesCapacity - 2
      /\ last + 1 \in Nat /\ reservedStatesCapacity \in Nat
  BY CapacityAssumption DEF TypeInv, ClearedCapacity
<1>2. Numbered \subseteq 0..last
  BY DEF CountInv, Numbered, Reach
<1> HIDE DEF last
<1>3. IsFiniteSet(0..last) /\ Cardinality(0..last) = last + 1
  BY <1>1, FS_Interval
<1>4. /\ IsFiniteSet(Numbered)
      /\ Cardinality(Numbered) <= Cardinality(0..last)
      /\ Cardinality(Numbered) \in Nat
  BY <1>2, <1>3, FS_Subset, FS_CardinalityType
<1> QED BY <1>1, <1>3, <1>4, CapacityAssumption DEF CountInv

\* While no state was added, no slot is claimed.
LEMMA NothingClaimed ==
  ASSUME TypeInv, CountInv, Quiet, savedStates = reservedStatesCapacity,
         NEW o \in Slots
  PROVE  hashes[o] = Empty
<1>1. /\ IsFiniteSet(Numbered) /\ Cardinality(Numbered) \in Nat
      /\ reservedStatesCapacity \in Nat
  BY NumberedIsFinite, CapacityAssumption, FS_CardinalityType DEF TypeInv
<1>2. Cardinality(Numbered) = 0
  BY <1>1 DEF CountInv
<1>3. Numbered = {}
  BY <1>1, <1>2, FS_EmptySet
<1> QED BY <1>3 DEF Numbered, Quiet

\* A claimed slot is not numbered before fetch_add, and nothing else changes
\* the numbered slots.
LEMMA StepOfNumbered ==
  ASSUME TypeInv, SlotInv, NEW t \in Threads, Step(t)
  PROVE  /\ Fetch(t) => Numbered' = Numbered \cup {Slot(t)} /\ Slot(t) \notin Numbered
         /\ ~Fetch(t) => Numbered' = Numbered /\ savedStates' = savedStates
<1>1. \A u \in Threads : u # t => pc'[u] = pc[u] /\ Slot(u)' = Slot(u)
  BY StepOfOthers
<1>2. CASE Fetch(t)
  <2>1. /\ hashes' = hashes /\ pc[t] = "fetch" /\ pc'[t] = "map"
        /\ Slot(t) \in Slots
    BY <1>2, SlotOfThread DEF Fetch, Goto, TypeInv
  <2>2. hashes[Slot(t)] # Empty
    BY <2>1, PhasesDiffer DEF SlotInv, Owning
  <2>3. \A u \in Threads : pc[u] = "fetch" /\ Slot(u) = Slot(t) => u = t
    BY <2>1 DEF SlotInv, Owning
  <2>4. Slot(t) \notin Numbered
    BY <2>1 DEF Numbered
  <2>5. \A o \in Slots : o \in Numbered' <=> o \in Numbered \/ o = Slot(t)
    BY <1>1, <2>1, <2>2, <2>3 DEF Numbered
  <2> QED BY <1>2, <2>1, <2>4, <2>5 DEF Numbered
<1>3. CASE Exchange(t)
  <2>1. /\ hashes[Slot(t)] = Empty /\ pc[t] = "exchange" /\ Slot(t) \in Slots
        /\ savedStates' = savedStates /\ probe' = probe /\ bucket' = bucket
    BY <1>3, SlotOfThread DEF Exchange
  <2>2. pc'[t] = "fetch"
    BY <1>3, <2>1 DEF Exchange, Goto, SlotInv, TypeInv
  <2>3. Slot(t)' = Slot(t)
    BY <2>1, SlotStays, StepOfOthers
  <2>4. \A o \in Slots : o # Slot(t) => hashes'[o] = hashes[o]
    BY StepOfSlots
  <2>5. \A o \in Slots : o \in Numbered' <=> o \in Numbered
    BY <1>1, <2>1, <2>2, <2>3, <2>4 DEF Numbered
  <2>6. ~Fetch(t)
    BY <2>1 DEF Fetch
  <2> QED BY <2>1, <2>5, <2>6 DEF Numbered
<1>4. CASE ~Fetch(t) /\ ~Exchange(t)
  <2>1. /\ pc[t] # "fetch" /\ pc'[t] # "fetch" /\ savedStates' = savedStates
    <3>1. CASE ReloadMismatch(t) \/ CompareDiffers(t)
      BY <3>1, NextBucketTyped DEF ReloadMismatch, CompareDiffers, shared
    <3>2. CASE Map(t) \/ BeginCopy(t) \/ EndCopy(t) \/ Publish(t)
      BY <3>2 DEF Map, BeginCopy, EndCopy, WriteMemory, Publish, PublishAs, Goto,
        TypeInv
    <3>3. CASE \/ Load(t) \/ ExchangeFails(t) \/ ReloadMatch(t) \/ Spin(t)
               \/ Lookup(t) \/ CompareEqual(t)
      BY <3>3 DEF Load, ExchangeFails, ReloadMatch, Spin, Lookup, CompareEqual,
        AfterLoad, Goto, TypeInv, shared
    <3> QED BY <1>4, <3>1, <3>2, <3>3 DEF Step
  <2>2. \A o \in Slots : hashes[o] # Empty <=> hashes'[o] # Empty
    BY <1>4, StepOfSlots, PhasesDiffer
  <2>3. \A o \in Slots : o \in Numbered' <=> o \in Numbered
    BY <1>1, <2>1, <2>2 DEF Numbered
  <2> QED BY <1>4, <2>1, <2>3 DEF Numbered
<1> QED BY <1>2, <1>3, <1>4

LEMMA InitCountInv == Init => CountInv
<1> SUFFICES ASSUME Init PROVE CountInv
  OBVIOUS
<1>1. Numbered = {}
  BY DEF Init, Numbered
<1> QED BY <1>1, FS_EmptySet DEF Init, CountInv

LEMMA NextCountInv ==
  TypeInv /\ SlotInv /\ CountInv /\ [Next]_vars => CountInv'
<1> SUFFICES ASSUME TypeInv, SlotInv, CountInv, [Next]_vars PROVE CountInv'
  OBVIOUS
<1>1. CASE Clear
  <2>1. Numbered' = {}
    BY <1>1 DEF Clear, Numbered
  <2> QED BY <1>1, <2>1, FS_EmptySet DEF Clear, CountInv
<1>2. CASE Reserve
  <2>1. /\ hashes' = hashes /\ pc' = pc
        /\ Quiet /\ savedStates = reservedStatesCapacity
        /\ savedStates' = savedStates + 1
        /\ reservedStatesCapacity' = reservedStatesCapacity + 1
    BY <1>2 DEF Reserve, ReserveIn, locals
  <2>2. \A o \in Slots : hashes'[o] = Empty
    BY <2>1, NothingClaimed
  <2>3. Numbered' = {}
    BY <2>2 DEF Numbered
  <2>4. savedStates' = reservedStatesCapacity' + 0
    BY <2>1, CapacityAssumption DEF TypeInv
  <2> QED BY <2>2, <2>3, <2>4, FS_EmptySet DEF CountInv
<1>3. ASSUME NEW t \in Threads,
             Return(t) \/ \E s \in States : Call(t, s)
      PROVE  CountInv'
  <2>1. /\ hashes' = hashes /\ savedStates' = savedStates
        /\ reservedStatesCapacity' = reservedStatesCapacity
        /\ cachedStatesCapacity' = cachedStatesCapacity
        /\ pc[t] # "fetch" /\ pc'[t] # "fetch"
        /\ \A u \in Threads : u # t =>
             /\ pc'[u] = pc[u] /\ state'[u] = state[u]
             /\ probe'[u] = probe[u] /\ bucket'[u] = bucket[u]
    BY <1>3 DEF Call, Return, Goto, TypeInv, shared
  <2>2. \A u \in Threads : u # t => Slot(u)' = Slot(u)
    BY <2>1, SlotStays
  <2>3. Numbered' = Numbered
    BY <2>1, <2>2 DEF Numbered
  <2> QED BY <2>1, <2>3 DEF CountInv, Reach
<1>4. ASSUME NEW t \in Threads, Step(t) PROVE CountInv'
  <2>1. /\ cachedStatesCapacity' = cachedStatesCapacity
        /\ reservedStatesCapacity' = reservedStatesCapacity
    BY <1>4, StepOfOthers
  <2>2. ASSUME NEW o \in Slots, hashes'[o] # Empty
        PROVE  o \in Reach(cachedStatesCapacity)
    <3>1. CASE hashes[o] # Empty
      BY <3>1 DEF CountInv
    <3>2. CASE hashes[o] = Empty
      <4>1. o = Slot(t) /\ Exchange(t)
        BY <1>4, <2>2, <3>2, StepOfSlots, PhasesDiffer
      <4> QED BY <4>1, SlotOfThread DEF Exchange
    <3> QED BY <3>1, <3>2
  <2>3. savedStates' = reservedStatesCapacity' + Cardinality(Numbered')
    <3>1. IsFiniteSet(Numbered) /\ Cardinality(Numbered) \in Nat
      BY NumberedIsFinite, FS_CardinalityType
    <3>2. CASE Fetch(t)
      <4>1. Cardinality(Numbered') = Cardinality(Numbered) + 1
        BY <1>4, <3>1, <3>2, StepOfNumbered, FS_AddElement
      <4>2. savedStates' = savedStates + 1
        BY <3>2 DEF Fetch
      <4> QED BY <2>1, <3>1, <4>1, <4>2, CapacityAssumption DEF CountInv, TypeInv
    <3>3. CASE ~Fetch(t)
      BY <1>4, <2>1, <3>3, StepOfNumbered DEF CountInv
    <3> QED BY <3>2, <3>3
  <2> QED BY <2>1, <2>2, <2>3 DEF CountInv, Reach
<1>5. CASE UNCHANGED vars
  BY <1>5 DEF CountInv, Numbered, Reach, vars, shared, locals, Slot, Offset,
    HashedIndex
<1> QED BY <1>1, <1>2, <1>3, <1>4, <1>5 DEF Next

-----------------------------------------------------------------------------
\* Writers have an index, and every remembered index was given out before.
LEMMA NextBoundInv == TypeInv /\ BoundInv /\ [Next]_vars => BoundInv'
<1> SUFFICES ASSUME TypeInv, BoundInv, [Next]_vars PROVE BoundInv'
  OBVIOUS
<1> USE DEF BoundInv
<1>0. savedStates \in Nat
  BY DEF TypeInv
<1>1. CASE Clear
  BY <1>1 DEF Clear, Quiet, TypeInv, locals
<1>2. CASE Reserve
  BY <1>0, <1>2 DEF Reserve, ReserveIn, TypeInv, locals
<1>3. ASSUME NEW t \in Threads,
             Return(t) \/ \E s \in States : Call(t, s)
      PROVE  BoundInv'
  BY <1>0, <1>3 DEF Call, Return, Goto, TypeInv, shared
<1>4. ASSUME NEW t \in Threads, Step(t) PROVE BoundInv'
  <2>1. CASE ReloadMismatch(t) \/ CompareDiffers(t)
    BY <2>1, NextBucketTyped DEF ReloadMismatch, CompareDiffers, shared
  <2>2. CASE Fetch(t)
    BY <1>0, <2>2 DEF Fetch, Goto, TypeInv
  <2>3. CASE Map(t)
    BY <1>0, <2>3 DEF Map, Goto, TypeInv
  <2>4. CASE Lookup(t)
    <3>1. pc[t] # "idle" /\ Slot(t) \in Slots
      BY <2>4, SlotOfThread DEF Lookup
    <3> QED BY <1>0, <2>4, <3>1 DEF Lookup, Goto, TypeInv, shared
  <2>5. CASE Exchange(t) \/ BeginCopy(t) \/ EndCopy(t) \/ Publish(t)
    BY <2>5 DEF Exchange, BeginCopy, EndCopy, WriteMemory, Publish, PublishAs, Goto,
      TypeInv
  <2>6. CASE \/ Load(t) \/ ExchangeFails(t) \/ ReloadMatch(t) \/ Spin(t)
             \/ CompareEqual(t)
    BY <2>6 DEF Load, ExchangeFails, ReloadMatch, Spin, CompareEqual, AfterLoad,
      Goto, TypeInv, shared
  <2> QED BY <1>4, <2>1, <2>2, <2>3, <2>4, <2>5, <2>6 DEF Step
<1>5. CASE UNCHANGED vars
  BY <1>5 DEF vars, shared, locals
<1> QED BY <1>1, <1>2, <1>3, <1>4, <1>5 DEF Next

\* operator[] is called with an index that was given out, hence in range.
LEMMA NextNeverThrows ==
  TypeInv /\ CountInv /\ BoundInv /\ NeverThrows /\ [Next]_vars => NeverThrows'
<1> SUFFICES ASSUME TypeInv, CountInv, BoundInv, NeverThrows, [Next]_vars
             PROVE  NeverThrows'
  OBVIOUS
<1> USE DEF NeverThrows
<1>0. savedStates \in Nat /\ savedStates <= TotalCapacity - 1 /\ TotalCapacity \in Nat
  BY NumberedIsFinite, CapacityAssumption DEF TypeInv
<1>1. CASE Clear \/ Reserve \/ UNCHANGED vars
  BY <1>1 DEF Clear, Reserve, ReserveIn, locals, vars
<1>2. ASSUME NEW t \in Threads,
             Return(t) \/ \E s \in States : Call(t, s)
      PROVE  NeverThrows'
  BY <1>2 DEF Call, Return, Goto, TypeInv
<1>3. ASSUME NEW t \in Threads, Step(t) PROVE NeverThrows'
  <2>1. CASE Map(t)
    <3>1. compactIndex[t] \in Slots
      BY <1>0, <2>1 DEF Map, BoundInv, TypeInv, Slots
    <3> QED BY <2>1, <3>1 DEF Map, InRange, Goto, TypeInv
  <2>2. CASE Lookup(t)
    <3>1. Slot(t) \in Slots
      BY <2>2, SlotOfThread DEF Lookup
    <3>2. indexMapper[Slot(t)] \in Slots \cup {-1}
      BY <1>0, <3>1 DEF BoundInv, TypeInv, Slots
    <3> QED BY <2>2, <3>2 DEF Lookup, InRange, Goto, TypeInv
  <2>3. CASE ReloadMismatch(t) \/ CompareDiffers(t)
    <3>1. pc'[t] # "thrown"
      BY <2>3, NextBucketTyped DEF ReloadMismatch, CompareDiffers
    <3> QED BY <1>3, <3>1, StepOfOthers
  <2>4. CASE Exchange(t) \/ Fetch(t) \/ BeginCopy(t) \/ EndCopy(t) \/ Publish(t)
    BY <2>4 DEF Exchange, Fetch, BeginCopy, EndCopy, WriteMemory, Publish,
      PublishAs, Goto, TypeInv
  <2>5. CASE \/ Load(t) \/ ExchangeFails(t) \/ ReloadMatch(t) \/ Spin(t)
             \/ CompareEqual(t)
    BY <2>5 DEF Load, ExchangeFails, ReloadMatch, Spin, CompareEqual, AfterLoad,
      Goto, TypeInv
  <2> QED BY <1>3, <2>1, <2>2, <2>3, <2>4, <2>5 DEF Step
<1> QED BY <1>1, <1>2, <1>3 DEF Next

\* addState reaches no slot of a reserved index.
LEMMA NextReservedSlotsKept ==
  TypeInv /\ SlotInv /\ CountInv /\ ReservedSlotsKept /\ [Next]_vars
    => ReservedSlotsKept'
<1> SUFFICES ASSUME TypeInv, SlotInv, CountInv, ReservedSlotsKept, [Next]_vars
             PROVE  ReservedSlotsKept'
  OBVIOUS
<1> USE DEF ReservedSlotsKept
<1>0. /\ reservedStatesCapacity \in 0..MaxReserved
      /\ MaxReserved \in Nat /\ TotalCapacity \in Nat
      /\ BucketsPerCacheLine \in Nat /\ BucketsPerCacheLine + MaxReserved < TotalCapacity
      /\ cachedStatesCapacity = TotalCapacity - BucketsPerCacheLine - reservedStatesCapacity
  BY CapacityAssumption DEF TypeInv, ClearedCapacity
<1>1. CASE Clear
  <2>1. reservedStatesCapacity' = 0
    BY <1>1 DEF Clear
  <2> QED BY <2>1
<1>2. CASE Reserve
  <2>1. /\ hashes' = hashes
        /\ Quiet /\ savedStates = reservedStatesCapacity
        /\ reservedStatesCapacity' = reservedStatesCapacity + 1
        /\ reservedStatesCapacity < MaxReserved
    BY <1>2 DEF Reserve, ReserveIn
  <2>2. cachedStatesCapacity - 1 + BucketsPerCacheLine
          = TotalCapacity - (reservedStatesCapacity + 1)
    BY <1>0
  <2>3. indexMapper' = [indexMapper EXCEPT ![TotalCapacity - (reservedStatesCapacity + 1)]
                          = reservedStatesCapacity]
    BY <1>2, <2>1, <2>2 DEF Reserve, ReserveIn
  <2>4. ASSUME NEW r \in 1..reservedStatesCapacity'
        PROVE  /\ indexMapper'[TotalCapacity - r] = r - 1
               /\ hashes'[TotalCapacity - r] = Empty
    <3>1. TotalCapacity - r \in Slots
      BY <1>0, <2>1 DEF Slots
    <3>2. hashes'[TotalCapacity - r] = Empty
      BY <2>1, <3>1, NothingClaimed
    <3>3. CASE r = reservedStatesCapacity + 1
      BY <1>0, <2>3, <3>1, <3>2, <3>3 DEF TypeInv
    <3>4. CASE r \in 1..reservedStatesCapacity
      BY <1>0, <2>3, <3>1, <3>2, <3>4 DEF TypeInv
    <3> QED BY <1>0, <2>1, <3>3, <3>4
  <2> QED BY <2>4
<1>3. ASSUME NEW t \in Threads,
             Return(t) \/ \E s \in States : Call(t, s)
      PROVE  ReservedSlotsKept'
  BY <1>3 DEF Call, Return, shared
<1>4. ASSUME NEW t \in Threads, Step(t) PROVE ReservedSlotsKept'
  <2>1. pc[t] # "idle"
    BY <1>4 DEF Step, Load, Exchange, ExchangeFails, Fetch, Map, BeginCopy,
      EndCopy, WriteMemory, Publish, PublishAs, ReloadMatch, ReloadMismatch,
      Spin, Lookup, CompareEqual, CompareDiffers
  <2>2. \A r \in 1..reservedStatesCapacity :
          TotalCapacity - r \in Slots /\ TotalCapacity - r # Slot(t)
    BY <1>0, <2>1, SlotOfThread DEF Slots, Reach
  <2>3. \A o \in Slots : o # Slot(t) => indexMapper'[o] = indexMapper[o]
    <3>1. CASE Map(t)
      BY <3>1 DEF Map, TypeInv
    <3>2. CASE ~Map(t)
      BY <1>4, <3>2 DEF Step, Load, Exchange, ExchangeFails, Fetch, BeginCopy,
        EndCopy, WriteMemory, Publish, PublishAs, ReloadMatch, ReloadMismatch,
        Spin, Lookup, CompareEqual, CompareDiffers, shared
    <3> QED BY <3>1, <3>2
  <2>4. \A o \in Slots : o # Slot(t) => hashes'[o] = hashes[o]
    BY <1>4, StepOfSlots
  <2> QED BY <1>4, <2>2, <2>3, <2>4, StepOfOthers
<1>5. CASE UNCHANGED vars
  BY <1>5 DEF vars, shared
<1> QED BY <1>1, <1>2, <1>3, <1>4, <1>5 DEF Next

-----------------------------------------------------------------------------
(***************************************************************************)
(* The theorems.                                                           *)
(***************************************************************************)
LEMMA InitIndInv == Init => IndInv
<1> SUFFICES ASSUME Init PROVE IndInv
  OBVIOUS
<1>1. BoundInv
  BY DEF Init, BoundInv
<1>2. NeverThrows
  BY DEF Init, NeverThrows
<1>3. ReservedSlotsKept
  BY DEF Init, ReservedSlotsKept
<1> QED BY <1>1, <1>2, <1>3, InitTypeInv, InitSlotInv, InitCountInv DEF IndInv

LEMMA NextIndInv == IndInv /\ [Next]_vars => IndInv'
BY NextTypeInv, NextSlotInv, NextCountInv, NextBoundInv, NextNeverThrows,
   NextReservedSlotsKept DEF IndInv

LEMMA IndInvTyped == IndInv => TypeOK
<1> SUFFICES ASSUME IndInv PROVE TypeOK
  OBVIOUS
<1>1. savedStates \in Nat /\ savedStates <= TotalCapacity - 1 /\ TotalCapacity \in Nat
  BY NumberedIsFinite, CapacityAssumption DEF IndInv, TypeInv
<1>2. cachedStatesCapacity \in 1..TotalCapacity
  BY CapacityAssumption DEF IndInv, TypeInv, ClearedCapacity
<1>3. indexMapper \in [Slots -> Slots \cup {-1}]
  BY <1>1 DEF IndInv, TypeInv, BoundInv, Slots
<1>4. compactIndex \in [Threads -> Slots \cup {-1}]
  BY <1>1 DEF IndInv, TypeInv, BoundInv, Slots
<1> QED BY <1>1, <1>2, <1>3, <1>4 DEF TypeOK, IndInv, TypeInv

\* The inductive invariant holds in every reachable state of the storage.
THEOREM Inductive == Spec => []IndInv
BY InitIndInv, NextIndInv, PTL DEF Spec

\* For any number of threads and any table every variable keeps to its domain,
\* and the counter, the mapped and the returned indexes stay below the capacity.
THEOREM TypeCorrect == Spec => []TypeOK
BY Inductive, IndInvTyped, PTL

\* operator[] never throws in addState, however full the table is and however
\* the calls interleave, so that no claimed slot stays unpublished.
THEOREM NeverThrowsHolds == Spec => []NeverThrows
<1>1. IndInv => NeverThrows
  BY DEF IndInv
<1> QED BY <1>1, Inductive, PTL

\* No addState call reaches the slot of an index given by reserveStateIndex.
THEOREM ReservedSlotsKeptHolds == Spec => []ReservedSlotsKept
<1>1. IndInv => ReservedSlotsKept
  BY DEF IndInv
<1> QED BY <1>1, Inductive, PTL

-----------------------------------------------------------------------------
(***************************************************************************)
(* What is stored: a state is stored once, and only finished states are    *)
(* read.                                                                   *)
(***************************************************************************)
\* One to one: the indexes given out, and the slots that are written or whose
\* claimer has fetched its index.  The state is in memory when it is published.
IndexInv ==
  /\ \A o \in Slots : hashes[o].phase = "written" =>
       /\ indexMapper[o] \in StateIndexes
       /\ stateMemory[indexMapper[o]] \in States
       /\ \A p \in Slots : hashes[p].phase = "written" /\ indexMapper[p] = indexMapper[o]
                             => p = o
       /\ \A t \in Writers : compactIndex[t] # indexMapper[o]
  /\ \A t \in Writers :
       /\ compactIndex[t] \in StateIndexes
       /\ \A u \in Writers : compactIndex[u] = compactIndex[t] => u = t
       /\ pc[t] # "map" => indexMapper[Slot(t)] = compactIndex[t]
       /\ pc[t] = "publish" => stateMemory[compactIndex[t]] = state[t]
  /\ \A n \in StateIndexes :
       \/ \E o \in Slots : hashes[o].phase = "written" /\ indexMapper[o] = n
       \/ \E t \in Writers : compactIndex[t] = n

\* The index that a thread compares with, or returns, is its slot's.
AnswerInv ==
  \A t \in Threads :
    /\ pc[t] \in {"compare", "done"} => compactIndex[t] = indexMapper[Slot(t)]
    /\ pc[t] = "done" => stateMemory[compactIndex[t]] = state[t]

-----------------------------------------------------------------------------
\* Slot o stands for state s: its thread is storing s, or s was stored.
Holds(o, s) ==
  \/ hashes[o].phase = "written" /\ stateMemory[indexMapper[o]] = s
  \/ \E t \in Threads : pc[t] \in Owning /\ Slot(t) = o /\ state[t] = s

\* Bucket l of probe k comes before bucket j of probe i.
Before(k, l, i, j) == k < i \/ (k = i /\ l < j)

\* A state lies in the first slot of its probe sequence that was empty.
PathInv ==
  \A o \in Slots, s \in States : Holds(o, s) =>
    \E i \in Probes, j \in Buckets :
      /\ Offset(s, i, j) = o
      /\ hashes[o].memo = MemoizedHash(s, i)
      /\ \A k \in Probes, l \in Buckets : Before(k, l, i, j) =>
           hashes[Offset(s, k, l)] # Empty /\ Offset(s, k, l) # o

\* The labels of the two loops.
Looking == {"load", "exchange", "reload", "spin", "lookup", "compare"}

\* The slots a thread went past are taken, and not by the state it is adding.
PassedInv ==
  \A t \in Threads, s \in States, k \in Probes, l \in Buckets, o \in Slots :
    (/\ pc[t] \in Looking /\ state[t] = s
     /\ Before(k, l, probe[t], bucket[t]) /\ Offset(s, k, l) = o)
    => hashes[o] # Empty /\ ~Holds(o, s)

\* No state in two slots.
UniqueInv ==
  \A o, p \in Slots, s \in States : Holds(o, s) /\ Holds(p, s) => o = p

UniqueIndInv ==
  /\ IndInv
  /\ IndexInv
  /\ AnswerInv
  /\ PathInv
  /\ PassedInv
  /\ UniqueInv
-----------------------------------------------------------------------------
(***************************************************************************)
(* Indexes.                                                                *)
(***************************************************************************)
\* The slot of a claimer is in the writing phase, and is its own.
LEMMA OwnerOfSlot ==
  ASSUME IndInv, NEW t \in Threads, pc[t] \in Owning
  PROVE  /\ Slot(t) \in Slots
         /\ hashes[Slot(t)].phase = "writing"
         /\ hashes[Slot(t)].phase # "written"
         /\ state[t] \in States
         /\ \A u \in Threads : pc[u] \in Owning /\ Slot(u) = Slot(t) => u = t
<1>1. pc[t] # "idle"
  BY DEF Owning
<1>2. Writing(Memo(t)).phase = "writing"
  BY DEF Writing
<1>3. hashes[Slot(t)] = Writing(Memo(t))
  BY DEF IndInv, SlotInv
<1>4. hashes[Slot(t)].phase = "writing"
  BY <1>2, <1>3
<1>5. \A u \in Threads : pc[u] \in Owning /\ Slot(u) = Slot(t) => u = t
  BY DEF IndInv, SlotInv
<1> QED BY <1>1, <1>4, <1>5, SlotOfThread DEF IndInv, TypeInv

\* The indexes given out lie inside the state memory.
LEMMA IndexesInMemory ==
  ASSUME IndInv
  PROVE  StateIndexes \subseteq Slots
BY NumberedIsFinite, CapacityAssumption DEF IndInv, TypeInv, StateIndexes, Slots

LEMMA InitIndexInv == Init => IndexInv /\ AnswerInv
<1> SUFFICES ASSUME Init PROVE IndexInv /\ AnswerInv
  OBVIOUS
<1>1. \A o \in Slots : hashes[o].phase # "written"
  BY DEF Init, Empty
<1>2. Writers = {}
  BY DEF Init, Writers
<1>3. StateIndexes = {}
  BY DEF Init, StateIndexes
<1>4. \A t \in Threads : pc[t] = "idle"
  BY DEF Init
<1> QED BY <1>1, <1>2, <1>3, <1>4 DEF IndexInv, AnswerInv

\* With no thread in addState and no slot taken there are no indexes of states.
LEMMA IndexInvOfEmpty ==
  ASSUME \A t \in Threads : pc'[t] = "idle",
         \A o \in Slots : hashes'[o] = Empty,
         StateIndexes' = {}
  PROVE  IndexInv' /\ AnswerInv'
<1>1. \A o \in Slots : hashes'[o].phase # "written"
  BY DEF Empty
<1>2. Writers' = {}
  BY DEF Writers
<1> QED BY <1>1, <1>2 DEF IndexInv, AnswerInv

\* IndexInv speaks of writers, written slots and memory.
LEMMA IndexInvKept ==
  ASSUME IndexInv,
         savedStates' = savedStates,
         reservedStatesCapacity' = reservedStatesCapacity,
         indexMapper' = indexMapper, stateMemory' = stateMemory,
         \A o \in Slots : hashes'[o].phase = "written" <=> hashes[o].phase = "written",
         Writers' = Writers,
         \A w \in Writers :
           /\ pc'[w] = pc[w] /\ compactIndex'[w] = compactIndex[w]
           /\ state'[w] = state[w] /\ Slot(w)' = Slot(w)
  PROVE  IndexInv'
<1>1. StateIndexes' = StateIndexes
  BY DEF StateIndexes
<1>2. ASSUME NEW o \in Slots, hashes'[o].phase = "written"
      PROVE  /\ indexMapper'[o] \in StateIndexes'
             /\ stateMemory'[indexMapper'[o]] \in States
             /\ \A p \in Slots :
                  hashes'[p].phase = "written" /\ indexMapper'[p] = indexMapper'[o]
                    => p = o
             /\ \A t \in Writers' : compactIndex'[t] # indexMapper'[o]
  BY <1>1, <1>2 DEF IndexInv
<1>3. ASSUME NEW t \in Writers'
      PROVE  /\ compactIndex'[t] \in StateIndexes'
             /\ \A u \in Writers' : compactIndex'[u] = compactIndex'[t] => u = t
             /\ pc'[t] # "map" => indexMapper'[Slot(t)'] = compactIndex'[t]
             /\ pc'[t] = "publish" => stateMemory'[compactIndex'[t]] = state'[t]
  BY <1>1, <1>3 DEF IndexInv
<1>4. ASSUME NEW n \in StateIndexes'
      PROVE  \/ \E o \in Slots : hashes'[o].phase = "written" /\ indexMapper'[o] = n
             \/ \E t \in Writers' : compactIndex'[t] = n
  BY <1>1, <1>4 DEF IndexInv
<1> QED BY <1>2, <1>3, <1>4 DEF IndexInv

\* A thread that looks for its state, or claims a slot, disturbs no index.
LEMMA IndexInvLooking ==
  ASSUME IndInv, IndexInv, NEW t \in Threads, Step(t),
         ~Fetch(t), ~Map(t), ~BeginCopy(t), ~EndCopy(t), ~Publish(t)
  PROVE  IndexInv'
<1>1. /\ savedStates' = savedStates
      /\ reservedStatesCapacity' = reservedStatesCapacity
      /\ indexMapper' = indexMapper /\ stateMemory' = stateMemory
      /\ t \notin Writers
  BY DEF Step, Load, Exchange, ExchangeFails, ReloadMatch, ReloadMismatch, Spin,
    Lookup, CompareEqual, CompareDiffers, shared, Writers
<1>2. \A o \in Slots : hashes'[o].phase = "written" <=> hashes[o].phase = "written"
  <2>1. Empty.phase # "written" /\ Writing(Memo(t)).phase # "written"
    BY DEF Empty, Writing
  <2> QED BY <2>1, StepOfSlots DEF IndInv
<1>3. pc'[t] \notin {"map", "copy", "copying", "publish"}
  <2>1. CASE ReloadMismatch(t) \/ CompareDiffers(t)
    BY <2>1, NextBucketTyped DEF ReloadMismatch, CompareDiffers, IndInv
  <2>2. CASE Load(t) \/ Exchange(t) \/ ExchangeFails(t)
    BY <2>2 DEF Load, Exchange, ExchangeFails, Goto, IndInv, TypeInv
  <2>3. CASE ReloadMatch(t) \/ Spin(t) \/ Lookup(t) \/ CompareEqual(t)
    BY <2>3 DEF ReloadMatch, Spin, Lookup, CompareEqual, AfterLoad, Goto, IndInv, TypeInv
  <2> QED BY <2>1, <2>2, <2>3 DEF Step
<1>4. \A u \in Threads : u # t =>
        /\ pc'[u] = pc[u] /\ compactIndex'[u] = compactIndex[u]
        /\ state'[u] = state[u] /\ Slot(u)' = Slot(u)
  BY StepOfOthers DEF IndInv
<1>5. Writers' = Writers
  BY <1>1, <1>3, <1>4 DEF Writers
<1> QED BY <1>1, <1>2, <1>4, <1>5, IndexInvKept DEF Writers

\* fetch_add gives an index that no slot and no other writer has.
LEMMA IndexInvFetch ==
  ASSUME IndInv, IndexInv, NEW t \in Threads, Fetch(t)
  PROVE  IndexInv'
<1>1. /\ savedStates \in Nat /\ reservedStatesCapacity \in Nat
      /\ reservedStatesCapacity <= savedStates
  <2>1. Cardinality(Numbered) \in Nat
    BY NumberedIsFinite, FS_CardinalityType DEF IndInv
  <2> QED BY <2>1, CapacityAssumption DEF IndInv, TypeInv, CountInv
<1>2. /\ StateIndexes' = StateIndexes \cup {savedStates}
      /\ \A n \in StateIndexes : n # savedStates
  BY <1>1 DEF Fetch, StateIndexes
<1>3. /\ hashes' = hashes /\ indexMapper' = indexMapper /\ stateMemory' = stateMemory
      /\ state' = state
      /\ pc'[t] = "map" /\ compactIndex'[t] = savedStates /\ t \notin Writers
  BY DEF Fetch, Goto, IndInv, TypeInv, Writers
<1>4. \A u \in Threads : u # t =>
        pc'[u] = pc[u] /\ compactIndex'[u] = compactIndex[u] /\ Slot(u)' = Slot(u)
  BY StepOfOthers DEF IndInv, Step
<1>5. Writers' = Writers \cup {t}
  BY <1>3, <1>4 DEF Writers
<1>6. \A o \in Slots : hashes[o].phase = "written" => indexMapper[o] # savedStates
  BY <1>2 DEF IndexInv
<1>7. \A w \in Writers : w # t /\ w \in Threads /\ compactIndex[w] # savedStates
  BY <1>2, <1>3 DEF IndexInv, Writers
<1>8. ASSUME NEW o \in Slots, hashes'[o].phase = "written"
      PROVE  /\ indexMapper'[o] \in StateIndexes'
             /\ stateMemory'[indexMapper'[o]] \in States
             /\ \A p \in Slots :
                  hashes'[p].phase = "written" /\ indexMapper'[p] = indexMapper'[o]
                    => p = o
             /\ \A w \in Writers' : compactIndex'[w] # indexMapper'[o]
  BY <1>2, <1>3, <1>4, <1>5, <1>6, <1>7, <1>8 DEF IndexInv
<1>9. ASSUME NEW w \in Writers'
      PROVE  /\ compactIndex'[w] \in StateIndexes'
             /\ \A u \in Writers' : compactIndex'[u] = compactIndex'[w] => u = w
             /\ pc'[w] # "map" => indexMapper'[Slot(w)'] = compactIndex'[w]
             /\ pc'[w] = "publish" => stateMemory'[compactIndex'[w]] = state'[w]
  BY <1>2, <1>3, <1>4, <1>5, <1>7, <1>9 DEF IndexInv
<1>10. ASSUME NEW n \in StateIndexes'
       PROVE  \/ \E o \in Slots : hashes'[o].phase = "written" /\ indexMapper'[o] = n
              \/ \E w \in Writers' : compactIndex'[w] = n
  <2>1. CASE n = savedStates
    BY <1>3, <1>5, <2>1
  <2>2. CASE n \in StateIndexes
    BY <1>3, <1>4, <1>5, <1>7, <2>2 DEF IndexInv
  <2> QED BY <1>2, <2>1, <2>2
<1> QED BY <1>8, <1>9, <1>10 DEF IndexInv

\* The mapper is written at the writer's own slot, which is not yet written.
LEMMA IndexInvMap ==
  ASSUME IndInv, IndexInv, NEW t \in Threads, Map(t), IndInv'
  PROVE  IndexInv'
<1>1. /\ hashes' = hashes /\ stateMemory' = stateMemory /\ compactIndex' = compactIndex
      /\ savedStates' = savedStates
      /\ reservedStatesCapacity' = reservedStatesCapacity
      /\ state' = state /\ probe' = probe /\ bucket' = bucket
      /\ t \in Writers /\ Slot(t) \in Slots
      /\ indexMapper' = [indexMapper EXCEPT ![Slot(t)] = compactIndex[t]]
  BY SlotOfThread DEF Map, Writers, IndInv
<1>2. pc'[t] = "copy"
  BY DEF Map, Goto, IndInv, TypeInv, NeverThrows
<1>3. \A u \in Threads : Slot(u)' = Slot(u) /\ (u # t => pc'[u] = pc[u])
  BY <1>1, StepOfOthers, SlotStays DEF IndInv, Step
<1>4. Writers' = Writers /\ StateIndexes' = StateIndexes
  BY <1>1, <1>2, <1>3 DEF Writers, StateIndexes
<1>5. hashes[Slot(t)].phase # "written"
  BY <1>1, OwnerOfSlot DEF Writers, Owning
<1>6. \A o \in Slots : o # Slot(t) => indexMapper'[o] = indexMapper[o]
  BY <1>1 DEF IndInv, TypeInv
<1>7. indexMapper'[Slot(t)] = compactIndex[t]
  BY <1>1 DEF IndInv, TypeInv
<1>8. \A w \in Writers : w # t => Slot(w) # Slot(t) /\ Slot(w) \in Slots
  BY <1>1, SlotOfThread DEF IndInv, SlotInv, Writers, Owning
<1>9. ASSUME NEW o \in Slots, hashes'[o].phase = "written"
      PROVE  /\ indexMapper'[o] \in StateIndexes'
             /\ stateMemory'[indexMapper'[o]] \in States
             /\ \A p \in Slots :
                  hashes'[p].phase = "written" /\ indexMapper'[p] = indexMapper'[o]
                    => p = o
             /\ \A w \in Writers' : compactIndex'[w] # indexMapper'[o]
  BY <1>1, <1>4, <1>5, <1>6, <1>9 DEF IndexInv
<1>10. ASSUME NEW w \in Writers'
       PROVE  /\ compactIndex'[w] \in StateIndexes'
              /\ \A u \in Writers' : compactIndex'[u] = compactIndex'[w] => u = w
              /\ pc'[w] # "map" => indexMapper'[Slot(w)'] = compactIndex'[w]
              /\ pc'[w] = "publish" => stateMemory'[compactIndex'[w]] = state'[w]
  <2>1. w \in Threads /\ w \in Writers
    BY <1>4, <1>10 DEF Writers
  <2>2. CASE w = t
    BY <1>1, <1>2, <1>3, <1>4, <1>7, <2>1, <2>2 DEF IndexInv
  <2>3. CASE w # t
    BY <1>1, <1>3, <1>4, <1>6, <1>8, <2>1, <2>3 DEF IndexInv
  <2> QED BY <2>2, <2>3
<1>11. ASSUME NEW n \in StateIndexes'
       PROVE  \/ \E o \in Slots : hashes'[o].phase = "written" /\ indexMapper'[o] = n
              \/ \E w \in Writers' : compactIndex'[w] = n
  BY <1>1, <1>4, <1>5, <1>6, <1>11 DEF IndexInv
<1> QED BY <1>9, <1>10, <1>11 DEF IndexInv

\* A writer copies into memory that belongs to its index alone.
LEMMA IndexInvCopy ==
  ASSUME IndInv, IndexInv, NEW t \in Threads, BeginCopy(t) \/ EndCopy(t)
  PROVE  IndexInv'
<1>1. /\ hashes' = hashes /\ indexMapper' = indexMapper /\ compactIndex' = compactIndex
      /\ savedStates' = savedStates
      /\ reservedStatesCapacity' = reservedStatesCapacity
      /\ state' = state /\ probe' = probe /\ bucket' = bucket
      /\ t \in Writers /\ pc[t] # "map" /\ pc'[t] \in {"copying", "publish"}
      /\ \A n \in Slots : n # compactIndex[t] => stateMemory'[n] = stateMemory[n]
      /\ pc'[t] = "publish" => EndCopy(t)
  BY DEF BeginCopy, EndCopy, WriteMemory, Goto, Writers, IndInv, TypeInv
<1>2. \A u \in Threads : Slot(u)' = Slot(u) /\ (u # t => pc'[u] = pc[u])
  BY <1>1, StepOfOthers, SlotStays DEF IndInv, Step
<1>3. Writers' = Writers /\ StateIndexes' = StateIndexes
  BY <1>1, <1>2 DEF Writers, StateIndexes
<1>4. StateIndexes \subseteq Slots
  BY IndexesInMemory
<1>5. compactIndex[t] \in Slots
  BY <1>1, <1>4 DEF IndexInv
<1>6. pc'[t] = "publish" => stateMemory'[compactIndex[t]] = state[t]
  BY <1>1, <1>5 DEF EndCopy, WriteMemory, IndInv, TypeInv
<1>7. ASSUME NEW o \in Slots, hashes'[o].phase = "written"
      PROVE  /\ indexMapper'[o] \in StateIndexes'
             /\ stateMemory'[indexMapper'[o]] \in States
             /\ \A p \in Slots :
                  hashes'[p].phase = "written" /\ indexMapper'[p] = indexMapper'[o]
                    => p = o
             /\ \A w \in Writers' : compactIndex'[w] # indexMapper'[o]
  BY <1>1, <1>3, <1>4, <1>7 DEF IndexInv
<1>8. ASSUME NEW w \in Writers'
      PROVE  /\ compactIndex'[w] \in StateIndexes'
             /\ \A u \in Writers' : compactIndex'[u] = compactIndex'[w] => u = w
             /\ pc'[w] # "map" => indexMapper'[Slot(w)'] = compactIndex'[w]
             /\ pc'[w] = "publish" => stateMemory'[compactIndex'[w]] = state'[w]
  <2>1. w \in Threads /\ w \in Writers
    BY <1>3, <1>8 DEF Writers
  <2>2. CASE w = t
    BY <1>1, <1>2, <1>3, <1>6, <2>1, <2>2 DEF IndexInv
  <2>3. CASE w # t
    BY <1>1, <1>2, <1>3, <1>4, <2>1, <2>3 DEF IndexInv
  <2> QED BY <2>2, <2>3
<1>9. ASSUME NEW n \in StateIndexes'
      PROVE  \/ \E o \in Slots : hashes'[o].phase = "written" /\ indexMapper'[o] = n
             \/ \E w \in Writers' : compactIndex'[w] = n
  BY <1>1, <1>3, <1>9 DEF IndexInv
<1> QED BY <1>7, <1>8, <1>9 DEF IndexInv

\* The writer's index becomes its slot's.
LEMMA IndexInvPublish ==
  ASSUME IndInv, IndexInv, NEW t \in Threads, Publish(t)
  PROVE  IndexInv'
<1>1. /\ indexMapper' = indexMapper /\ stateMemory' = stateMemory
      /\ compactIndex' = compactIndex /\ state' = state
      /\ savedStates' = savedStates
      /\ reservedStatesCapacity' = reservedStatesCapacity
      /\ t \in Writers /\ pc[t] = "publish" /\ pc'[t] = "done"
  BY DEF Publish, PublishAs, Goto, Writers, IndInv, TypeInv
<1>2. \A u \in Threads : u # t => Slot(u)' = Slot(u) /\ pc'[u] = pc[u]
  BY StepOfOthers DEF IndInv, Step
<1>3. Writers' = Writers \ {t} /\ StateIndexes' = StateIndexes
  BY <1>1, <1>2 DEF Writers, StateIndexes
<1>4. /\ Slot(t) \in Slots /\ hashes[Slot(t)].phase # "written"
      /\ state[t] \in States
  BY <1>1, OwnerOfSlot DEF Owning
<1>5. hashes'[Slot(t)] = Written(Memo(t)) /\ Written(Memo(t)).phase = "written"
  BY <1>4 DEF Publish, PublishAs, IndInv, TypeInv, Written
<1>6. \A o \in Slots : o # Slot(t) => hashes'[o] = hashes[o]
  BY StepOfSlots DEF IndInv, Step
<1>7. /\ indexMapper[Slot(t)] = compactIndex[t]
      /\ stateMemory[compactIndex[t]] = state[t]
      /\ compactIndex[t] \in StateIndexes
  BY <1>1 DEF IndexInv
<1>8. ASSUME NEW o \in Slots, hashes'[o].phase = "written"
      PROVE  /\ indexMapper'[o] \in StateIndexes'
             /\ stateMemory'[indexMapper'[o]] \in States
             /\ \A p \in Slots :
                  hashes'[p].phase = "written" /\ indexMapper'[p] = indexMapper'[o]
                    => p = o
             /\ \A w \in Writers' : compactIndex'[w] # indexMapper'[o]
  <2>1. CASE o = Slot(t)
    BY <1>1, <1>3, <1>4, <1>6, <1>7, <1>8, <2>1 DEF IndexInv
  <2>2. CASE o # Slot(t)
    BY <1>1, <1>3, <1>6, <1>7, <1>8, <2>2 DEF IndexInv
  <2> QED BY <2>1, <2>2
<1>9. ASSUME NEW w \in Writers'
      PROVE  /\ compactIndex'[w] \in StateIndexes'
             /\ \A u \in Writers' : compactIndex'[u] = compactIndex'[w] => u = w
             /\ pc'[w] # "map" => indexMapper'[Slot(w)'] = compactIndex'[w]
             /\ pc'[w] = "publish" => stateMemory'[compactIndex'[w]] = state'[w]
  <2>1. w \in Threads /\ w \in Writers /\ w # t
    BY <1>3, <1>9 DEF Writers
  <2> QED BY <1>1, <1>2, <1>3, <2>1 DEF IndexInv
<1>10. ASSUME NEW n \in StateIndexes'
       PROVE  \/ \E o \in Slots : hashes'[o].phase = "written" /\ indexMapper'[o] = n
              \/ \E w \in Writers' : compactIndex'[w] = n
  <2>1. CASE n = compactIndex[t]
    BY <1>1, <1>4, <1>5, <1>7, <2>1
  <2>2. CASE n # compactIndex[t]
    BY <1>1, <1>3, <1>4, <1>6, <1>10, <2>2 DEF IndexInv
  <2> QED BY <2>1, <2>2
<1> QED BY <1>8, <1>9, <1>10 DEF IndexInv

\* A written slot keeps its index, and the memory of this index its state: it
\* belongs to no writer.
LEMMA WrittenKept ==
  ASSUME IndInv, IndexInv, NEW t \in Threads, Step(t),
         NEW o \in Slots, hashes[o].phase = "written"
  PROVE  /\ indexMapper'[o] = indexMapper[o]
         /\ stateMemory'[indexMapper[o]] = stateMemory[indexMapper[o]]
<1>1. CASE Map(t)
  <2>1. pc[t] \in Owning /\ stateMemory' = stateMemory
    BY <1>1 DEF Map, Owning
  <2>2. Slot(t) # o
    BY <2>1, OwnerOfSlot
  <2> QED BY <1>1, <2>1, <2>2 DEF Map, IndInv, TypeInv
<1>2. CASE BeginCopy(t) \/ EndCopy(t)
  <2>1. t \in Writers /\ indexMapper' = indexMapper
    BY <1>2 DEF BeginCopy, EndCopy, WriteMemory, Writers
  <2>2. indexMapper[o] \in Slots /\ compactIndex[t] # indexMapper[o]
    BY <2>1, IndexesInMemory DEF IndexInv
  <2> QED BY <1>2, <2>1, <2>2
          DEF BeginCopy, EndCopy, WriteMemory, IndInv, TypeInv
<1>3. CASE ~Map(t) /\ ~BeginCopy(t) /\ ~EndCopy(t)
  BY <1>3 DEF Step, Load, Exchange, ExchangeFails, Fetch, Publish, PublishAs,
    ReloadMatch, ReloadMismatch, Spin, Lookup, CompareEqual, CompareDiffers, shared
<1> QED BY <1>1, <1>2, <1>3

\* What a thread compares with, or returns, stays in memory: the memory of a
\* written slot belongs to no writer.
LEMMA AnswerInvStep ==
  ASSUME IndInv, IndexInv, AnswerInv, NEW t \in Threads, Step(t)
  PROVE  AnswerInv'
<1>1. ASSUME NEW u \in Threads, u # t
      PROVE  /\ pc'[u] \in {"compare", "done"} => compactIndex'[u] = indexMapper'[Slot(u)']
             /\ pc'[u] = "done" => stateMemory'[compactIndex'[u]] = state'[u]
  <2> SUFFICES ASSUME pc[u] \in {"compare", "done"}
               PROVE  /\ compactIndex[u] = indexMapper'[Slot(u)]
                      /\ pc[u] = "done" => stateMemory'[compactIndex[u]] = state[u]
    BY <1>1, StepOfOthers DEF IndInv
  <2>1. /\ Slot(u) \in Slots /\ hashes[Slot(u)].phase = "written"
        /\ compactIndex[u] = indexMapper[Slot(u)]
        /\ pc[u] = "done" => stateMemory[compactIndex[u]] = state[u]
    BY SlotOfThread DEF IndInv, SlotInv, AnswerInv
  <2> QED BY <2>1, WrittenKept
<1>2. /\ pc'[t] \in {"compare", "done"} => compactIndex'[t] = indexMapper'[Slot(t)']
      /\ pc'[t] = "done" => stateMemory'[compactIndex'[t]] = state'[t]
  <2>1. CASE Publish(t)
    <3>1. /\ t \in Writers /\ pc[t] = "publish" /\ probe' = probe /\ bucket' = bucket
          /\ indexMapper' = indexMapper /\ stateMemory' = stateMemory
          /\ compactIndex' = compactIndex /\ state' = state
      BY <2>1 DEF Publish, PublishAs, Writers
    <3>2. Slot(t)' = Slot(t)
      BY <3>1, StepOfOthers, SlotStays DEF IndInv
    <3> QED BY <3>1, <3>2 DEF IndexInv
  <2>2. CASE Lookup(t)
    <3>1. /\ probe' = probe /\ bucket' = bucket /\ indexMapper' = indexMapper
          /\ compactIndex'[t] = indexMapper[Slot(t)] /\ pc'[t] # "done"
      BY <2>2 DEF Lookup, Goto, shared, IndInv, TypeInv
    <3>2. Slot(t)' = Slot(t)
      BY <3>1, StepOfOthers, SlotStays DEF IndInv
    <3> QED BY <3>1, <3>2
  <2>3. CASE CompareEqual(t)
    <3>1. /\ probe' = probe /\ bucket' = bucket /\ indexMapper' = indexMapper
          /\ stateMemory' = stateMemory /\ compactIndex' = compactIndex /\ state' = state
          /\ pc[t] = "compare" /\ stateMemory[compactIndex[t]] = state[t]
      BY <2>3 DEF CompareEqual, SameState, shared
    <3>2. Slot(t)' = Slot(t)
      BY <3>1, StepOfOthers, SlotStays DEF IndInv
    <3> QED BY <3>1, <3>2 DEF AnswerInv
  <2>4. CASE ReloadMismatch(t) \/ CompareDiffers(t)
    BY <2>4, NextBucketTyped DEF ReloadMismatch, CompareDiffers, IndInv
  <2>5. CASE \/ Load(t) \/ Exchange(t) \/ ExchangeFails(t) \/ Fetch(t) \/ Map(t)
             \/ ReloadMatch(t) \/ Spin(t)
    BY <2>5 DEF Load, Exchange, ExchangeFails, Fetch, Map, ReloadMatch, Spin,
      AfterLoad, Goto, IndInv, TypeInv
  <2>6. CASE BeginCopy(t) \/ EndCopy(t)
    BY <2>6 DEF BeginCopy, EndCopy, WriteMemory, Goto, IndInv, TypeInv
  <2> QED BY <2>1, <2>2, <2>3, <2>4, <2>5, <2>6 DEF Step
<1> QED BY <1>1, <1>2 DEF AnswerInv

LEMMA NextIndexInv ==
  IndInv /\ IndexInv /\ AnswerInv /\ [Next]_vars /\ IndInv' => IndexInv' /\ AnswerInv'
<1> SUFFICES ASSUME IndInv, IndexInv, AnswerInv, [Next]_vars, IndInv'
             PROVE  IndexInv' /\ AnswerInv'
  OBVIOUS
<1>1. CASE Clear
  BY <1>1, IndexInvOfEmpty DEF Clear, Quiet, locals, StateIndexes
<1>2. CASE Reserve
  <2>1. /\ hashes' = hashes /\ pc' = pc
        /\ Quiet /\ savedStates = reservedStatesCapacity
        /\ savedStates' = savedStates + 1
        /\ reservedStatesCapacity' = reservedStatesCapacity + 1
    BY <1>2 DEF Reserve, ReserveIn, locals
  <2>2. \A o \in Slots : hashes'[o] = Empty
    BY <2>1, NothingClaimed DEF IndInv
  <2>3. StateIndexes' = {}
    BY <2>1 DEF StateIndexes, IndInv, TypeInv
  <2> QED BY <2>1, <2>2, <2>3, IndexInvOfEmpty DEF Quiet
<1>3. ASSUME NEW t \in Threads,
             Return(t) \/ \E s \in States : Call(t, s)
      PROVE  IndexInv' /\ AnswerInv'
  <2>1. /\ cachedStatesCapacity' = cachedStatesCapacity
        /\ savedStates' = savedStates /\ hashes' = hashes
        /\ reservedStatesCapacity' = reservedStatesCapacity
        /\ indexMapper' = indexMapper /\ stateMemory' = stateMemory
        /\ pc[t] \notin {"map", "copy", "copying", "publish"}
        /\ pc'[t] \in {"idle", "load"}
        /\ \A u \in Threads : u # t =>
             /\ pc'[u] = pc[u] /\ compactIndex'[u] = compactIndex[u]
             /\ state'[u] = state[u] /\ probe'[u] = probe[u]
             /\ bucket'[u] = bucket[u]
    BY <1>3 DEF Call, Return, Goto, IndInv, TypeInv, shared
  <2>2. \A u \in Threads : u # t => Slot(u)' = Slot(u)
    BY <2>1, SlotStays
  <2>3. Writers' = Writers /\ t \notin Writers
    BY <2>1 DEF Writers
  <2>4. IndexInv'
    BY <2>1, <2>2, <2>3, IndexInvKept DEF Writers
  <2>5. AnswerInv'
    BY <2>1, <2>2 DEF AnswerInv
  <2> QED BY <2>4, <2>5
<1>4. ASSUME NEW t \in Threads, Step(t) PROVE IndexInv' /\ AnswerInv'
  BY <1>4, AnswerInvStep, IndexInvLooking, IndexInvFetch, IndexInvMap, IndexInvCopy,
     IndexInvPublish
<1>5. CASE UNCHANGED vars
  <2>1. /\ Writers' = Writers
        /\ \A u \in Threads : Slot(u)' = Slot(u)
    BY <1>5 DEF Writers, vars, shared, locals, Slot, Offset, HashedIndex
  <2>2. IndexInv'
    BY <1>5, <2>1, IndexInvKept DEF Writers, vars, shared, locals
  <2>3. AnswerInv'
    BY <1>5, <2>1 DEF AnswerInv, vars, shared, locals
  <2> QED BY <2>2, <2>3
<1> QED BY <1>1, <1>2, <1>3, <1>4, <1>5 DEF Next

-----------------------------------------------------------------------------
(***************************************************************************)
(* What a slot stands for.                                                 *)
(***************************************************************************)
LEMMA HoldsTaken ==
  ASSUME IndInv, NEW o \in Slots, NEW s \in States, Holds(o, s)
  PROVE  hashes[o] # Empty
<1>1. Empty.phase # "written" /\ Empty.phase # "writing"
  BY DEF Empty
<1> QED BY <1>1, OwnerOfSlot DEF Holds

\* A slot begins to stand for a state when it is claimed, and never stops.
LEMMA HoldsStep ==
  ASSUME IndInv, IndexInv, IndInv', NEW t \in Threads, Step(t),
         NEW o \in Slots, NEW s \in States
  PROVE  Holds(o, s)' <=>
           Holds(o, s) \/ (Exchange(t) /\ o = Slot(t) /\ s = state[t])
<1>1. /\ state' = state
      /\ \A u \in Threads : u # t => pc'[u] = pc[u] /\ Slot(u)' = Slot(u)
  BY StepOfOthers DEF IndInv
<1>2. CASE Publish(t)
  <2>1. /\ pc[t] = "publish" /\ pc[t] \in Owning /\ t \in Writers
        /\ pc'[t] \notin Owning /\ ~Exchange(t)
        /\ indexMapper' = indexMapper /\ stateMemory' = stateMemory
    BY <1>2 DEF Publish, PublishAs, Exchange, Goto, Writers, Owning, IndInv, TypeInv
  <2>2. CASE o = Slot(t)
    <3>1. hashes[o].phase # "written"
      BY <2>1, <2>2, OwnerOfSlot
    <3>2. hashes'[o].phase = "written"
      BY <1>2, <2>2 DEF Publish, PublishAs, Written, IndInv, TypeInv
    <3>3. \A u \in Threads : pc[u] \in Owning /\ Slot(u) = o => u = t
      BY <2>1, <2>2, OwnerOfSlot
    <3>4. stateMemory[indexMapper[o]] = state[t]
      BY <2>1, <2>2 DEF IndexInv
    <3> QED BY <1>1, <2>1, <2>2, <3>1, <3>2, <3>3, <3>4 DEF Holds
  <2>3. CASE o # Slot(t)
    <3>1. hashes'[o] = hashes[o]
      BY <2>3, StepOfSlots DEF IndInv
    <3> QED BY <1>1, <2>1, <2>3, <3>1 DEF Holds
  <2> QED BY <2>2, <2>3
<1>3. CASE Exchange(t)
  <2>1. /\ pc[t] \notin Owning /\ Slot(t) \in Slots /\ hashes[Slot(t)] = Empty
        /\ probe' = probe /\ bucket' = bucket
        /\ indexMapper' = indexMapper /\ stateMemory' = stateMemory
    BY <1>3, SlotOfThread DEF Exchange, Owning, IndInv
  <2>2. Slot(t)' = Slot(t)
    BY <2>1, <1>1, StepOfOthers, SlotStays DEF IndInv
  <2>3. pc'[t] \in Owning
    BY <1>3, <2>1 DEF Exchange, Goto, Owning, IndInv, SlotInv, TypeInv
  <2>4. CASE o = Slot(t)
    <3>1. ~Holds(o, s)
      BY <2>1, <2>4, HoldsTaken
    <3>2. hashes'[o].phase = "writing"
      BY <1>3, <2>1, <2>4 DEF Exchange, Writing, IndInv, TypeInv
    <3>3. \A u \in Threads : pc'[u] \in Owning /\ Slot(u)' = o => u = t
      BY <2>2, <2>3, <2>4 DEF IndInv, SlotInv
    <3> QED BY <1>1, <1>3, <2>2, <2>3, <2>4, <3>1, <3>2, <3>3 DEF Holds
  <2>5. CASE o # Slot(t)
    <3>1. hashes'[o] = hashes[o]
      BY <2>5, StepOfSlots DEF IndInv
    <3> QED BY <1>1, <2>1, <2>2, <2>5, <3>1 DEF Holds
  <2> QED BY <2>4, <2>5
<1>4. CASE ~Publish(t) /\ ~Exchange(t)
  <2>1. hashes'[o] = hashes[o]
    BY <1>4, StepOfSlots DEF IndInv
  <2>2. hashes[o].phase = "written" =>
          stateMemory'[indexMapper'[o]] = stateMemory[indexMapper[o]]
    BY WrittenKept
  <2>3. /\ pc'[t] \in Owning <=> pc[t] \in Owning
        /\ pc[t] \in Owning => Slot(t)' = Slot(t)
    <3>1. CASE Fetch(t) \/ Map(t) \/ BeginCopy(t) \/ EndCopy(t)
      <4>1. /\ probe' = probe /\ bucket' = bucket /\ pc[t] \in Owning
            /\ pc'[t] \in Owning \cup {"thrown"}
        BY <3>1 DEF Fetch, Map, BeginCopy, EndCopy, WriteMemory, Goto, Owning, IndInv,
          TypeInv
      <4> QED BY <1>1, <4>1, StepOfOthers, SlotStays DEF IndInv, NeverThrows
    <3>2. CASE ReloadMismatch(t) \/ CompareDiffers(t)
      BY <3>2, NextBucketTyped DEF ReloadMismatch, CompareDiffers, Owning, IndInv
    <3>3. CASE \/ Load(t) \/ ExchangeFails(t) \/ ReloadMatch(t) \/ Spin(t)
               \/ Lookup(t) \/ CompareEqual(t)
      <4>1. pc[t] \notin Owning
        BY <3>3 DEF Load, ExchangeFails, ReloadMatch, Spin, Lookup, CompareEqual, Owning
      <4>2. pc'[t] \in {"exchange", "reload", "spin", "lookup", "compare", "done",
                        "thrown"}
        BY <3>3 DEF Load, ExchangeFails, ReloadMatch, Spin, Lookup, CompareEqual,
          AfterLoad, Goto, IndInv, TypeInv
      <4> QED BY <4>1, <4>2 DEF Owning
    <3> QED BY <1>4, <3>1, <3>2, <3>3 DEF Step
  <2> QED BY <1>1, <1>4, <2>1, <2>2, <2>3 DEF Holds
<1> QED BY <1>2, <1>3, <1>4

\* Before the first state is added, and after clear(), no slot stands for one.
LEMMA NothingHeld ==
  ASSUME \A t \in Threads : pc'[t] = "idle",
         \A o \in Slots : hashes'[o] = Empty
  PROVE  PathInv' /\ PassedInv' /\ UniqueInv'
<1>1. Empty.phase # "written"
  BY DEF Empty
<1>2. ASSUME NEW o \in Slots, NEW s PROVE ~Holds(o, s)'
  BY <1>1 DEF Holds, Owning
<1>3. PathInv' /\ UniqueInv'
  BY <1>2 DEF PathInv, UniqueInv
<1>4. PassedInv'
  BY DEF PassedInv, Looking
<1> QED BY <1>3, <1>4

\* Of two different buckets of the probe sequence one comes first.
LEMMA BeforeIsTotal ==
  ASSUME NEW k \in Probes, NEW l \in Buckets, NEW i \in Probes, NEW j \in Buckets
  PROVE  Before(k, l, i, j) \/ Before(i, j, k, l) \/ (k = i /\ l = j)
BY DEF Before, Probes, Buckets

\* The probe sequence of a state does not change while states are added.
LEMMA OffsetStays ==
  ASSUME cachedStatesCapacity' = cachedStatesCapacity
  PROVE  \A s \in States, k \in Probes, l \in Buckets :
           /\ Offset(s, k, l)' = Offset(s, k, l)
           /\ MemoizedHash(s, k)' = MemoizedHash(s, k)
BY DEF Offset, MemoizedHash, HashedIndex

\* A thread claims the first empty slot of its state's probe sequence.
LEMMA StepPathInv ==
  ASSUME IndInv, IndexInv, PathInv, PassedInv, IndInv', NEW t \in Threads, Step(t)
  PROVE  PathInv'
<1> SUFFICES ASSUME NEW o \in Slots, NEW s \in States, Holds(o, s)'
             PROVE  \E i \in Probes, j \in Buckets :
                      /\ Offset(s, i, j) = o
                      /\ hashes'[o].memo = MemoizedHash(s, i)
                      /\ \A k \in Probes, l \in Buckets : Before(k, l, i, j) =>
                           hashes'[Offset(s, k, l)] # Empty /\ Offset(s, k, l) # o
  BY StepOfOthers, OffsetStays DEF PathInv, IndInv, Before
<1>1. ASSUME NEW k \in Probes, NEW l \in Buckets, hashes[Offset(s, k, l)] # Empty
      PROVE  hashes'[Offset(s, k, l)] # Empty
  BY <1>1, OffsetInReach, SlotsKept DEF IndInv
<1>2. CASE Holds(o, s)
  <2>1. hashes'[o].memo = hashes[o].memo
    BY <1>2, HoldsTaken, SlotsKept DEF IndInv
  <2> QED BY <1>1, <1>2, <2>1 DEF PathInv
<1>3. CASE Exchange(t) /\ o = Slot(t) /\ s = state[t]
  <2>1. /\ pc[t] \in Looking /\ hashes[o] = Empty /\ hashes'[o] = Writing(Memo(t))
        /\ probe[t] \in Probes /\ bucket[t] \in Buckets
    BY <1>3 DEF Exchange, Looking, IndInv, TypeInv
  <2>2. hashes'[o].memo = MemoizedHash(s, probe[t])
    BY <1>3, <2>1 DEF Writing, Memo
  <2>3. Offset(s, probe[t], bucket[t]) = o
    BY <1>3 DEF Slot
  <2>4. ASSUME NEW k \in Probes, NEW l \in Buckets, Before(k, l, probe[t], bucket[t])
        PROVE  hashes'[Offset(s, k, l)] # Empty /\ Offset(s, k, l) # o
    <3>1. Offset(s, k, l) \in Slots
      BY OffsetInReach DEF IndInv
    <3>2. hashes[Offset(s, k, l)] # Empty
      BY <1>3, <2>1, <2>4, <3>1 DEF PassedInv
    <3> QED BY <1>1, <2>1, <3>2
  <2> QED BY <2>1, <2>2, <2>3, <2>4
<1> QED BY <1>2, <1>3, HoldsStep

\* A thread that claims a slot has gone past the slot that its state would have
\* been stored in, and has not met it there.
LEMMA StepUniqueInv ==
  ASSUME IndInv, IndexInv, PathInv, PassedInv, UniqueInv, IndInv',
         NEW t \in Threads, Step(t)
  PROVE  UniqueInv'
<1>1. ASSUME Exchange(t), NEW o \in Slots, Holds(o, state[t]), state[t] \in States
      PROVE  FALSE
  <2>1. /\ pc[t] \in Looking /\ hashes[Slot(t)] = Empty
        /\ probe[t] \in Probes /\ bucket[t] \in Buckets
        /\ Slot(t) = Offset(state[t], probe[t], bucket[t])
    BY <1>1 DEF Exchange, Looking, Slot, IndInv, TypeInv
  <2>2. PICK i \in Probes, j \in Buckets :
          /\ Offset(state[t], i, j) = o
          /\ \A k \in Probes, l \in Buckets : Before(k, l, i, j) =>
               hashes[Offset(state[t], k, l)] # Empty
    BY <1>1 DEF PathInv
  <2>3. ~Before(i, j, probe[t], bucket[t])
    BY <1>1, <2>1, <2>2 DEF PassedInv
  <2>4. ~Before(probe[t], bucket[t], i, j)
    BY <2>1, <2>2
  <2>5. o = Slot(t)
    BY <2>1, <2>2, <2>3, <2>4, BeforeIsTotal
  <2> QED BY <1>1, <2>1, <2>5, HoldsTaken
<1>2. ASSUME NEW o \in Slots, NEW p \in Slots, NEW s \in States,
             Holds(o, s)', Holds(p, s)'
      PROVE  o = p
  <2>1. /\ Holds(o, s) \/ (Exchange(t) /\ o = Slot(t) /\ s = state[t])
        /\ Holds(p, s) \/ (Exchange(t) /\ p = Slot(t) /\ s = state[t])
    BY <1>2, HoldsStep
  <2> QED BY <1>1, <2>1 DEF UniqueInv
<1> QED BY <1>2 DEF UniqueInv

\* A thread goes past a slot only when it is taken by another state.
LEMMA MismatchPassed ==
  ASSUME IndInv, IndexInv, PathInv, PassedInv, AnswerInv,
         NEW t \in Threads, ReloadMismatch(t) \/ CompareDiffers(t)
  PROVE  /\ hashes[Slot(t)] # Empty
         /\ ~Holds(Slot(t), state[t])
<1>1. /\ pc[t] \in {"reload", "compare"} /\ pc[t] \in Looking
      /\ Slot(t) \in Slots /\ state[t] \in States
      /\ probe[t] \in Probes /\ bucket[t] \in Buckets
      /\ Slot(t) = Offset(state[t], probe[t], bucket[t])
  BY SlotOfThread DEF ReloadMismatch, CompareDiffers, Looking, Slot, IndInv, TypeInv
<1>2. hashes[Slot(t)] # Empty
  BY <1>1 DEF IndInv, SlotInv
<1>3. CASE ReloadMismatch(t)
  <2> SUFFICES ASSUME Holds(Slot(t), state[t]) PROVE FALSE
    BY <1>2
  <2>1. PICK i \in Probes, j \in Buckets :
          /\ Offset(state[t], i, j) = Slot(t)
          /\ hashes[Slot(t)].memo = MemoizedHash(state[t], i)
          /\ \A k \in Probes, l \in Buckets : Before(k, l, i, j) =>
               Offset(state[t], k, l) # Slot(t)
    BY <1>1 DEF PathInv
  <2>2. i # probe[t]
    BY <1>3, <2>1 DEF ReloadMismatch, Memo
  <2>3. ~Before(i, j, probe[t], bucket[t])
    BY <1>1, <2>1 DEF PassedInv
  <2>4. ~Before(probe[t], bucket[t], i, j)
    BY <1>1, <2>1
  <2> QED BY <1>1, <2>2, <2>3, <2>4, BeforeIsTotal
<1>4. CASE CompareDiffers(t)
  <2>1. hashes[Slot(t)].phase = "written" /\ compactIndex[t] = indexMapper[Slot(t)]
    BY <1>4 DEF CompareDiffers, IndInv, SlotInv, AnswerInv
  <2>2. compactIndex[t] # -1
    BY <1>1, <2>1 DEF IndexInv, StateIndexes, IndInv, TypeInv
  <2>3. stateMemory[indexMapper[Slot(t)]] # state[t]
    BY <1>4, <2>1, <2>2 DEF CompareDiffers, SameState
  <2> QED BY <1>1, <1>2, <2>1, <2>3, OwnerOfSlot DEF Holds
<1> QED BY <1>3, <1>4

\* The loops visit the buckets in order.
LEMMA NextBucketAdvances ==
  ASSUME TypeInv, NEW t \in Threads, NextBucket(t), pc'[t] # "outOfMemory",
         NEW k \in Probes, NEW l \in Buckets,
         Before(k, l, probe'[t], bucket'[t])
  PROVE  Before(k, l, probe[t], bucket[t]) \/ (k = probe[t] /\ l = bucket[t])
<1>1. /\ BucketsPerCacheLine \in Nat \ {0}
      /\ k \in Nat /\ l \in Nat /\ l < BucketsPerCacheLine
      /\ probe[t] \in Nat /\ bucket[t] \in Nat /\ bucket[t] < BucketsPerCacheLine
  BY CapacityAssumption, HashAssumption DEF TypeInv, Probes, Buckets
<1>2. CASE bucket[t] + 1 < BucketsPerCacheLine
  <2>1. probe'[t] = probe[t] /\ bucket'[t] = bucket[t] + 1
    BY <1>2 DEF NextBucket, TypeInv
  <2> QED BY <1>1, <2>1 DEF Before
<1>3. CASE ~(bucket[t] + 1 < BucketsPerCacheLine)
  <2>1. probe'[t] = probe[t] + 1 /\ bucket'[t] = 0
    BY <1>3 DEF NextBucket, Goto, TypeInv
  <2> QED BY <1>1, <1>3, <2>1 DEF Before
<1> QED BY <1>2, <1>3

LEMMA StepPassedInv ==
  ASSUME IndInv, IndexInv, AnswerInv, PathInv, PassedInv, IndInv',
         NEW t \in Threads, Step(t)
  PROVE  PassedInv'
<1>1. state' = state /\ cachedStatesCapacity' = cachedStatesCapacity
  BY StepOfOthers DEF IndInv
<1> SUFFICES ASSUME NEW u \in Threads, NEW s \in States, NEW o \in Slots,
                    NEW k \in Probes, NEW l \in Buckets,
                    pc'[u] \in Looking, state[u] = s, Offset(s, k, l) = o,
                    Before(k, l, probe'[u], bucket'[u])
             PROVE  hashes'[o] # Empty /\ ~Holds(o, s)'
  <2>1. \A s \in States, k \in Probes, l \in Buckets :
          Offset(s, k, l)' = Offset(s, k, l)
    BY <1>1, OffsetStays
  <2> QED BY <1>1, <2>1 DEF PassedInv, Before
<1>2. hashes[o] # Empty /\ ~Holds(o, s)
      => hashes'[o] # Empty /\ ~Holds(o, s)'
  BY HoldsStep, SlotsKept DEF Exchange, IndInv
<1>3. CASE u # t
  <2>1. pc'[u] = pc[u] /\ probe'[u] = probe[u] /\ bucket'[u] = bucket[u]
    BY <1>3, NextBucketTyped, StepOfOthers DEF IndInv, Step, Load, Exchange,
      ExchangeFails, Fetch, Map, BeginCopy, EndCopy, WriteMemory, Publish,
      PublishAs, ReloadMatch, ReloadMismatch, Spin, Lookup, CompareEqual,
      CompareDiffers
  <2> QED BY <1>2, <2>1 DEF PassedInv
<1>4. CASE u = t /\ (ReloadMismatch(t) \/ CompareDiffers(t))
  <2>1. /\ pc[t] \in Looking /\ NextBucket(t) /\ pc'[t] # "outOfMemory"
        /\ Before(k, l, probe'[t], bucket'[t]) /\ TypeInv
    BY <1>4 DEF ReloadMismatch, CompareDiffers, Looking, IndInv
  <2>2. Before(k, l, probe[t], bucket[t]) \/ (k = probe[t] /\ l = bucket[t])
    BY <2>1, NextBucketAdvances
  <2>3. CASE Before(k, l, probe[t], bucket[t])
    BY <1>2, <1>4, <2>1, <2>3 DEF PassedInv
  <2>4. CASE k = probe[t] /\ l = bucket[t]
    BY <1>2, <1>4, <2>4, MismatchPassed DEF Slot
  <2> QED BY <2>2, <2>3, <2>4
<1>5. CASE u = t /\ ~ReloadMismatch(t) /\ ~CompareDiffers(t)
  <2>1. probe' = probe /\ bucket' = bucket
    BY <1>5 DEF Step, Load, Exchange, ExchangeFails, Fetch, Map, BeginCopy,
      EndCopy, WriteMemory, Publish, PublishAs, ReloadMatch, Spin, Lookup,
      CompareEqual, shared
  <2>2. pc[t] \in Looking
    <3>1. CASE Fetch(t) \/ Map(t) \/ BeginCopy(t) \/ EndCopy(t) \/ Publish(t)
      BY <1>5, <3>1 DEF Fetch, Map, BeginCopy, EndCopy, WriteMemory, Publish,
        PublishAs, Goto, Looking, IndInv, TypeInv
    <3>2. CASE ~(Fetch(t) \/ Map(t) \/ BeginCopy(t) \/ EndCopy(t) \/ Publish(t))
      BY <1>5, <3>2 DEF Step, Load, Exchange, ExchangeFails, ReloadMatch, Spin,
        Lookup, CompareEqual, Looking
    <3> QED BY <3>1, <3>2
  <2> QED BY <1>2, <1>5, <2>1, <2>2 DEF PassedInv
<1> QED BY <1>3, <1>4, <1>5

-----------------------------------------------------------------------------
(***************************************************************************)
(* The theorems.                                                           *)
(***************************************************************************)
LEMMA InitUniqueIndInv == Init => UniqueIndInv
<1> SUFFICES ASSUME Init PROVE UniqueIndInv
  OBVIOUS
<1>1. Empty.phase # "written"
  BY DEF Empty
<1>2. \A o \in Slots, s \in States : ~Holds(o, s)
  BY <1>1 DEF Init, Holds, Owning
<1>3. PathInv /\ UniqueInv
  BY <1>2 DEF PathInv, UniqueInv
<1>4. PassedInv
  <2>1. \A k \in Probes, l \in Buckets : ~Before(k, l, 1, 0)
    BY HashAssumption, CapacityAssumption DEF Before, Probes, Buckets
  <2> QED BY <2>1 DEF Init, PassedInv
<1> QED BY <1>3, <1>4, InitIndInv, InitIndexInv DEF UniqueIndInv

LEMMA NextUniqueIndInv == UniqueIndInv /\ [Next]_vars => UniqueIndInv'
<1> SUFFICES ASSUME UniqueIndInv, [Next]_vars PROVE UniqueIndInv'
  OBVIOUS
<1> USE DEF UniqueIndInv
<1>1. IndInv' /\ IndexInv' /\ AnswerInv'
  BY NextIndInv, NextIndexInv
<1>2. CASE Clear
  BY <1>1, <1>2, NothingHeld DEF Clear, Quiet, locals
<1>3. CASE Reserve
  <2>1. /\ hashes' = hashes /\ pc' = pc
        /\ Quiet /\ savedStates = reservedStatesCapacity
    BY <1>3 DEF Reserve, ReserveIn, locals
  <2>2. \A o \in Slots : hashes'[o] = Empty
    BY <2>1, NothingClaimed DEF IndInv
  <2> QED BY <1>1, <2>1, <2>2, NothingHeld DEF Quiet
<1>4. ASSUME NEW t \in Threads,
             Return(t) \/ \E s \in States : Call(t, s)
      PROVE  PathInv' /\ UniqueInv' /\ PassedInv'
  <2>1. /\ cachedStatesCapacity' = cachedStatesCapacity
        /\ hashes' = hashes /\ indexMapper' = indexMapper
        /\ stateMemory' = stateMemory
        /\ pc[t] \notin Owning /\ pc'[t] \in {"idle", "load"}
        /\ pc'[t] = "load" => probe'[t] = 1 /\ bucket'[t] = 0
        /\ \A u \in Threads : u # t =>
             /\ pc'[u] = pc[u] /\ state'[u] = state[u]
             /\ probe'[u] = probe[u] /\ bucket'[u] = bucket[u]
    BY <1>4 DEF Call, Return, Goto, Owning, IndInv, TypeInv, shared
  <2>2. \A u \in Threads : u # t => Slot(u)' = Slot(u)
    BY <2>1, SlotStays
  <2>3. \A o \in Slots, s \in States : Holds(o, s)' <=> Holds(o, s)
    BY <2>1, <2>2 DEF Holds, Owning
  <2>4. \A s \in States, k \in Probes, l \in Buckets :
          /\ Offset(s, k, l)' = Offset(s, k, l)
          /\ MemoizedHash(s, k)' = MemoizedHash(s, k)
    BY <2>1, OffsetStays
  <2>5. PathInv' /\ UniqueInv'
    BY <2>1, <2>3, <2>4 DEF PathInv, UniqueInv, Before
  <2>6. \A k \in Probes, l \in Buckets : ~Before(k, l, 1, 0)
    BY HashAssumption, CapacityAssumption DEF Before, Probes, Buckets
  <2>7. PassedInv'
    BY <2>1, <2>3, <2>4, <2>6 DEF PassedInv, Looking
  <2> QED BY <2>5, <2>7
<1>5. ASSUME NEW t \in Threads, Step(t)
      PROVE  PathInv' /\ UniqueInv' /\ PassedInv'
  BY <1>1, <1>5, StepPathInv, StepUniqueInv, StepPassedInv
<1>6. CASE UNCHANGED vars
  <2>1. /\ \A o \in Slots, s \in States : Holds(o, s)' <=> Holds(o, s)
        /\ hashes' = hashes /\ pc' = pc /\ state' = state
        /\ probe' = probe /\ bucket' = bucket
        /\ cachedStatesCapacity' = cachedStatesCapacity
    BY <1>6 DEF Holds, vars, shared, locals, Slot, Offset, HashedIndex
  <2>2. \A s \in States, k \in Probes, l \in Buckets :
          /\ Offset(s, k, l)' = Offset(s, k, l)
          /\ MemoizedHash(s, k)' = MemoizedHash(s, k)
    BY <2>1, OffsetStays
  <2>3. PathInv' /\ UniqueInv'
    BY <2>1, <2>2 DEF PathInv, UniqueInv
  <2>4. PassedInv'
    BY <2>1, <2>2 DEF PassedInv
  <2> QED BY <1>1, <2>3, <2>4
<1> QED BY <1>1, <1>2, <1>3, <1>4, <1>5, <1>6 DEF Next

\* The inductive invariant about what is stored holds in every reachable state.
THEOREM UniqueInductive == Spec => []UniqueIndInv
BY InitUniqueIndInv, NextUniqueIndInv, PTL DEF Spec

\* Every index given out for a state stands for a state that some slot holds.
LEMMA ContentHeld ==
  ASSUME UniqueIndInv, NEW n \in StateIndexes
  PROVE  /\ Content(n) \in States
         /\ \/ \E o \in Slots :
                 /\ hashes[o].phase = "written" /\ indexMapper[o] = n
                 /\ Holds(o, Content(n))
            \/ \E t \in Writers :
                 compactIndex[t] = n /\ Holds(Slot(t), Content(n))
<1> USE DEF UniqueIndInv
<1>1. CASE \E t \in Writers : compactIndex[t] = n
  <2>1. PICK t \in Writers : /\ compactIndex[t] = n
                             /\ t = CHOOSE u \in Writers : compactIndex[u] = n
    BY <1>1
  <2>2. Content(n) = state[t]
    BY <1>1, <2>1 DEF Content
  <2>3. t \in Threads /\ pc[t] \in Owning
    BY DEF Writers, Owning
  <2> QED BY <2>1, <2>2, <2>3, OwnerOfSlot DEF Holds
<1>2. CASE ~\E t \in Writers : compactIndex[t] = n
  <2>1. PICK o \in Slots : hashes[o].phase = "written" /\ indexMapper[o] = n
    BY <1>2 DEF IndexInv
  <2>2. Content(n) = stateMemory[n]
    BY <1>2 DEF Content
  <2> QED BY <2>1, <2>2 DEF IndexInv, Holds
<1> QED BY <1>1, <1>2

LEMMA UniqueIndInvNoDuplicates == UniqueIndInv => NoDuplicateStates
<1> SUFFICES ASSUME UniqueIndInv, NEW m \in StateIndexes, NEW n \in StateIndexes,
                    Content(m) = Content(n)
             PROVE  m = n
  BY DEF NoDuplicateStates
<1> USE DEF UniqueIndInv
<1>1. \A t \in Writers : /\ t \in Threads /\ pc[t] \in Owning
                         /\ Slot(t) \in Slots /\ hashes[Slot(t)].phase # "written"
  BY OwnerOfSlot DEF Writers, Owning
<1>2. \A t, u \in Writers : Slot(t) = Slot(u) => t = u
  BY <1>1, OwnerOfSlot
<1>3. \A o, p \in Slots : Holds(o, Content(m)) /\ Holds(p, Content(n)) => o = p
  BY ContentHeld DEF UniqueInv
<1> QED BY <1>1, <1>2, <1>3, ContentHeld

\* However the calls of any number of threads interleave, no state is ever
\* stored under two indexes.
THEOREM NoDuplicateStatesHolds == Spec => []NoDuplicateStates
BY UniqueInductive, UniqueIndInvNoDuplicates, PTL

\* No thread compares its state with one that another thread is still copying.
THEOREM ComparesFinishedStatesHolds == Spec => []ComparesFinishedStates
<1>1. UniqueIndInv => ComparesFinishedStates
  <2> SUFFICES ASSUME UniqueIndInv, NEW t \in Threads, pc[t] = "compare"
               PROVE  /\ compactIndex[t] \in StateIndexes
                      /\ \A u \in Writers : compactIndex[u] # compactIndex[t]
                      /\ stateMemory[compactIndex[t]] # Torn
    BY DEF ComparesFinishedStates
  <2>1. /\ Slot(t) \in Slots /\ hashes[Slot(t)].phase = "written"
        /\ compactIndex[t] = indexMapper[Slot(t)]
    BY SlotOfThread DEF UniqueIndInv, IndInv, SlotInv, AnswerInv
  <2> QED BY <2>1, StatesAssumption DEF UniqueIndInv, IndexInv
<1> QED BY <1>1, UniqueInductive, PTL

\* The index that addState returns reads back as the state that was added.
THEOREM AnswerReadsBackHolds == Spec => []AnswerReadsBack
<1>1. UniqueIndInv => AnswerReadsBack
  <2> SUFFICES ASSUME UniqueIndInv, NEW t \in Threads, pc[t] = "done"
               PROVE  /\ compactIndex[t] \in StateIndexes
                      /\ stateMemory[compactIndex[t]] = state[t]
    BY DEF AnswerReadsBack
  <2>1. /\ Slot(t) \in Slots /\ hashes[Slot(t)].phase = "written"
        /\ compactIndex[t] = indexMapper[Slot(t)]
        /\ stateMemory[compactIndex[t]] = state[t]
    BY SlotOfThread DEF UniqueIndInv, IndInv, SlotInv, AnswerInv
  <2> QED BY <2>1 DEF UniqueIndInv, IndexInv
<1> QED BY <1>1, UniqueInductive, PTL

\* Until the next clear() a written slot keeps its hash and its index, and a
\* claimed one becomes nothing but written, with the hash it was claimed with.
THEOREM SlotLifeCycleHolds == Spec => SlotLifeCycle
<1> DEFINE Kept(o) ==
      /\ hashes[o].phase = "written" =>
           hashes'[o] = hashes[o] /\ indexMapper'[o] = indexMapper[o]
      /\ hashes[o].phase = "writing" =>
           hashes'[o] \in {hashes[o], Written(hashes[o].memo)}
<1>1. ASSUME UniqueIndInv, [Next]_vars, ~Clear, NEW o \in Slots PROVE Kept(o)
  <2>1. ASSUME NEW t \in Threads, Step(t) PROVE Kept(o)
    <3>1. /\ Empty.phase = "empty"
          /\ Writing(Memo(t)).phase = "writing" /\ Writing(Memo(t)).memo = Memo(t)
      BY DEF Empty, Writing
    <3>2. hashes[o].phase = "written" => hashes'[o] = hashes[o]
      BY <1>1, <2>1, <3>1, StepOfSlots DEF UniqueIndInv, IndInv
    <3>3. hashes[o].phase = "writing" =>
            hashes'[o] \in {hashes[o], Written(hashes[o].memo)}
      BY <1>1, <2>1, <3>1, StepOfSlots DEF UniqueIndInv, IndInv
    <3> QED BY <1>1, <2>1, <3>2, <3>3, WrittenKept DEF UniqueIndInv
  <2>2. ASSUME NEW t \in Threads, Return(t) \/ \E s \in States : Call(t, s)
        PROVE  Kept(o)
    BY <2>2 DEF Call, Return, shared
  <2>3. ASSUME Reserve PROVE Kept(o)
    <3>1. hashes[o] = Empty
      BY <1>1, <2>3, NothingClaimed DEF Reserve, ReserveIn, UniqueIndInv, IndInv
    <3> QED BY <3>1 DEF Empty
  <2>4. CASE UNCHANGED vars
    BY <2>4 DEF vars, shared
  <2> QED BY <1>1, <2>1, <2>2, <2>3, <2>4 DEF Next
<1>2. UniqueIndInv /\ [Next]_vars => [~Clear => \A o \in Slots : Kept(o)]_vars
  BY <1>1
<1> QED BY <1>2, UniqueInductive, PTL DEF Spec, SlotLifeCycle

-----------------------------------------------------------------------------
(***************************************************************************)
(* addState is linearizable: the lock-free table implements the abstract   *)
(* storage.  First, what the indexes stand for.                            *)
(***************************************************************************)
\* While a thread stores a state, its index stands for that state.
LEMMA ContentOfWriter ==
  ASSUME NEW n, NEW t \in Writers, \A u \in Writers : compactIndex[u] = n <=> u = t
  PROVE  Content(n) = state[t]
PROOF
<1>1. PICK u \in Writers : /\ compactIndex[u] = n
                           /\ u = CHOOSE w \in Writers : compactIndex[w] = n
  OBVIOUS
<1> QED BY <1>1 DEF Content

\* A step that keeps the writer of an index with its argument, or what is in
\* memory where no thread writes, keeps what the index stands for.
LEMMA ContentKept ==
  ASSUME IndexInv, NEW n,
         \A w \in Writers \cup Writers' :
           w \in Writers' /\ compactIndex'[w] = n <=> w \in Writers /\ compactIndex[w] = n,
         \A w \in Writers : state'[w] = state[w],
         (\A w \in Writers : compactIndex[w] # n) => stateMemory'[n] = stateMemory[n]
  PROVE  Content(n)' = Content(n)
PROOF
<1>1. CASE \A w \in Writers : compactIndex[w] # n
  <2>1. \A w \in Writers' : compactIndex'[w] # n
    BY <1>1
  <2> QED BY <1>1, <2>1 DEF Content
<1>2. ASSUME NEW t \in Writers, compactIndex[t] = n PROVE Content(n)' = Content(n)
  <2>1. \A u \in Writers : compactIndex[u] = n <=> u = t
    BY <1>2 DEF IndexInv
  <2>2. t \in Writers' /\ \A u \in Writers' : compactIndex'[u] = n <=> u = t
    BY <1>2, <2>1
  <2>3. PICK u \in Writers' : /\ compactIndex'[u] = n
                              /\ u = CHOOSE w \in Writers' : compactIndex'[w] = n
    BY <2>2
  <2>4. Content(n)' = state'[t]
    BY <2>2, <2>3 DEF Content
  <2> QED BY <2>1, <2>4, ContentOfWriter
<1> QED BY <1>1, <1>2

-----------------------------------------------------------------------------
(***************************************************************************)
(* The two variables of the abstract storage.                              *)
(***************************************************************************)
LEMMA ContentsTyped ==
  ASSUME UniqueIndInv
  PROVE  /\ savedStates \in Nat /\ reservedStatesCapacity \in Nat
         /\ reservedStatesCapacity <= savedStates
         /\ AbstractContents \in Seq(States \cup {Reserved})
         /\ Len(AbstractContents) = savedStates
         /\ \A n \in 1..savedStates : AbstractContents[n] =
              IF n <= reservedStatesCapacity THEN Reserved ELSE Content(n - 1)
         /\ \A n \in 1..savedStates :
              n > reservedStatesCapacity => n - 1 \in StateIndexes /\ Content(n - 1) \in States
PROOF
<1>1. savedStates \in Nat /\ reservedStatesCapacity \in Nat
  BY CapacityAssumption DEF UniqueIndInv, IndInv, TypeInv
<1>2. reservedStatesCapacity <= savedStates
  <2>1. Cardinality(Numbered) \in Nat
    BY NumberedIsFinite, FS_CardinalityType DEF UniqueIndInv, IndInv
  <2> QED BY <1>1, <2>1 DEF UniqueIndInv, IndInv, CountInv
<1>3. ASSUME NEW n \in 1..savedStates, n > reservedStatesCapacity
      PROVE  n - 1 \in StateIndexes /\ Content(n - 1) \in States
  <2>1. n - 1 \in StateIndexes
    BY <1>1, <1>3 DEF StateIndexes
  <2> QED BY <2>1, ContentHeld
<1>4. AbstractContents \in Seq(States \cup {Reserved}) /\ Len(AbstractContents) = savedStates
  BY <1>1, <1>3 DEF AbstractContents
<1> QED BY <1>1, <1>2, <1>3, <1>4 DEF AbstractContents

\* What a thread compares its state with is the state of a finished index.
LEMMA CompareIsFinished ==
  ASSUME UniqueIndInv, NEW t \in Threads, pc[t] \in {"compare", "done"}
  PROVE  /\ compactIndex[t] \in StateIndexes
         /\ \A u \in Writers : compactIndex[u] # compactIndex[t]
PROOF
<1>1. /\ Slot(t) \in Slots /\ hashes[Slot(t)].phase = "written"
      /\ compactIndex[t] = indexMapper[Slot(t)]
  BY SlotOfThread DEF UniqueIndInv, IndInv, SlotInv, AnswerInv
<1> QED BY <1>1 DEF UniqueIndInv, IndexInv

\* A state that no slot holds is not stored.
LEMMA NotStored ==
  ASSUME UniqueIndInv, NEW s \in States, \A o \in Slots : ~Holds(o, s)
  PROVE  s \notin Abstract!Stored
PROOF
<1> SUFFICES ASSUME NEW n \in 1..Len(AbstractContents), AbstractContents[n] = s
             PROVE  FALSE
  BY DEF Abstract!Stored
<1>1. n \in 1..savedStates /\ n > reservedStatesCapacity
  BY ContentsTyped, ReservedAssumption
<1>2. n - 1 \in StateIndexes /\ Content(n - 1) = s
  BY <1>1, ContentsTyped
<1>3. \A t \in Writers : Slot(t) \in Slots
  BY OwnerOfSlot DEF UniqueIndInv, Writers, Owning
<1> QED BY <1>2, <1>3, ContentHeld

\* Nothing changes for the abstract storage but the request of one thread.
LEMMA RequestStep ==
  ASSUME NEW t \in Threads,
         \A u \in Threads \ {t} :
           /\ pc'[u] = pc[u] /\ state'[u] = state[u]
           /\ isNew'[u] = isNew[u] /\ compactIndex'[u] = compactIndex[u]
  PROVE  AbstractRequest' = [AbstractRequest EXCEPT ![t] = AbstractRequest'[t]]
PROOF
<1>1. \A u \in Threads \ {t} : AbstractRequest'[u] = AbstractRequest[u]
  BY DEF AbstractRequest, Writers
<1>2. /\ AbstractRequest = [u \in Threads |-> AbstractRequest[u]]
      /\ AbstractRequest' = [u \in Threads |-> AbstractRequest'[u]]
  BY DEF AbstractRequest
<1> QED BY <1>1, <1>2

LEMMA SameContents ==
  ASSUME savedStates' = savedStates, reservedStatesCapacity' = reservedStatesCapacity,
         UniqueIndInv, \A n \in StateIndexes : Content(n)' = Content(n)
  PROVE  AbstractContents' = AbstractContents
PROOF
<1>1. \A n \in 1..savedStates :
        n <= reservedStatesCapacity \/ Content(n - 1)' = Content(n - 1)
  BY ContentsTyped
<1> QED BY <1>1 DEF AbstractContents

\* Where a call is, for the abstract storage.
Requests ==
  \A t \in Threads :
    /\ pc[t] = "idle" => AbstractRequest[t] = Abstract!NoRequest
    /\ pc[t] \in Looking \cup {"fetch"} => AbstractRequest[t] = Abstract!Pending(state[t])
    /\ t \in Writers =>
         AbstractRequest[t] = Abstract!Answered(state[t], TRUE, compactIndex[t])
    /\ pc[t] = "done" =>
         AbstractRequest[t] = Abstract!Answered(state[t], isNew[t], compactIndex[t])
    /\ pc[t] = "outOfMemory" => AbstractRequest[t] = Abstract!Refused(state[t])

LEMMA RequestsHold == TypeInv => Requests
PROOF
<1> SUFFICES ASSUME TypeInv, NEW t \in Threads
             PROVE  /\ pc[t] = "idle" => AbstractRequest[t] = Abstract!NoRequest
                    /\ pc[t] \in Looking \cup {"fetch"} =>
                         AbstractRequest[t] = Abstract!Pending(state[t])
                    /\ t \in Writers =>
                         AbstractRequest[t] = Abstract!Answered(state[t], TRUE, compactIndex[t])
                    /\ pc[t] = "done" =>
                         AbstractRequest[t] = Abstract!Answered(state[t], isNew[t], compactIndex[t])
                    /\ pc[t] = "outOfMemory" => AbstractRequest[t] = Abstract!Refused(state[t])
  BY DEF Requests
<1>1. CASE t \in Writers
  <2>1. pc[t] \in {"map", "copy", "copying", "publish"}
    BY <1>1 DEF Writers
  <2> QED BY <1>1, <2>1 DEF AbstractRequest, Abstract!Answered, Looking
<1>2. CASE t \notin Writers /\ pc[t] = "done"
  <2>1. isNew[t] \in BOOLEAN
    BY DEF TypeInv
  <2> QED BY <1>2, <2>1 DEF AbstractRequest, Abstract!Answered, Looking
<1>3. CASE t \notin Writers /\ pc[t] # "done"
  BY <1>3 DEF AbstractRequest, Abstract!NoRequest, Abstract!Pending, Abstract!Refused, Looking
<1> QED BY <1>1, <1>2, <1>3

-----------------------------------------------------------------------------
(***************************************************************************)
(* Steps of addState.                                                      *)
(***************************************************************************)
\* The abstract storage takes no notice of a step that leaves the request as
\* it is and the indexes with what they stand for.
LEMMA NoNotice ==
  ASSUME UniqueIndInv, UniqueIndInv', NEW t \in Threads, Step(t),
         savedStates' = savedStates, isNew' = isNew \/ Publish(t),
         AbstractRequest'[t] = AbstractRequest[t],
         \A n \in StateIndexes : Content(n)' = Content(n)
  PROVE  UNCHANGED Abstract!vars
PROOF
<1>1. /\ reservedStatesCapacity' = reservedStatesCapacity /\ state' = state
      /\ \A u \in Threads \ {t} :
           pc'[u] = pc[u] /\ compactIndex'[u] = compactIndex[u] /\ isNew'[u] = isNew[u]
  BY StepOfOthers DEF UniqueIndInv, IndInv, TypeInv, Publish, PublishAs
<1>2. AbstractRequest' = [AbstractRequest EXCEPT ![t] = AbstractRequest[t]]
  BY <1>1, RequestStep
<1>3. AbstractRequest' = AbstractRequest
  BY <1>2 DEF AbstractRequest
<1>4. AbstractContents' = AbstractContents
  BY <1>1, SameContents
<1> QED BY <1>3, <1>4 DEF Abstract!vars

\* A thread that looks for its state, or claims a slot, only reads.
LEMMA LookingIsStutter ==
  ASSUME UniqueIndInv, UniqueIndInv', NEW t \in Threads, Step(t),
         Load(t) \/ Exchange(t) \/ ExchangeFails(t) \/ ReloadMatch(t) \/ Spin(t) \/ Lookup(t)
           \/ ((ReloadMismatch(t) \/ CompareDiffers(t)) /\ pc'[t] # "outOfMemory")
  PROVE  UNCHANGED Abstract!vars
PROOF
<1>1. /\ pc[t] \in Looking /\ pc'[t] \in Looking \cup {"fetch"}
      /\ savedStates' = savedStates /\ stateMemory' = stateMemory /\ isNew' = isNew
  <2>1. CASE (ReloadMismatch(t) \/ CompareDiffers(t)) /\ pc'[t] # "outOfMemory"
    BY <2>1, NextBucketTyped
       DEF ReloadMismatch, CompareDiffers, Looking, shared, UniqueIndInv, IndInv
  <2>2. CASE Load(t) \/ Exchange(t) \/ ExchangeFails(t)
    BY <2>2 DEF Load, Exchange, ExchangeFails, Goto, Looking, shared,
                UniqueIndInv, IndInv, TypeInv
  <2>3. CASE ReloadMatch(t) \/ Spin(t)
    BY <2>3 DEF ReloadMatch, Spin, AfterLoad, Goto, Looking, shared,
                UniqueIndInv, IndInv, TypeInv
  <2>4. CASE Lookup(t)
    <3>1. pc'[t] # "thrown"
      BY DEF UniqueIndInv, IndInv, NeverThrows
    <3> QED BY <2>4, <3>1 DEF Lookup, Goto, Looking, shared, UniqueIndInv, IndInv, TypeInv
  <2> QED BY <2>1, <2>2, <2>3, <2>4
<1>2. /\ state' = state
      /\ \A u \in Threads \ {t} : pc'[u] = pc[u] /\ compactIndex'[u] = compactIndex[u]
  BY StepOfOthers DEF UniqueIndInv, IndInv
<1>3. t \notin Writers /\ Writers' = Writers
  BY <1>1, <1>2 DEF Writers, Looking
<1>4. ASSUME NEW n \in StateIndexes PROVE Content(n)' = Content(n)
  BY <1>1, <1>2, <1>3, ContentKept DEF UniqueIndInv, Writers
<1>5. AbstractRequest'[t] = AbstractRequest[t]
  <2>1. AbstractRequest[t] = Abstract!Pending(state[t])
    BY <1>1, RequestsHold DEF Requests, UniqueIndInv, IndInv
  <2>2. AbstractRequest'[t] = Abstract!Pending(state'[t])
    <3>1. Requests'
      BY RequestsHold, PTL DEF UniqueIndInv, IndInv
    <3> QED BY <1>1, <3>1 DEF Requests, Looking, Abstract!Pending
  <2> QED BY <1>2, <2>1, <2>2 DEF Abstract!Pending
<1> QED BY <1>1, <1>4, <1>5, NoNotice

\* While a thread stores its state, the answer is already decided.
LEMMA StoringIsStutter ==
  ASSUME UniqueIndInv, UniqueIndInv', NEW t \in Threads, Step(t),
         Map(t) \/ BeginCopy(t) \/ EndCopy(t)
  PROVE  UNCHANGED Abstract!vars
PROOF
<1>1. /\ t \in Writers /\ pc'[t] \in {"copy", "copying", "publish"}
      /\ savedStates' = savedStates /\ isNew' = isNew /\ compactIndex' = compactIndex
      /\ \A n \in Slots : n # compactIndex[t] => stateMemory'[n] = stateMemory[n]
  <2>1. CASE Map(t)
    <3>1. pc'[t] # "thrown"
      BY DEF UniqueIndInv, IndInv, NeverThrows
    <3> QED BY <2>1, <3>1 DEF Map, Goto, Writers, UniqueIndInv, IndInv, TypeInv
  <2>2. CASE BeginCopy(t) \/ EndCopy(t)
    BY <2>2 DEF BeginCopy, EndCopy, WriteMemory, Goto, Writers, UniqueIndInv, IndInv, TypeInv
  <2> QED BY <2>1, <2>2
<1>2. state' = state /\ \A u \in Threads \ {t} : pc'[u] = pc[u]
  BY StepOfOthers DEF UniqueIndInv, IndInv
<1>3. Writers' = Writers
  BY <1>1, <1>2 DEF Writers
<1>4. ASSUME NEW n \in StateIndexes PROVE Content(n)' = Content(n)
  <2>1. n \in Slots
    BY IndexesInMemory DEF UniqueIndInv
  <2>2. (\A w \in Writers : compactIndex[w] # n) => stateMemory'[n] = stateMemory[n]
    BY <1>1, <2>1
  <2> QED BY <1>1, <1>2, <1>3, <2>2, ContentKept DEF UniqueIndInv
<1>5. AbstractRequest'[t] = AbstractRequest[t]
  <2>1. AbstractRequest[t] = Abstract!Answered(state[t], TRUE, compactIndex[t])
    BY <1>1, RequestsHold DEF Requests, UniqueIndInv, IndInv
  <2>2. AbstractRequest'[t] = Abstract!Answered(state'[t], TRUE, compactIndex'[t])
    <3>1. Requests'
      BY RequestsHold, PTL DEF UniqueIndInv, IndInv
    <3> QED BY <1>1, <1>3, <3>1 DEF Requests, Abstract!Answered
  <2> QED BY <1>1, <1>2, <2>1, <2>2 DEF Abstract!Answered
<1> QED BY <1>1, <1>4, <1>5, NoNotice

\* A state that is published was in the memory before.
LEMMA PublishIsStutter ==
  ASSUME UniqueIndInv, UniqueIndInv', NEW t \in Threads, Step(t), Publish(t)
  PROVE  UNCHANGED Abstract!vars
PROOF
<1>1. /\ t \in Writers /\ pc[t] = "publish" /\ pc'[t] = "done"
      /\ savedStates' = savedStates /\ isNew'[t] = TRUE
      /\ compactIndex' = compactIndex /\ stateMemory' = stateMemory
  BY DEF Publish, PublishAs, Goto, Writers, UniqueIndInv, IndInv, TypeInv
<1>2. state' = state /\ \A u \in Threads \ {t} : pc'[u] = pc[u]
  BY StepOfOthers DEF UniqueIndInv, IndInv
<1>3. Writers' = Writers \ {t}
  BY <1>1, <1>2 DEF Writers
<1>4. ASSUME NEW n \in StateIndexes PROVE Content(n)' = Content(n)
  <2>1. CASE compactIndex[t] = n
    <3>1. \A u \in Writers : compactIndex[u] = n <=> u = t
      BY <1>1, <2>1 DEF UniqueIndInv, IndexInv
    <3>2. Content(n) = state[t]
      BY <1>1, <3>1, ContentOfWriter
    <3>3. \A u \in Writers' : compactIndex'[u] # n
      BY <1>1, <1>3, <3>1
    <3>4. Content(n)' = stateMemory[n]
      BY <1>1, <3>3 DEF Content
    <3> QED BY <1>1, <2>1, <3>2, <3>4 DEF UniqueIndInv, IndexInv
  <2>2. CASE compactIndex[t] # n
    <3>1. \A w \in Writers \cup Writers' :
            w \in Writers' /\ compactIndex'[w] = n <=> w \in Writers /\ compactIndex[w] = n
      BY <1>1, <1>3, <2>2
    <3> QED BY <1>1, <1>2, <3>1, ContentKept DEF UniqueIndInv
  <2> QED BY <2>1, <2>2
<1>5. AbstractRequest'[t] = AbstractRequest[t]
  <2>1. AbstractRequest[t] = Abstract!Answered(state[t], TRUE, compactIndex[t])
    BY <1>1, RequestsHold DEF Requests, UniqueIndInv, IndInv
  <2>2. AbstractRequest'[t] = Abstract!Answered(state'[t], isNew'[t], compactIndex'[t])
    <3>1. Requests'
      BY RequestsHold, PTL DEF UniqueIndInv, IndInv
    <3> QED BY <1>1, <3>1 DEF Requests, Abstract!Answered
  <2> QED BY <1>1, <1>2, <2>1, <2>2 DEF Abstract!Answered
<1> QED BY <1>1, <1>4, <1>5, NoNotice

\* No index stands for the state of a thread that is about to get one.
LEMMA FreshState ==
  ASSUME UniqueIndInv, NEW t \in Threads, pc[t] = "fetch", NEW n \in StateIndexes
  PROVE  Content(n) # state[t]
PROOF
<1> SUFFICES ASSUME Content(n) = state[t] PROVE FALSE
  OBVIOUS
<1> USE DEF UniqueIndInv
<1>1. /\ Slot(t) \in Slots /\ state[t] \in States /\ hashes[Slot(t)].phase # "written"
      /\ \A u \in Threads : pc[u] \in Owning /\ Slot(u) = Slot(t) => u = t
      /\ Holds(Slot(t), state[t]) /\ t \notin Writers
  BY OwnerOfSlot DEF Owning, Writers, Holds
<1>2. ASSUME NEW o \in Slots, hashes[o].phase = "written", Holds(o, state[t]) PROVE FALSE
  BY <1>1, <1>2 DEF UniqueInv
<1>3. ASSUME NEW u \in Writers, Holds(Slot(u), state[t]) PROVE FALSE
  <2>1. u \in Threads /\ pc[u] \in Owning
    BY DEF Writers, Owning
  <2>2. Slot(u) \in Slots
    BY <2>1, OwnerOfSlot
  <2> QED BY <1>1, <1>3, <2>1, <2>2 DEF UniqueInv
<1> QED BY <1>2, <1>3, ContentHeld

\* What it is to be one element longer.
LEMMA IsAppend ==
  ASSUME NEW S, NEW q \in Seq(S), NEW e \in S, NEW r,
         r = [k \in 1..Len(q) + 1 |-> IF k = Len(q) + 1 THEN e ELSE q[k]]
  PROVE  r = Append(q, e)
PROOF
<1>1. Len(q) \in Nat /\ \A k \in 1..Len(q) : q[k] \in S
  BY ElementOfSeq
<1>2. r \in Seq(S) /\ Len(r) = Len(q) + 1
  BY <1>1
<1>3. /\ Append(q, e) \in Seq(S) /\ Len(Append(q, e)) = Len(q) + 1
      /\ \A k \in 1..Len(q) : Append(q, e)[k] = q[k]
      /\ Append(q, e)[Len(q) + 1] = e
  BY AppendProperties
<1>4. \A k \in 1..Len(q) + 1 : r[k] = Append(q, e)[k]
  BY <1>1, <1>3
<1> QED BY <1>2, <1>3, <1>4, SeqEqual

\* fetch_add appends the state: the linearization point of a call that adds.
LEMMA FetchAppends ==
  ASSUME UniqueIndInv, UniqueIndInv', NEW t \in Threads, Step(t), Fetch(t)
  PROVE  Abstract!Append1(t)
PROOF
<1>0. PICK n \in Nat, s \in States : n = savedStates /\ s = state[t]
  BY DEF Fetch, UniqueIndInv, IndInv, TypeInv
<1>1. /\ pc[t] = "fetch" /\ pc'[t] = "map" /\ n \in Nat /\ savedStates' = n + 1
      /\ compactIndex'[t] = n /\ stateMemory' = stateMemory /\ isNew' = isNew
  BY <1>0 DEF Fetch, Goto, UniqueIndInv, IndInv, TypeInv
<1>2. /\ state' = state /\ reservedStatesCapacity' = reservedStatesCapacity
      /\ \A u \in Threads \ {t} : pc'[u] = pc[u] /\ compactIndex'[u] = compactIndex[u]
  BY StepOfOthers DEF UniqueIndInv, IndInv
<1>3. t \notin Writers /\ Writers' = Writers \cup {t}
  BY <1>1, <1>2 DEF Writers
<1>4. \A m \in StateIndexes : m < n
  BY <1>0, <1>1, ContentsTyped DEF StateIndexes
<1>5. ASSUME NEW m \in StateIndexes PROVE Content(m)' = Content(m)
  <2>1. \A w \in Writers \cup Writers' :
          w \in Writers' /\ compactIndex'[w] = m <=> w \in Writers /\ compactIndex[w] = m
    BY <1>1, <1>2, <1>3, <1>4 DEF Writers
  <2> QED BY <1>1, <1>2, <2>1, ContentKept DEF UniqueIndInv
<1>6. Content(n)' = s
  <2>1. t \in Writers' /\ \A u \in Writers' : compactIndex'[u] = n <=> u = t
    BY <1>1, <1>2, <1>3, <1>4 DEF UniqueIndInv, IndexInv, Writers
  <2>2. PICK u \in Writers' : /\ compactIndex'[u] = n
                              /\ u = CHOOSE w \in Writers' : compactIndex'[w] = n
    BY <2>1
  <2> QED BY <1>0, <1>2, <2>1, <2>2 DEF Content
<1>7. AbstractContents' = Append(AbstractContents, s)
  <2>1. /\ AbstractContents \in Seq(States \cup {Reserved}) /\ Len(AbstractContents) = n
        /\ reservedStatesCapacity \in Nat /\ reservedStatesCapacity <= n
        /\ \A k \in 1..n : AbstractContents[k] =
             IF k <= reservedStatesCapacity THEN Reserved ELSE Content(k - 1)
        /\ \A k \in 1..n : k > reservedStatesCapacity => k - 1 \in StateIndexes
    BY <1>0, ContentsTyped
  <2>2. \A k \in 1..n + 1 : AbstractContents'[k] =
          IF k = n + 1 THEN s ELSE AbstractContents[k]
    <3> TAKE k \in 1..n + 1
    <3>1. AbstractContents'[k] = IF k <= reservedStatesCapacity THEN Reserved
                                 ELSE Content(k - 1)'
      BY <1>0, <1>1, <1>2 DEF AbstractContents
    <3>2. CASE k = n + 1
      BY <1>1, <1>6, <2>1, <3>1, <3>2
    <3>3. CASE k \in 1..n
      BY <1>1, <1>5, <2>1, <3>1, <3>3
    <3> QED BY <1>1, <3>2, <3>3
  <2>3. AbstractContents' = [k \in 1..n + 1 |-> AbstractContents'[k]]
    BY <1>0, <1>1 DEF AbstractContents
  <2>4. AbstractContents' = [k \in 1..n + 1 |-> IF k = n + 1 THEN s ELSE AbstractContents[k]]
    BY <2>2, <2>3
  <2>5. s \in States \cup {Reserved}
    OBVIOUS
  <2> HIDE DEF AbstractContents
  <2> QED BY <2>1, <2>4, <2>5, IsAppend
<1>8. s \notin Abstract!Stored
  <2> SUFFICES ASSUME NEW k \in 1..n, AbstractContents[k] = s PROVE FALSE
    BY <1>0, ContentsTyped DEF Abstract!Stored
  <2>1. k - 1 \in StateIndexes /\ Content(k - 1) = s
    BY <1>0, <1>1, ContentsTyped, ReservedAssumption
  <2> QED BY <1>0, <1>1, <2>1, FreshState
<1>9. AbstractRequest[t] = Abstract!Pending(s)
  BY <1>0, <1>1, RequestsHold DEF Requests, UniqueIndInv, IndInv
<1>10. AbstractRequest'[t] = Abstract!Answered(s, TRUE, n)
  <2>1. Requests'
    BY RequestsHold, PTL DEF UniqueIndInv, IndInv
  <2> QED BY <1>0, <1>1, <1>2, <1>3, <2>1 DEF Requests, Abstract!Answered
<1>11. AbstractRequest' = [AbstractRequest EXCEPT ![t] = AbstractRequest'[t]]
  BY <1>1, <1>2, RequestStep
<1>12. Len(AbstractContents) = n
  BY <1>0, ContentsTyped
<1> QED BY <1>0, <1>1, <1>7, <1>8, <1>9, <1>10, <1>11, <1>12 DEF Abstract!Append1

\* A comparison that succeeds: the linearization point of a call that finds.
LEMMA CompareFinds ==
  ASSUME UniqueIndInv, UniqueIndInv', NEW t \in Threads, Step(t), CompareEqual(t)
  PROVE  Abstract!Find(t)
PROOF
<1>1. /\ pc[t] = "compare" /\ pc'[t] = "done" /\ isNew'[t] = FALSE
      /\ savedStates' = savedStates /\ stateMemory' = stateMemory
      /\ compactIndex' = compactIndex
      /\ stateMemory[compactIndex[t]] = state[t]
      /\ \A u \in Threads \ {t} : isNew'[u] = isNew[u]
  BY DEF CompareEqual, SameState, Goto, shared, UniqueIndInv, IndInv, TypeInv
<1>2. /\ state' = state /\ reservedStatesCapacity' = reservedStatesCapacity
      /\ \A u \in Threads \ {t} : pc'[u] = pc[u]
  BY StepOfOthers DEF UniqueIndInv, IndInv
<1>3. PICK c \in StateIndexes : c = compactIndex[t] /\ \A u \in Writers : compactIndex[u] # c
  BY <1>1, CompareIsFinished
<1>4. Content(c) = state[t]
  BY <1>1, <1>3 DEF Content
<1>5. PICK n \in 1..savedStates : /\ c = n - 1 /\ AbstractContents[n] = state[t]
                                  /\ AbstractContents[n] \in States
  <2>1. /\ c \in Int /\ c + 1 \in 1..savedStates /\ c + 1 > reservedStatesCapacity
        /\ (c + 1) - 1 = c
    BY <1>3, ContentsTyped DEF StateIndexes
  <2>2. AbstractContents[c + 1] = Content(c) /\ Content(c) \in States
    BY <2>1, ContentsTyped
  <2> QED BY <1>4, <2>1, <2>2
<1>6. t \notin Writers /\ Writers' = Writers
  BY <1>1, <1>2 DEF Writers
<1>7. AbstractContents' = AbstractContents
  <2>1. ASSUME NEW m \in StateIndexes PROVE Content(m)' = Content(m)
    BY <1>1, <1>2, <1>6, ContentKept DEF UniqueIndInv
  <2> QED BY <1>1, <1>2, <2>1, SameContents
<1>8. AbstractRequest[t] = Abstract!Pending(state[t])
  BY <1>1, RequestsHold DEF Requests, Looking, UniqueIndInv, IndInv
<1>9. AbstractRequest'[t] = Abstract!Answered(state[t], FALSE, n - 1)
  <2>1. Requests'
    BY RequestsHold, PTL DEF UniqueIndInv, IndInv
  <2> QED BY <1>1, <1>2, <1>3, <1>5, <2>1 DEF Requests, Abstract!Answered
<1>10. AbstractRequest' = [AbstractRequest EXCEPT ![t] = AbstractRequest'[t]]
  BY <1>1, <1>2, RequestStep
<1>11. n \in 1..Len(AbstractContents)
  BY ContentsTyped
<1> QED BY <1>5, <1>7, <1>8, <1>9, <1>10, <1>11 DEF Abstract!Find

\* The state is in none of the buckets of its probe sequence, hence nowhere:
\* the linearization point of a call that throws.
LEMMA LastBucketRefuses ==
  ASSUME UniqueIndInv, UniqueIndInv', NEW t \in Threads, Step(t),
         ReloadMismatch(t) \/ CompareDiffers(t), pc'[t] = "outOfMemory"
  PROVE  Abstract!Refuse(t)
PROOF
<1>1. /\ pc[t] \in Looking /\ state[t] \in States
      /\ probe[t] \in Probes /\ bucket[t] \in Buckets
      /\ savedStates' = savedStates /\ stateMemory' = stateMemory
      /\ isNew' = isNew /\ NextBucket(t)
  BY DEF ReloadMismatch, CompareDiffers, Looking, shared, UniqueIndInv, IndInv, TypeInv
<1>2. /\ state' = state /\ reservedStatesCapacity' = reservedStatesCapacity
      /\ \A u \in Threads \ {t} : pc'[u] = pc[u] /\ compactIndex'[u] = compactIndex[u]
  BY StepOfOthers DEF UniqueIndInv, IndInv
<1>3. /\ probe[t] = ProbeThreshold - 1 /\ bucket[t] = BucketsPerCacheLine - 1
  <2>1. /\ ~(bucket[t] + 1 < BucketsPerCacheLine)
        /\ ~(probe[t] + 1 < ProbeThreshold)
    BY <1>1 DEF NextBucket, Goto, UniqueIndInv, IndInv, TypeInv
  <2> QED BY <1>1, <2>1, CapacityAssumption, HashAssumption DEF Probes, Buckets
<1>4. ASSUME NEW i \in Probes, NEW j \in Buckets
      PROVE  Before(i, j, probe[t], bucket[t]) \/ (i = probe[t] /\ j = bucket[t])
  <2>1. ~Before(probe[t], bucket[t], i, j)
    BY <1>3, CapacityAssumption, HashAssumption DEF Before, Probes, Buckets
  <2> QED BY <1>1, <2>1, BeforeIsTotal
<1>5. ASSUME NEW o \in Slots PROVE ~Holds(o, state[t])
  <2> SUFFICES ASSUME Holds(o, state[t]) PROVE FALSE
    OBVIOUS
  <2>1. PICK i \in Probes, j \in Buckets : Offset(state[t], i, j) = o
    BY <1>1 DEF UniqueIndInv, PathInv
  <2>2. CASE Before(i, j, probe[t], bucket[t])
    BY <1>1, <2>1, <2>2 DEF UniqueIndInv, PassedInv
  <2>3. CASE i = probe[t] /\ j = bucket[t]
    BY <2>1, <2>3, MismatchPassed DEF UniqueIndInv, Slot
  <2> QED BY <1>4, <2>2, <2>3
<1>6. state[t] \notin Abstract!Stored
  BY <1>1, <1>5, NotStored
<1>7. t \notin Writers /\ Writers' = Writers
  BY <1>1, <1>2 DEF Writers, Looking
<1>8. AbstractContents' = AbstractContents
  <2>1. ASSUME NEW m \in StateIndexes PROVE Content(m)' = Content(m)
    BY <1>1, <1>2, <1>7, ContentKept DEF UniqueIndInv, Writers
  <2> QED BY <1>1, <1>2, <2>1, SameContents
<1>9. AbstractRequest[t] = Abstract!Pending(state[t])
  BY <1>1, RequestsHold DEF Requests, UniqueIndInv, IndInv
<1>10. AbstractRequest'[t] = Abstract!Refused(state[t])
  <2>1. Requests'
    BY RequestsHold, PTL DEF UniqueIndInv, IndInv
  <2> QED BY <1>2, <2>1 DEF Requests, Abstract!Refused
<1>11. AbstractRequest' = [AbstractRequest EXCEPT ![t] = AbstractRequest'[t]]
  BY <1>1, <1>2, RequestStep
<1> QED BY <1>1, <1>6, <1>8, <1>9, <1>10, <1>11 DEF Abstract!Refuse

-----------------------------------------------------------------------------
(***************************************************************************)
(* Calls, returns, and what no thread may be in addState for.              *)
(***************************************************************************)
\* A call and its return leave what is stored as it is.
LEMMA CallIsCall ==
  ASSUME UniqueIndInv, UniqueIndInv', NEW t \in Threads, NEW s \in States, Call(t, s)
  PROVE  Abstract!Call(t, s)
PROOF
<1>1. /\ pc[t] = "idle" /\ pc'[t] = "load" /\ state'[t] = s
      /\ savedStates' = savedStates /\ reservedStatesCapacity' = reservedStatesCapacity
      /\ stateMemory' = stateMemory /\ compactIndex' = compactIndex /\ isNew' = isNew
      /\ \A u \in Threads \ {t} : pc'[u] = pc[u] /\ state'[u] = state[u]
  BY DEF Call, Goto, shared, UniqueIndInv, IndInv, TypeInv
<1>2. t \notin Writers /\ Writers' = Writers
  BY <1>1 DEF Writers
<1>3. AbstractContents' = AbstractContents
  <2>1. \A w \in Writers : state'[w] = state[w]
    BY <1>1, <1>2 DEF Writers
  <2>2. ASSUME NEW m \in StateIndexes PROVE Content(m)' = Content(m)
    BY <1>1, <1>2, <2>1, ContentKept DEF UniqueIndInv
  <2> QED BY <1>1, <2>2, SameContents
<1>4. AbstractRequest[t] = Abstract!NoRequest
  BY <1>1, RequestsHold DEF Requests, UniqueIndInv, IndInv
<1>5. AbstractRequest'[t] = Abstract!Pending(s)
  <2>1. Requests'
    BY RequestsHold, PTL DEF UniqueIndInv, IndInv
  <2> QED BY <1>1, <2>1 DEF Requests, Looking, Abstract!Pending
<1>6. AbstractRequest' = [AbstractRequest EXCEPT ![t] = AbstractRequest'[t]]
  BY <1>1, RequestStep
<1> QED BY <1>3, <1>4, <1>5, <1>6 DEF Abstract!Call

LEMMA ReturnIsReturn ==
  ASSUME UniqueIndInv, UniqueIndInv', NEW t \in Threads, Return(t)
  PROVE  Abstract!Return(t)
PROOF
<1>1. /\ pc[t] \in {"done", "outOfMemory"} /\ pc'[t] = "idle"
      /\ savedStates' = savedStates /\ reservedStatesCapacity' = reservedStatesCapacity
      /\ stateMemory' = stateMemory
      /\ \A u \in Threads \ {t} :
           /\ pc'[u] = pc[u] /\ state'[u] = state[u]
           /\ compactIndex'[u] = compactIndex[u] /\ isNew'[u] = isNew[u]
  BY DEF Return, Goto, shared, UniqueIndInv, IndInv, TypeInv
<1>2. t \notin Writers /\ Writers' = Writers
  BY <1>1 DEF Writers
<1>3. AbstractContents' = AbstractContents
  <2>1. \A w \in Writers : state'[w] = state[w] /\ compactIndex'[w] = compactIndex[w]
    BY <1>1, <1>2 DEF Writers
  <2>2. ASSUME NEW m \in StateIndexes PROVE Content(m)' = Content(m)
    BY <1>1, <1>2, <2>1, ContentKept DEF UniqueIndInv
  <2> QED BY <1>1, <2>2, SameContents
<1>4. AbstractRequest[t].status \in {"answered", "refused"}
  <2>1. Requests
    BY RequestsHold DEF UniqueIndInv, IndInv
  <2>2. CASE pc[t] = "done"
    <3>1. AbstractRequest[t] = Abstract!Answered(state[t], isNew[t], compactIndex[t])
      BY <2>1, <2>2 DEF Requests
    <3>2. Abstract!Answered(state[t], isNew[t], compactIndex[t]).status = "answered"
      BY DEF Abstract!Answered
    <3> QED BY <3>1, <3>2
  <2>3. CASE pc[t] = "outOfMemory"
    <3>1. AbstractRequest[t] = Abstract!Refused(state[t])
      BY <2>1, <2>3 DEF Requests
    <3>2. Abstract!Refused(state[t]).status = "refused"
      BY DEF Abstract!Refused
    <3> QED BY <3>1, <3>2
  <2> QED BY <1>1, <2>2, <2>3
<1>5. AbstractRequest'[t] = Abstract!NoRequest
  <2>1. Requests'
    BY RequestsHold, PTL DEF UniqueIndInv, IndInv
  <2> QED BY <1>1, <2>1 DEF Requests, Abstract!NoRequest
<1>6. AbstractRequest' = [AbstractRequest EXCEPT ![t] = AbstractRequest'[t]]
  BY <1>1, RequestStep
<1> QED BY <1>3, <1>4, <1>5, <1>6 DEF Abstract!Return

\* With no thread in addState there is no request.
LEMMA QuietIsQuiet ==
  ASSUME UniqueIndInv, Quiet, UNCHANGED locals
  PROVE  Abstract!Quiet /\ AbstractRequest' = AbstractRequest
PROOF
<1>1. Abstract!Quiet
  BY RequestsHold DEF Requests, Quiet, Abstract!Quiet, UniqueIndInv, IndInv
<1>2. pc' = pc /\ state' = state /\ compactIndex' = compactIndex /\ isNew' = isNew
  BY DEF locals
<1> QED BY <1>1, <1>2 DEF AbstractRequest, Writers

LEMMA ClearIsClear ==
  ASSUME UniqueIndInv, Clear
  PROVE  Abstract!Clear
PROOF
<1>1. AbstractContents' = <<>>
  <2>1. savedStates' = 0
    BY DEF Clear
  <2> QED BY <2>1 DEF AbstractContents
<1> QED BY <1>1, QuietIsQuiet DEF Clear, Abstract!Clear

LEMMA ReserveIsReserve ==
  ASSUME UniqueIndInv, Reserve
  PROVE  Abstract!Reserve
PROOF
<1>1. PICK n \in Nat : n = savedStates
  BY ContentsTyped
<1>2. /\ Quiet /\ UNCHANGED locals /\ reservedStatesCapacity = n /\ n < MaxReserved
      /\ savedStates' = n + 1 /\ reservedStatesCapacity' = n + 1
  BY <1>1 DEF Reserve, ReserveIn
<1>3. /\ AbstractContents \in Seq(States \cup {Reserved}) /\ Len(AbstractContents) = n
      /\ \A k \in 1..n : AbstractContents[k] = Reserved
  BY <1>1, <1>2, ContentsTyped
<1>4. AbstractContents' = Append(AbstractContents, Reserved)
  <2>1. AbstractContents' = [k \in 1..n + 1 |-> Reserved]
    BY <1>1, <1>2 DEF AbstractContents
  <2>2. AbstractContents' =
          [k \in 1..n + 1 |-> IF k = n + 1 THEN Reserved ELSE AbstractContents[k]]
    BY <1>1, <1>3, <2>1
  <2>3. Reserved \in States \cup {Reserved}
    OBVIOUS
  <2> QED BY <1>3, <2>2, <2>3, IsAppend
<1>5. Abstract!Stored \subseteq {Reserved}
  BY <1>3 DEF Abstract!Stored
<1> QED BY <1>2, <1>3, <1>4, <1>5, QuietIsQuiet DEF Abstract!Reserve

-----------------------------------------------------------------------------
LEMMA InitIsInit == Init => Abstract!Init
PROOF
<1> SUFFICES ASSUME Init PROVE Abstract!Init
  OBVIOUS
<1>1. AbstractContents = <<>>
  BY DEF Init, AbstractContents
<1>2. AbstractRequest = [t \in Threads |-> Abstract!NoRequest]
  BY DEF Init, AbstractRequest, Abstract!NoRequest
<1> QED BY <1>1, <1>2 DEF Abstract!Init

LEMMA NextIsNext ==
  UniqueIndInv /\ UniqueIndInv' /\ [Next]_vars => [Abstract!Next]_(Abstract!vars)
PROOF
<1> SUFFICES ASSUME UniqueIndInv, UniqueIndInv', [Next]_vars
             PROVE  Abstract!Next \/ UNCHANGED Abstract!vars
  OBVIOUS
<1>1. ASSUME NEW t \in Threads, Step(t) PROVE Abstract!Next \/ UNCHANGED Abstract!vars
  <2>1. CASE Load(t) \/ Exchange(t) \/ ExchangeFails(t) \/ ReloadMatch(t)
               \/ Spin(t) \/ Lookup(t)
    BY <1>1, <2>1, LookingIsStutter
  <2>2. CASE ReloadMismatch(t) \/ CompareDiffers(t)
    BY <1>1, <2>2, LookingIsStutter, LastBucketRefuses DEF Abstract!Next
  <2>3. CASE Fetch(t)
    BY <1>1, <2>3, FetchAppends DEF Abstract!Next
  <2>4. CASE Map(t) \/ BeginCopy(t) \/ EndCopy(t)
    BY <1>1, <2>4, StoringIsStutter
  <2>5. CASE Publish(t)
    BY <1>1, <2>5, PublishIsStutter
  <2>6. CASE CompareEqual(t)
    BY <1>1, <2>6, CompareFinds DEF Abstract!Next
  <2> QED BY <1>1, <2>1, <2>2, <2>3, <2>4, <2>5, <2>6 DEF Step
<1>2. ASSUME NEW t \in Threads, NEW s \in States, Call(t, s) PROVE Abstract!Next
  BY <1>2, CallIsCall DEF Abstract!Next
<1>3. ASSUME NEW t \in Threads, Return(t) PROVE Abstract!Next
  BY <1>3, ReturnIsReturn DEF Abstract!Next
<1>4. ASSUME Clear \/ Reserve PROVE Abstract!Next
  BY <1>4, ClearIsClear, ReserveIsReserve DEF Abstract!Next
<1>5. CASE UNCHANGED vars
  BY <1>5 DEF vars, shared, locals, Abstract!vars, AbstractContents, AbstractRequest,
              Content, Writers
<1> QED BY <1>1, <1>2, <1>3, <1>4, <1>5 DEF Next

\* addState is linearizable: whatever the threads do, there is one instant
\* between each call and its return at which the state is appended, found or
\* refused (state_storage.cc, addState).
THEOREM ImplementsAbstractStorageHolds == Spec => ImplementsAbstractStorage
PROOF
<1>1. UniqueIndInv /\ UniqueIndInv' /\ [Next]_vars => [Abstract!Next]_(Abstract!vars)
  BY NextIsNext
<1> QED
  BY <1>1, InitIsInit, UniqueInductive, PTL DEF Spec, Abstract!Spec, ImplementsAbstractStorage

-----------------------------------------------------------------------------
(***************************************************************************)
(* For every size, comparing, copying and hashing in blocks is comparing,  *)
(* copying and hashing of exactly the bytes of the buffers.                *)
(***************************************************************************)
\* No block reaches outside a buffer of this size.
LEMMA BlocksStayInside ==
  ASSUME NEW size \in Nat, NEW b \in Blocks(size)
  PROVE  /\ b[1] \in Nat /\ b[2] \in Nat \ {0}
         /\ b[1] + b[2] <= size
PROOF
<1> DEFINE q == size \div 8
           r == size % 8
<1>1. size = 8 * q + r /\ q \in Nat /\ r \in 0..7
  BY SMT
<1>2. CASE b \in Words(size)
  <2>1. PICK i \in 0..q - 1 : b = <<8 * i, 8>>
    BY <1>2 DEF Words
  <2> QED BY <1>1, <2>1
<1>3. CASE b \in HalfWords(size)
  <2>1. b = <<8 * q, 4>> /\ r >= 4
    BY <1>3 DEF HalfWords
  <2> QED BY <1>1, <2>1
<1>4. CASE b \in Singles(size)
  <2> DEFINE rest == IF r >= 4 THEN r - 4 ELSE r
  <2>1. PICK i \in 0..rest - 1 : b = <<size - rest + i, 1>>
    BY <1>4 DEF Singles
  <2>2. rest \in 0..3 /\ rest <= size
    BY <1>1
  <2> QED BY <2>1, <2>2
<1> QED BY <1>2, <1>3, <1>4 DEF Blocks

\* Every byte of the buffer is in a block.
LEMMA BlocksCover ==
  ASSUME NEW size \in Nat, NEW i \in 0..size - 1
  PROVE  \E b \in Blocks(size) : b[1] <= i /\ i < b[1] + b[2]
PROOF
<1> DEFINE q == size \div 8
           r == size % 8
           rest == IF r >= 4 THEN r - 4 ELSE r
<1>1. size = 8 * q + r /\ q \in Nat /\ r \in 0..7
  BY SMT
<1>2. CASE i < 8 * q
  <2>1. i = 8 * (i \div 8) + (i % 8) /\ i \div 8 \in Nat /\ i % 8 \in 0..7
    BY SMT
  <2>2. i \div 8 \in 0..q - 1
    BY <1>1, <1>2, <2>1
  <2>3. <<8 * (i \div 8), 8>> \in Words(size)
    BY <2>2 DEF Words
  <2> HIDE DEF q
  <2>4. 8 * (i \div 8) <= i /\ i < 8 * (i \div 8) + 8
    BY <2>1
  <2> QED BY <2>3, <2>4 DEF Blocks
<1>3. CASE 8 * q <= i /\ i < size - rest
  <2>1. r >= 4 /\ size - rest = 8 * q + 4
    BY <1>1, <1>3
  <2>2. <<8 * q, 4>> \in HalfWords(size)
    BY <2>1 DEF HalfWords
  <2> HIDE DEF q, r, rest
  <2>3. 8 * q <= i /\ i < 8 * q + 4
    BY <1>3, <2>1
  <2> QED BY <2>2, <2>3 DEF Blocks
<1>4. CASE i >= size - rest
  <2>1. rest \in 0..3
    BY <1>1
  <2>2. i - (size - rest) \in 0..rest - 1 /\ i = size - rest + (i - (size - rest))
    <3> HIDE DEF rest
    <3> QED BY <1>4, <2>1
  <2>3. <<size - rest + (i - (size - rest)), 1>> \in Singles(size)
    BY <2>2 DEF Singles
  <2>4. <<i, 1>> \in Blocks(size)
    BY <2>2, <2>3 DEF Blocks
  <2> QED BY <2>4
<1>5. i < 8 * q \/ (8 * q <= i /\ i < size - rest) \/ i >= size - rest
  <2>1. rest \in Int /\ q \in Int
    BY <1>1
  <2> HIDE DEF q, r, rest
  <2> QED BY <2>1
<1> QED BY <1>2, <1>3, <1>4, <1>5

\* areBuffersEqual tells whether the buffers agree in each of their bytes, and
\* looks at no other byte: what StateStorage takes for the same state is.
THEOREM EqualIffSameBytes ==
  ASSUME NEW size \in Nat, NEW buffer1 \in Nat, NEW buffer2 \in Nat, NEW memory
  PROVE  areBuffersEqual(memory, buffer1, buffer2, size)
           <=> SameBytes(memory, buffer1, buffer2, size)
PROOF
<1>1. ASSUME SameBytes(memory, buffer1, buffer2, size), NEW b \in Blocks(size)
      PROVE  Value(memory, buffer1 + b[1], b[2]) = Value(memory, buffer2 + b[1], b[2])
  <2>1. b[1] \in Nat /\ b[2] \in Nat \ {0} /\ b[1] + b[2] <= size
    BY BlocksStayInside
  <2>2. \A j \in 0..b[2] - 1 : memory[buffer1 + b[1] + j] = memory[buffer2 + b[1] + j]
    <3> TAKE j \in 0..b[2] - 1
    <3>1. /\ b[1] + j \in 0..size - 1
          /\ buffer1 + b[1] + j = buffer1 + (b[1] + j)
          /\ buffer2 + b[1] + j = buffer2 + (b[1] + j)
      BY <2>1
    <3> QED BY <1>1, <3>1 DEF SameBytes
  <2> QED BY <2>2 DEF Value
<1>2. ASSUME NEW i \in 0..size - 1,
             \A b \in Blocks(size) :
               Value(memory, buffer1 + b[1], b[2]) = Value(memory, buffer2 + b[1], b[2])
      PROVE  memory[buffer1 + i] = memory[buffer2 + i]
  <2>1. PICK b \in Blocks(size) : b[1] <= i /\ i < b[1] + b[2]
    BY BlocksCover
  <2>2. b[1] \in Nat /\ b[2] \in Nat \ {0}
    BY BlocksStayInside
  <2>3. i - b[1] \in 0..b[2] - 1
    BY <2>1, <2>2
  <2>4. Value(memory, buffer1 + b[1], b[2]) = Value(memory, buffer2 + b[1], b[2])
    BY <1>2
  <2>5. memory[buffer1 + b[1] + (i - b[1])] = memory[buffer2 + b[1] + (i - b[1])]
    BY <2>3, <2>4 DEF Value
  <2>6. buffer1 + b[1] + (i - b[1]) = buffer1 + i /\ buffer2 + b[1] + (i - b[1]) = buffer2 + i
    BY <2>2
  <2> QED BY <2>5, <2>6
<1> QED BY <1>1, <1>2 DEF areBuffersEqual, SameBytes

\* The bytes that copyBuffers writes are those of the destination.
LEMMA WritesDestination ==
  ASSUME NEW size \in Nat, NEW destination \in Nat
  PROVE  CopiedTo(destination, size) = destination..(destination + size - 1)
PROOF
<1>1. ASSUME NEW a \in CopiedTo(destination, size)
      PROVE  a \in destination..(destination + size - 1)
  <2>1. PICK b \in Blocks(size) : a \in (destination + b[1])..(destination + b[1] + b[2] - 1)
    BY DEF CopiedTo
  <2>2. b[1] \in Nat /\ b[2] \in Nat \ {0} /\ b[1] + b[2] <= size
    BY BlocksStayInside
  <2> QED BY <2>1, <2>2
<1>2. ASSUME NEW a \in destination..(destination + size - 1)
      PROVE  a \in CopiedTo(destination, size)
  <2>1. a - destination \in 0..size - 1
    OBVIOUS
  <2>2. PICK b \in Blocks(size) :
          b[1] <= a - destination /\ a - destination < b[1] + b[2]
    BY <2>1, BlocksCover
  <2>3. b[1] \in Nat /\ b[2] \in Nat \ {0}
    BY BlocksStayInside
  <2>4. a \in (destination + b[1])..(destination + b[1] + b[2] - 1)
    BY <2>2, <2>3
  <2> QED BY <2>4 DEF CopiedTo
<1> QED BY <1>1, <1>2

\* After copyBuffers the two buffers are equal, and no byte outside the
\* destination has changed: a stored vector is found again, and storing one
\* leaves its neighbours in the storage alone.
THEOREM CopyMakesEqual ==
  ASSUME NEW size \in Nat, NEW source \in Nat, NEW destination \in Nat,
         NEW Byte, NEW memory \in [Nat -> Byte],
         ~Overlap(source, destination, size)
  PROVE  LET after == copyBuffers(memory, source, destination, size)
         IN  /\ areBuffersEqual(after, source, destination, size)
             /\ \A a \in Nat \ (destination..(destination + size - 1)) :
                  after[a] = memory[a]
PROOF
<1> DEFINE after == copyBuffers(memory, source, destination, size)
<1>1. \A a \in Nat : after[a] = IF a \in destination..(destination + size - 1)
                                THEN memory[source + (a - destination)] ELSE memory[a]
  BY WritesDestination DEF copyBuffers
<1> HIDE DEF after
<1>2. \A a \in Nat \ (destination..(destination + size - 1)) : after[a] = memory[a]
  BY <1>1
<1>3. ASSUME NEW i \in 0..size - 1
      PROVE  after[source + i] = after[destination + i]
  <2>1. /\ destination + i \in destination..(destination + size - 1)
        /\ source + (destination + i - destination) = source + i
        /\ source + i \in Nat /\ destination + i \in Nat
    OBVIOUS
  <2>2. source + i \notin destination..(destination + size - 1)
    BY DEF Overlap
  <2>3. after[source + i] = memory[source + i]
    BY <1>2, <2>1, <2>2
  <2>4. after[destination + i] = memory[source + i]
    BY <1>1, <2>1
  <2> QED BY <2>3, <2>4
<1>4. SameBytes(after, source, destination, size)
  BY <1>3 DEF SameBytes
<1>5. areBuffersEqual(after, source, destination, size)
  BY <1>4, EqualIffSameBytes
<1> QED BY <1>2, <1>5 DEF after

\* Vectors are equal exactly when hashBuffer is given the same input for them:
\* equal states have the same hash, whatever the memory around them holds, and
\* the hash ignores no byte of a state.
THEOREM EqualIffSameHashInput ==
  ASSUME NEW size \in Nat, NEW buffer1 \in Nat, NEW buffer2 \in Nat, NEW memory
  PROVE  areBuffersEqual(memory, buffer1, buffer2, size)
           <=> HashInput(memory, buffer1, size) = HashInput(memory, buffer2, size)
PROOF
<1> DEFINE q == size \div 4
           r == size % 4
<1>1. size = 4 * q + r /\ q \in Nat /\ r \in 0..3
  BY SMT
<1>2. ASSUME SameBytes(memory, buffer1, buffer2, size)
      PROVE  HashInput(memory, buffer1, size) = HashInput(memory, buffer2, size)
  <2>1. ASSUME NEW i \in 0..q - 1
        PROVE  Value(memory, buffer1 + 4 * i, 4) = Value(memory, buffer2 + 4 * i, 4)
    <3>1. \A j \in 0..4 - 1 : memory[buffer1 + 4 * i + j] = memory[buffer2 + 4 * i + j]
      <4> TAKE j \in 0..4 - 1
      <4>1. 4 * i + j \in 0..size - 1
        <5> HIDE DEF q, r
        <5> QED BY <1>1
      <4>2. /\ buffer1 + 4 * i + j = buffer1 + (4 * i + j)
            /\ buffer2 + 4 * i + j = buffer2 + (4 * i + j)
        OBVIOUS
      <4> QED BY <1>2, <4>1, <4>2 DEF SameBytes
    <3> QED BY <3>1 DEF Value
  <2>2. Value(memory, buffer1 + 4 * q, r) = Value(memory, buffer2 + 4 * q, r)
    <3>1. \A j \in 0..r - 1 : memory[buffer1 + 4 * q + j] = memory[buffer2 + 4 * q + j]
      <4> TAKE j \in 0..r - 1
      <4> HIDE DEF q, r
      <4>1. /\ 4 * q + j \in 0..size - 1
            /\ buffer1 + 4 * q + j = buffer1 + (4 * q + j)
            /\ buffer2 + 4 * q + j = buffer2 + (4 * q + j)
        BY <1>1
      <4> QED BY <1>2, <4>1 DEF SameBytes
    <3> HIDE DEF q, r
    <3> QED BY <3>1 DEF Value
  <2> QED BY <2>1, <2>2 DEF HashInput
<1>3. ASSUME HashInput(memory, buffer1, size) = HashInput(memory, buffer2, size),
             NEW i \in 0..size - 1
      PROVE  memory[buffer1 + i] = memory[buffer2 + i]
  <2>1. /\ [k \in 0..q - 1 |-> Value(memory, buffer1 + 4 * k, 4)]
             = [k \in 0..q - 1 |-> Value(memory, buffer2 + 4 * k, 4)]
        /\ Value(memory, buffer1 + 4 * q, r) = Value(memory, buffer2 + 4 * q, r)
    BY <1>3 DEF HashInput
  <2>2. CASE i < 4 * q
    <3> DEFINE k == i \div 4
               j == i % 4
    <3>1. i = 4 * k + j /\ k \in Nat /\ j \in 0..4 - 1
      BY SMT
    <3> HIDE DEF j, k
    <3>2. k \in 0..q - 1
      <4> HIDE DEF q, r
      <4> QED BY <1>1, <2>2, <3>1
    <3>3. Value(memory, buffer1 + 4 * k, 4) = Value(memory, buffer2 + 4 * k, 4)
      <4> HIDE DEF q, r
      <4> QED BY <2>1, <3>2
    <3>4. memory[buffer1 + 4 * k + j] = memory[buffer2 + 4 * k + j]
      BY <3>1, <3>3 DEF Value
    <3>5. buffer1 + 4 * k + j = buffer1 + i /\ buffer2 + 4 * k + j = buffer2 + i
      BY <3>1
    <3> QED BY <3>4, <3>5
  <2>3. CASE i >= 4 * q
    <3> HIDE DEF q, r
    <3>1. i - 4 * q \in 0..r - 1
      BY <1>1, <2>3
    <3>2. memory[buffer1 + 4 * q + (i - 4 * q)] = memory[buffer2 + 4 * q + (i - 4 * q)]
      BY <2>1, <3>1 DEF Value
    <3>3. /\ buffer1 + 4 * q + (i - 4 * q) = buffer1 + i
          /\ buffer2 + 4 * q + (i - 4 * q) = buffer2 + i
      BY <1>1
    <3> QED BY <3>2, <3>3
  <2> QED BY <1>1, <2>2, <2>3
<1>4. HashInput(memory, buffer1, size) = HashInput(memory, buffer2, size)
        => SameBytes(memory, buffer1, buffer2, size)
  BY <1>3 DEF SameBytes
<1> HIDE DEF q, r
<1> QED BY <1>2, <1>4, EqualIffSameBytes
=============================================================================
