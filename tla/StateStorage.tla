---------------------------- MODULE StateStorage ----------------------------
(***************************************************************************)
(* pemc::StateStorage (src/pemc/generic_traverser/state_storage.{h,cc}):   *)
(* the lock-free set of serialized states, "indexed by a continuous        *)
(* variable".  addState may be called by several threads at once, so every *)
(* access of a thread to shared memory is an action of its own; the loads  *)
(* and stores are sequentially consistent, as std::atomic's defaults are.  *)
(***************************************************************************)
EXTENDS Integers

CONSTANTS
  Threads,              \* the callers of addState
  States,               \* the serialized states
  NoState, Torn,        \* no argument; a buffer in the middle of a copy
  ZeroState,            \* the state whose serialization is all zeros
  TotalCapacity,        \* the capacity given to the constructor
  BucketsPerCacheLine,  \* 16 in the code
  ProbeThreshold,       \* 1000 in the code: probes 1 .. ProbeThreshold - 1
  MemoRange,            \* 2^30 in the code: what a slot remembers of an index
  RawHash,              \* RawHash[s][i]: the 32 bit hash of state s in probe i
  MaxReserved           \* bound: how many indexes a client reserves

ASSUME CapacityAssumption ==
  /\ BucketsPerCacheLine \in Nat \ {0}
  /\ MaxReserved \in Nat
  /\ TotalCapacity \in Nat
  /\ BucketsPerCacheLine + MaxReserved < TotalCapacity

ASSUME HashAssumption ==
  /\ ProbeThreshold \in Nat /\ ProbeThreshold > 1
  /\ MemoRange \in Nat \ {0}
  /\ RawHash \in [States -> [1..ProbeThreshold - 1 -> Nat]]

ASSUME StatesAssumption ==
  /\ ZeroState \in States
  /\ {NoState, Torn} \cap States = {}

VARIABLES
  savedStates,            \* the atomic counter of indexes given out
  reservedStatesCapacity, \* how many of them were reserved
  cachedStatesCapacity,   \* the modulus of the hash table
  indexMapper,            \* slot -> state index, or -1
  hashes,                 \* slot -> what is known of it without reading a state
  stateMemory,            \* state index -> serialized state
  pc,                     \* the next step of each thread
  state,                  \* addState's argument
  probe, bucket,          \* the loop variables i and j
  currentValue,           \* the value last loaded from the slot
  compactIndex,           \* freshCompactIndex, compactIndex and the result index
  isNew                   \* the result of addState

shared == <<savedStates, reservedStatesCapacity, cachedStatesCapacity,
            indexMapper, hashes, stateMemory>>
locals == <<pc, state, probe, bucket, currentValue, compactIndex, isNew>>
vars   == <<shared, locals>>

Slots   == 0..TotalCapacity - 1   \* also the valid state indexes
Probes  == 1..ProbeThreshold - 1
Buckets == 0..BucketsPerCacheLine - 1

(***************************************************************************)
(* A slot of hashes is 0, memoizedHash with bit 30 set ("writing not yet   *)
(* finished"), or memoizedHash with bit 31 set ("written").                *)
(***************************************************************************)
Empty      == [memo |-> 0, phase |-> "empty"]
Writing(m) == [memo |-> m, phase |-> "writing"]
Written(m) == [memo |-> m, phase |-> "written"]
SlotValues == [memo : 0..MemoRange - 1, phase : {"empty", "writing", "written"}]

\* The probe sequence: HashedIndex picks a cache line and where in it to start.
HashedIndex(s, i)  == RawHash[s][i] % cachedStatesCapacity
MemoizedHash(s, i) == HashedIndex(s, i) % MemoRange
Offset(s, i, j) ==
  LET h == HashedIndex(s, i)
  IN  (h \div BucketsPerCacheLine) * BucketsPerCacheLine
        + ((h + j) % BucketsPerCacheLine)

Slot(t) == Offset(state[t], probe[t], bucket[t])
Memo(t) == MemoizedHash(state[t], probe[t])

Goto(t, label) == pc' = [pc EXCEPT ![t] = label]

\* operator[] throws for an index outside the state memory.
InRange(index) == index \in Slots

ClearedCapacity == TotalCapacity - BucketsPerCacheLine

\* "Must be cleared with clear() before used": the storage after the constructor,
\* setStateVectorSize and the first clear().
Init ==
  /\ savedStates = 0
  /\ reservedStatesCapacity = 0
  /\ cachedStatesCapacity = ClearedCapacity
  /\ indexMapper = [o \in Slots |-> -1]
  /\ hashes = [o \in Slots |-> Empty]
  /\ stateMemory = [n \in Slots |-> ZeroState]
  /\ pc = [t \in Threads |-> "idle"]
  /\ state = [t \in Threads |-> NoState]
  /\ probe = [t \in Threads |-> 1]
  /\ bucket = [t \in Threads |-> 0]
  /\ currentValue = [t \in Threads |-> Empty]
  /\ compactIndex = [t \in Threads |-> -1]
  /\ isNew = [t \in Threads |-> FALSE]

-----------------------------------------------------------------------------
(***************************************************************************)
(* clear() and reserveStateIndex() are not atomic and no thread may be in  *)
(* addState.  A client reserves before the first state is added, as        *)
(* GenericTraverser::traverse does: the modulus of the hash table changes. *)
(***************************************************************************)
Quiet == \A t \in Threads : pc[t] = "idle"

\* Slip: the counter of saved states survives clear().
ClearKeepingCount ==
  /\ Quiet
  /\ reservedStatesCapacity' = 0
  /\ cachedStatesCapacity' = ClearedCapacity
  /\ hashes' = [o \in Slots |-> Empty]
  /\ indexMapper' = [o \in Slots |-> -1]
  /\ UNCHANGED <<savedStates, stateMemory, locals>>

\* The state memory keeps its old bytes.
Clear ==
  /\ Quiet
  /\ savedStates' = 0
  /\ reservedStatesCapacity' = 0
  /\ cachedStatesCapacity' = ClearedCapacity
  /\ hashes' = [o \in Slots |-> Empty]
  /\ indexMapper' = [o \in Slots |-> -1]
  /\ UNCHANGED <<stateMemory, locals>>

ReserveIn(slot) ==
  /\ Quiet
  /\ savedStates = reservedStatesCapacity
  /\ reservedStatesCapacity < MaxReserved
  /\ savedStates' = savedStates + 1
  /\ reservedStatesCapacity' = reservedStatesCapacity + 1
  /\ cachedStatesCapacity' = cachedStatesCapacity - 1
  /\ indexMapper' = [indexMapper EXCEPT ![slot] = savedStates]
  /\ UNCHANGED <<hashes, stateMemory, locals>>

\* Slip: the reserved slot is not moved beyond the last line of the table.
ReserveTooLow == ReserveIn(cachedStatesCapacity - 1)

Reserve == ReserveIn(cachedStatesCapacity - 1 + BucketsPerCacheLine)

-----------------------------------------------------------------------------
(***************************************************************************)
(* addState(state, index), one action for each access to shared memory.    *)
(***************************************************************************)
Call(t, s) ==
  /\ pc[t] = "idle"
  /\ Goto(t, "load")
  /\ state' = [state EXCEPT ![t] = s]
  /\ probe' = [probe EXCEPT ![t] = 1]
  /\ bucket' = [bucket EXCEPT ![t] = 0]
  /\ UNCHANGED <<shared, currentValue, compactIndex, isNew>>

\* currentValue = hashes[offset].load()
Load(t) ==
  /\ pc[t] = "load"
  /\ currentValue' = [currentValue EXCEPT ![t] = hashes[Slot(t)]]
  /\ Goto(t, "exchange")
  /\ UNCHANGED <<shared, state, probe, bucket, compactIndex, isNew>>

\* Slip: a store decided on the loaded value in place of compare-and-exchange.
StoreIfLoadedEmpty(t) ==
  /\ pc[t] = "exchange"
  /\ currentValue[t] = Empty
  /\ hashes' = [hashes EXCEPT ![Slot(t)] = Writing(Memo(t))]
  /\ Goto(t, "fetch")
  /\ UNCHANGED <<savedStates, reservedStatesCapacity, cachedStatesCapacity,
                 indexMapper, stateMemory, state, probe, bucket, currentValue,
                 compactIndex, isNew>>

\* The compare-and-exchange succeeds.
Exchange(t) ==
  /\ pc[t] = "exchange"
  /\ hashes[Slot(t)] = Empty
  /\ hashes' = [hashes EXCEPT ![Slot(t)] = Writing(Memo(t))]
  /\ Goto(t, IF currentValue[t] = Empty THEN "fetch" ELSE "reload")
  /\ UNCHANGED <<savedStates, reservedStatesCapacity, cachedStatesCapacity,
                 indexMapper, stateMemory, state, probe, bucket, currentValue,
                 compactIndex, isNew>>

\* The compare-and-exchange fails: the slot is taken.
ExchangeFails(t) ==
  /\ pc[t] = "exchange"
  /\ hashes[Slot(t)] # Empty
  /\ Goto(t, "reload")
  /\ UNCHANGED <<shared, state, probe, bucket, currentValue, compactIndex, isNew>>

\* freshCompactIndex = savedStates.fetch_add(1)
Fetch(t) ==
  /\ pc[t] = "fetch"
  /\ compactIndex' = [compactIndex EXCEPT ![t] = savedStates]
  /\ savedStates' = savedStates + 1
  /\ Goto(t, "map")
  /\ UNCHANGED <<reservedStatesCapacity, cachedStatesCapacity, indexMapper,
                 hashes, stateMemory, state, probe, bucket, currentValue, isNew>>

\* indexMapper[offset].store(freshCompactIndex); then operator[] may throw.
Map(t) ==
  /\ pc[t] = "map"
  /\ indexMapper' = [indexMapper EXCEPT ![Slot(t)] = compactIndex[t]]
  /\ Goto(t, IF InRange(compactIndex[t]) THEN "copy" ELSE "thrown")
  /\ UNCHANGED <<savedStates, reservedStatesCapacity, cachedStatesCapacity,
                 hashes, stateMemory, state, probe, bucket, currentValue,
                 compactIndex, isNew>>

\* copyBuffers writes byte by byte: a reader could meet a torn state.
WriteMemory(t, label, value, next) ==
  /\ pc[t] = label
  /\ stateMemory' = [stateMemory EXCEPT ![compactIndex[t]] = value]
  /\ Goto(t, next)
  /\ UNCHANGED <<savedStates, reservedStatesCapacity, cachedStatesCapacity,
                 indexMapper, hashes, state, probe, bucket, currentValue,
                 compactIndex, isNew>>

BeginCopy(t) == WriteMemory(t, "copy", Torn, "copying")
EndCopy(t)   == WriteMemory(t, "copying", state[t], "publish")

\* hashes[offset].store(value), after which addState returns true.
PublishAs(t, label, value) ==
  /\ pc[t] = label
  /\ hashes' = [hashes EXCEPT ![Slot(t)] = value]
  /\ isNew' = [isNew EXCEPT ![t] = TRUE]
  /\ Goto(t, "done")
  /\ UNCHANGED <<savedStates, reservedStatesCapacity, cachedStatesCapacity,
                 indexMapper, stateMemory, state, probe, bucket, currentValue,
                 compactIndex>>

\* Slip: the slot is marked written although the copy may still be running.
PublishTooEarly(t) ==
  PublishAs(t, IF pc[t] = "copying" THEN "copying" ELSE "publish", Written(Memo(t)))

\* Slip: bit 30 is stored again, where bit 31 was meant.
PublishAsWriting(t) == PublishAs(t, "publish", Writing(Memo(t)))

\* Slip: the written slot remembers the bucket and no longer the probed index.
PublishOtherMemo(t) == PublishAs(t, "publish", Written(Slot(t) % MemoRange))

Publish(t) == PublishAs(t, "publish", Written(Memo(t)))

-----------------------------------------------------------------------------
\* Where the loops over j and i go on after a bucket that holds another state.
NextBucket(t) ==
  IF bucket[t] + 1 < BucketsPerCacheLine
  THEN /\ bucket' = [bucket EXCEPT ![t] = @ + 1]
       /\ Goto(t, "load")
       /\ UNCHANGED probe
  ELSE IF probe[t] + 1 < ProbeThreshold
  THEN /\ bucket' = [bucket EXCEPT ![t] = 0]
       /\ probe' = [probe EXCEPT ![t] = @ + 1]
       /\ Goto(t, "load")
  ELSE /\ Goto(t, "outOfMemory")
       /\ UNCHANGED <<probe, bucket>>

AfterLoad(value) == IF value.phase = "written" THEN "lookup" ELSE "spin"

\* The second load finds the memoized hash of this probe in the slot ...
ReloadMatch(t) ==
  /\ pc[t] = "reload"
  /\ hashes[Slot(t)].memo = Memo(t)
  /\ currentValue' = [currentValue EXCEPT ![t] = hashes[Slot(t)]]
  /\ Goto(t, AfterLoad(hashes[Slot(t)]))
  /\ UNCHANGED <<shared, state, probe, bucket, compactIndex, isNew>>

\* ... or another one.
ReloadMismatch(t) ==
  /\ pc[t] = "reload"
  /\ hashes[Slot(t)].memo # Memo(t)
  /\ currentValue' = [currentValue EXCEPT ![t] = hashes[Slot(t)]]
  /\ NextBucket(t)
  /\ UNCHANGED <<shared, state, compactIndex, isNew>>

\* while ((currentValue & 1 << 31) == 0) currentValue = hashes[offset].load()
Spin(t) ==
  /\ pc[t] = "spin"
  /\ currentValue' = [currentValue EXCEPT ![t] = hashes[Slot(t)]]
  /\ Goto(t, AfterLoad(hashes[Slot(t)]))
  /\ UNCHANGED <<shared, state, probe, bucket, compactIndex, isNew>>

\* compactIndex = indexMapper[offset].load(); then operator[] may throw.
Lookup(t) ==
  LET index == indexMapper[Slot(t)] IN
  /\ pc[t] = "lookup"
  /\ compactIndex' = [compactIndex EXCEPT ![t] = index]
  /\ Goto(t, IF index = -1 \/ InRange(index) THEN "compare" ELSE "thrown")
  /\ UNCHANGED <<shared, state, probe, bucket, currentValue, isNew>>

SameState(t) ==
  compactIndex[t] # -1 /\ stateMemory[compactIndex[t]] = state[t]

CompareEqual(t) ==
  /\ pc[t] = "compare"
  /\ SameState(t)
  /\ isNew' = [isNew EXCEPT ![t] = FALSE]
  /\ Goto(t, "done")
  /\ UNCHANGED <<shared, state, probe, bucket, currentValue, compactIndex>>

CompareDiffers(t) ==
  /\ pc[t] = "compare"
  /\ ~SameState(t)
  /\ NextBucket(t)
  /\ UNCHANGED <<shared, state, currentValue, compactIndex, isNew>>

\* addState returned, or threw OutOfMemoryException; its locals are gone.
Return(t) ==
  /\ pc[t] \in {"done", "outOfMemory"}
  /\ Goto(t, "idle")
  /\ state' = [state EXCEPT ![t] = NoState]
  /\ probe' = [probe EXCEPT ![t] = 1]
  /\ bucket' = [bucket EXCEPT ![t] = 0]
  /\ currentValue' = [currentValue EXCEPT ![t] = Empty]
  /\ compactIndex' = [compactIndex EXCEPT ![t] = -1]
  /\ isNew' = [isNew EXCEPT ![t] = FALSE]
  /\ UNCHANGED shared

-----------------------------------------------------------------------------
\* What a thread does inside addState.
Step(t) ==
  \/ Load(t)
  \/ Exchange(t)
  \/ ExchangeFails(t)
  \/ Fetch(t)
  \/ Map(t)
  \/ BeginCopy(t)
  \/ EndCopy(t)
  \/ Publish(t)
  \/ ReloadMatch(t)
  \/ ReloadMismatch(t)
  \/ Spin(t)
  \/ Lookup(t)
  \/ CompareEqual(t)
  \/ CompareDiffers(t)

Next ==
  \/ Clear
  \/ Reserve
  \/ \E t \in Threads :
       \/ \E s \in States : Call(t, s)
       \/ Step(t)
       \/ Return(t)

Spec == Init /\ [][Next]_vars

\* The operating system schedules every thread that is inside addState.
FairSpec == Spec /\ \A t \in Threads : WF_vars(Step(t))

-----------------------------------------------------------------------------
Labels == {"idle", "load", "exchange", "fetch", "map", "copy", "copying",
           "publish", "reload", "spin", "lookup", "compare", "done",
           "outOfMemory", "thrown"}

\* Every variable keeps to its domain; the counter stays within the capacity.
TypeOK ==
  /\ savedStates \in 0..TotalCapacity
  /\ reservedStatesCapacity \in 0..MaxReserved
  /\ cachedStatesCapacity \in 1..TotalCapacity
  /\ indexMapper \in [Slots -> Slots \cup {-1}]
  /\ hashes \in [Slots -> SlotValues]
  /\ stateMemory \in [Slots -> States \cup {Torn}]
  /\ pc \in [Threads -> Labels]
  /\ state \in [Threads -> States \cup {NoState}]
  /\ probe \in [Threads -> Probes]
  /\ bucket \in [Threads -> Buckets]
  /\ currentValue \in [Threads -> SlotValues]
  /\ compactIndex \in [Threads -> Slots \cup {-1}]
  /\ isNew \in [Threads -> BOOLEAN]

\* A fresh or looked-up index is always inside the state memory: operator[]
\* never throws in addState (state_storage.cc:49-52), so no claimed slot is
\* left in the writing phase for the others to spin on.
NeverThrows == \A t \in Threads : pc[t] # "thrown"

Writers == {t \in Threads : pc[t] \in {"map", "copy", "copying", "publish"}}

\* What a state index stands for: the state its writer is storing, else memory.
Content(n) ==
  IF \E t \in Writers : compactIndex[t] = n
  THEN state[CHOOSE t \in Writers : compactIndex[t] = n]
  ELSE stateMemory[n]

StateIndexes == reservedStatesCapacity..savedStates - 1

\* Two threads adding one state at the same time never give it two indexes:
\* distinct indexes of added states stand for distinct states.
NoDuplicateStates ==
  \A m, n \in StateIndexes : Content(m) = Content(n) => m = n

\* What areBuffersEqual reads has been copied completely: no thread compares
\* with a state that is torn, stale or still to be written by another thread.
ComparesFinishedStates ==
  \A t \in Threads :
    pc[t] = "compare" =>
      /\ compactIndex[t] \in StateIndexes
      /\ \A u \in Writers : compactIndex[u] # compactIndex[t]
      /\ stateMemory[compactIndex[t]] # Torn

\* The slots of reserved indexes lie beyond every slot addState can reach and
\* are never overwritten (the comment in reserveStateIndex).
ReservedSlotsKept ==
  \A r \in 1..reservedStatesCapacity :
    /\ indexMapper[TotalCapacity - r] = r - 1
    /\ hashes[TotalCapacity - r] = Empty

\* A returned index reads back as the state that was added.
AnswerReadsBack ==
  \A t \in Threads :
    pc[t] = "done" =>
      compactIndex[t] \in StateIndexes /\ stateMemory[compactIndex[t]] = state[t]

\* Between two clear() calls a slot is claimed once and published once, keeps
\* the hash it was claimed with, and keeps its state index.
SlotLifeCycle ==
  [][~Clear => \A o \in Slots :
       /\ hashes[o].phase = "written" =>
            hashes'[o] = hashes[o] /\ indexMapper'[o] = indexMapper[o]
       /\ hashes[o].phase = "writing" =>
            hashes'[o] \in {hashes[o], Written(hashes[o].memo)}]_vars

\* Every addState call is answered, whatever the other threads do: a thread
\* that spins on a slot is released by the slot's writer.
EveryCallAnswered ==
  \A t \in Threads : pc[t] = "load" ~> pc[t] \in {"done", "outOfMemory"}

-----------------------------------------------------------------------------
(***************************************************************************)
(* addState is linearizable: the abstract storage is what the indexes      *)
(* stand for; a new state enters it when fetch_add returns, and a state is *)
(* found when the comparison succeeds.                                     *)
(***************************************************************************)
CONSTANT Reserved

ASSUME ReservedAssumption == Reserved \notin States

AbstractContents ==
  [n \in 1..savedStates |->
     IF n <= reservedStatesCapacity THEN Reserved ELSE Content(n - 1)]

AbstractRequest ==
  [t \in Threads |->
     IF pc[t] = "idle" THEN [status |-> "idle"]
     ELSE IF pc[t] = "outOfMemory" THEN [status |-> "refused", state |-> state[t]]
     ELSE IF t \in Writers \/ pc[t] = "done"
          THEN [status |-> "answered", state |-> state[t],
                isNew |-> t \in Writers \/ isNew[t], index |-> compactIndex[t]]
     ELSE [status |-> "pending", state |-> state[t]]]

Abstract == INSTANCE AbstractStateStorage
              WITH contents <- AbstractContents, request <- AbstractRequest

\* Every behaviour of the table is one of the abstract storage.
ImplementsAbstractStorage == Abstract!Spec
=============================================================================
