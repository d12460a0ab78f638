# A specification of pemc

pemc (Probabilistic Executable Model Checker) executes a user's model, stores
every state it reaches, builds a labelled Markov chain (Lmc) out of the
transitions, and calculates probabilities on the chain; or it only searches for a
reachable state. This directory holds TLA+ modules of its components, TLC
configurations that check them on small instances, and TLAPS proofs for all
instances. `PROJECT.json` lists the components, runs, theorems, hazards and, for
each definition, the lines of code it stands for.

    tlc -workers 2 -config StateStorage.cfg MCStateStorage.tla
    tlapm StateStorageProofs.tla

## 1. The system

```
 client in C, C++ or Python
      |  formulas and chains by counted references
      C API (c_api.cc), Python module, C++ adapters
      |
      Pemc: checkReachability..., buildLmc..., calculateProbability...
      |
 user's model      LmcChoiceResolver / ReachabilityChoiceResolver
      \             /
      ModelExecutor --- TemporaryStateStorage
           | transitions of a state + probabilities (payload)
      GenericTraverser::Worker --- PathTracker (depth-first stack)
           |        \------------- StateStorage (shared by the workers)
           | transitions with target indexes
      post-storage modifiers
        AddTransitionsToLmcModifier -> Lmc -> LmcModelChecker <- Formula
        ReachabilityModifier -> reached, cancellation token -> Worker
```

| component | state | operations | what is hard | correct when |
|---|---|---|---|---|
| `StateStorage` (`generic_traverser/state_storage.cc`) | counter of indexes, slots (hash and phase), slot -> index, state memory | `addState` (lock-free, many threads), `reserveStateIndex`, `clear`, `operator[]` | claims race; a slot is published after its bytes; readers spin on writers; table full | one index for each state; only finished states are read; each call answered; reserved slots untouched |
| raw memory (`basic/raw_memory.cc`) | none | `areBuffersEqual`, `copyBuffers`, `hashBuffer` | loops over blocks of 8, 4 and 1 byte | no byte is left out or written beyond the buffer |
| `PathTracker` (`path_tracker.cc`) | frames (offset, count) in one vector of indexes, `lowestSplittableFrame` | `pushFrame`, `pushStateIndex`, `tryGetStateIndex`, `clear`, `getCurrentPath` | several frames popped in one call, each taking a state from the frame below | behaves as a stack of sequences |
| `GenericTraverser::Worker` (`generic_traverser.cc`) | storage, path tracker | `traverse`, `handleTransitions` | cancellation at any time; exceptions between storing and pushing; cycles | each reachable state is expanded once; ends; the answer is right |
| `ReachabilityModifier`, `cancellation_token` | `reached`, the token | `applyOnTransitions`, `cancel`, `is_canceled` | cancelled by the modifier and from outside | `reached` exactly with a witness |
| choice resolvers, `ModelExecutor`, `TemporaryStateStorage` | stack of choices, depth, probabilities, transitions | `beginMacroStepExecution`, `prepareNextPath`, `choose`, `stepFinished`, `calculate...Transitions` | a step is replayed once for every path of choices | every path once, with its probability |
| `Lmc`, `AddTransitionsToLmcModifier` | counter, array of transitions, block of each state | `initialize`, `getPlaceForNew...`, `setLmcTransitionEntry`, `createStutteringState`, `finishCreation`, `validate` | workers reserve and fill blocks at once; refusals leave the counter advanced | blocks are disjoint; what was given is read back; `validate` passes |
| formulas and visitors | immutable trees | evaluate on state, on label; extract phi until psi | same meaning in three visitors; lookup by identifier | evaluated as printed |
| `LmcModelChecker` | two probability vectors, precalculations | `calculateProbability` | vectors swapped; direct satisfaction and exclusion; bound 0 | answers the probability of the formula's paths |
| `Pemc` (`pemc.cc`), adapters of the languages | none between calls | the three functions of the facade | exceptions of every part; what a step or formula that raises becomes | the chain is the program or there is none; check and chain agree; every call returns |
| C API, Python module (`c_api.cc`, `pemcmodule.c`) | counts and shared pointers of formulas and chains; chain objects | register, ref, unref, check, build, calculate | calls from callbacks of calls; exceptions between ref and unref | counts are holders; what is in use lives; what nobody holds is destroyed |

Components call each other directly and synchronously; the only callbacks are
the modifiers, the model's `step` calling `choose`, and the token's `cancel`. The
code runs one worker today (`traverse` says so), but `StateStorage` and `Lmc` are
written for several at once ("can be used simultaneously by multiple threads",
`std::atomic` counters), and they are modelled that way. Nothing is persisted
and nothing is sent over a network: there are no crashes to recover from and no
lost messages, and no hazard of these kinds is listed.

## 2. Modules

| module | models | kind |
|---|---|---|
| `AbstractStateStorage` | what a storage promises: a sequence of distinct states, one atomic effect for each call | abstract specification |
| `StateStorage` | `state_storage.{h,cc}` | one action for each access to shared memory |
| `RawMemory` | `raw_memory.cc` | the loops as sets of blocks |
| `PathStack` | what a path tracker promises: a stack of sequences | abstract specification |
| `PathTracker` | `path_tracker.{h,cc}` | the operations as operators on a tracker's members; a client that calls them as the worker does |
| `GenericTraverser` | `generic_traverser.cc`, `reachability_modifier.cc`, `cancellation_token.cc` | composes `PathTracker`'s operators with a storage, the modifier and the token |
| `ChoiceResolver` | `lmc_choice_resolver.cc`, `reachability_choice_resolver.cc` | state and operations, no specification of its own |
| `ModelExecutor` | `model_executor.cc`, `temporary_state_storage.cc`, `AbstractModel::choose` | extends `ChoiceResolver` |
| `Formula` | `formula/*` | a visitor is a function on the parts of the formula it visits |
| `Lmc` | `lmc.cc`, `add_transitions_to_lmc_modifier.cc` | one action for each shared access of a worker |
| `LmcModelChecker` | `lmc_model_checker.cc` | extends `Lmc` and `Formula`: a chain is built and then checked |
| `Pemc` | `pemc.cc`, `CApiModel`, the Python model and the formula adapters | extends `LmcModelChecker` and instantiates `GenericTraverser`: a check, a build and calculations in a row |
| `Dice` | the die of the examples in C, C++ and Python | programs of `Pemc` |
| `CApi` | references in `c_api.cc` and `pemcmodule.c` | one action for each beginning and end of a call |
| `MC...` | values of the constants for TLC | |
| `Sums` | the sums of probabilities that `validate` and the checker take entry by entry | operators |
| `StateStorageProofs` (with raw memory), `PathTrackerProofs`, `GenericTraverserProofs`, `ModelExecutorProofs`, `LmcModelCheckerProofs` (the chain, the checker and the visitors), `PemcProofs`, `CApiProofs`, and `SumsProofs`, the lemmas about sums and recursive functions that three of them use | proofs | |

How the state corresponds to the code:

* **StateStorage.** Variables have the names of the members. A slot of `hashes` is
  the record `[memo, phase]`, which stands for the value 0, the 30 bit hash with
  bit 30, or with bit 31. The locals of `addState` are functions of the thread
  (`probe` is `i`, `bucket` is `j`), and `pc` names the next access. The copy of
  the serialized state is two steps with `Torn` between them, as `copyBuffers`
  goes byte by byte. Atomics are sequentially consistent, as the code's default
  arguments ask for. The hash function is a constant, `RawHash`: a state has one
  hash for each probe, and any collision is possible. The initial state is the
  one after the first `clear()`, which the class requires before any use.
  `clear` and `reserveStateIndex` run when no thread is in `addState`, and a client
  reserves before it adds, as `GenericTraverser::traverse` does.
* **PathTracker.** A tracker is a record of its three members. The loop of
  `tryGetStateIndex` is written as what it computes (`Settled`): the highest
  frame that has a state left besides the one being expanded. `Debug` chooses
  between the two builds; only a DEBUG build checks the capacity.
* **GenericTraverser.** The storage is the sequence it promises (that the table
  implements it is a run of its own); it refuses after `room` states, for
  `addState` gives up when probing finds no slot. `HandleTransitions` is the whole
  handler with its loop as a recursive function (`Worked`); an exception in it ends the traversal with the
  storage and tracker as they are at that point. `Cancel` is another thread.
  One round of the loop is one step: the worker alone reads and writes storage and
  tracker, and the token is the only thing it shares.
* **RawMemory.** A memory is a function from addresses to bytes. `Blocks(size)` is the
  set of offsets and widths that the loops visit. `StateStorage` calls the functions
  with buffers that do not overlap and takes them for equality and assignment of
  state vectors; the theorems on raw memory in `StateStorageProofs` are what allows it to.
* **Executor.** A model's step is a function from the choices made so far to the
  weights of the next choice's options; it depends on nothing else, which is
  what pemc asks of a model. Probabilities are whole units of `One`, so that
  products are exact. `withProbabilities` chooses between the two resolvers. A
  choice among no options is undefined behaviour in `LmcChoiceResolver` (it reads
  `choices[0]`) and is not made.
* **Lmc.** A worker's call is `Place` (fetch-and-add), `Record` (the block's entry),
  `Write` for each transition, `Return`. A state is handled after a transition to
  it was handled, by one worker, as the traversal does. The stuttering state is
  created by a client; nothing in pemc does.
* **LmcModelChecker.** An iteration is one step, for the checker is sequential.
  Unbounded formulas throw `NotImplementedYetException`, as in the code.
* **Pemc.** `call` is the function of the facade that runs. `Traverse` is a step of
  `GenericTraverser`'s worker with the transitions that the program's step gives;
  in a build `AddTransitions` hands them to `Lmc`'s actions before the next step;
  `Calculate` is a step of `LmcModelChecker`. A program is a finite function with
  its language: the adapters (`StepOf`, `Valuation`, `LastAdapted`) say what each
  language makes of a step or a formula that raises. A step may raise before it
  chooses (in Python the whole step is then a self-loop) or after one of its options
  (then that option's share is). `TooManyLabels` is the label's constructor, which refuses
  more than 30 formulas. An exception terminates a
  client in C or Python, for none crosses the C interface.
* **CApi.** A call of pemc is a record of what is on its stack: the references it
  took (a check takes one, a build none) and its copies of shared pointers. Calls
  overlap, as the client calls pemc from a callback or from another Python thread.
  `lost` counts the references of calls that an exception ended, and `lmcLost` also
  that of a Python build whose object could not be made. `malloc` and `tp_alloc` may
  fail: a registration returns nothing (`RegisterFails`), a build nothing
  (`BuildFails`), or, in Python, an object of the null pointer, `NoLmc`, on
  which a calculation crashes (`CalculateOnNothing`).

## 3. Properties and runs

| run | instance | properties |
|---|---|---|
| `storage` | two threads, three states that begin in the same two slots, capacity 6, cache lines of 2, two probes, one reserved index, fair | `TypeOK`, `NeverThrows`, `ComparesFinishedStates`, `ReservedSlotsKept`, `AnswerReadsBack`, `NoDuplicateStates`, `ImplementsAbstractStorage`, `SlotLifeCycle`, `EveryCallAnswered`; also the ASSUME `BlockwiseIsBytewise` of raw memory, buffers of up to 24 bytes |
| `path_tracker` | three indexes, up to five frames and four entries | `TypeOK`, `FramesTileEntries`, `ImplementsStack` |
| `traverser` | models of three states, up to renaming, with at most two transitions from each and at most one state that satisfies the formula; models of four states with a storage for three or a path tracker for three; models of two states with a stuttering state; fair | `TypeOK`, `PendingStatesAreTracked`, `FinishedIsComplete`, `ReachabilityIsCorrect`, `LastStatesFormPath`, `TraversalEnds` |
| `executor` | all trees of two choices with up to three options, and of three choices with two, with options of probability 0 and choices with one option, fair | `TypeOK`, `EnumeratesEveryPath`, `PayloadIsDistribution`, `NothingStrangeOccurs`, `CalculationEnds` |
| `lmc_model_checker` | two workers build chains of two or three states in every order, with an array that is large enough or too small; formulas with bounds 0 to 3 | `TypeOK`, `BlocksAreDisjoint`, `ValidatePasses`, `ReadsBack`, `IterationIsExact`, `ResultIsProbability` |
| `pemc` | the dice of the three languages (13 states) and programs of three states, each with four sets of capacities: enough, and too few states, transitions or successors; a program too wide for the path tracker and one with too many labels; bounds 0 to 5; fair | `PemcTypeOK`, `ChainIsProgram`, `AnswersAreProbabilities`, `VerdictsAgree`, `CallsReturn` |
| `capi` | two formulas, two chains, two calls at the same time, two references to each object, one lost; fair | `TypeOK`, `RefsAreHolders`, `UsedIsAlive`, `UnusedIsDestroyed`, `ObjectsAreUsable`, `GivenBackIsDestroyed` |
| `path_current_path` | as `path_tracker` | `PathHasTopmostStates`, violated |
| `until_excludes` | as `lmc_model_checker`, with "f1 until f2" | `ExcludesDirectly`, violated |
| `implication` | as `lmc_model_checker`, with "finally (f1 -> f2)" | `EvaluatesAsPrinted`, violated |
| `cpp_labels` | programs in C++ with composite formulas | `LabelsMeanFormulas`, violated |
| `unref_lmc` | as `capi` | `LastUnrefDestroysChain`, violated |

What they show, by component:

* **StateStorage.** `ImplementsAbstractStorage` is linearizability: a new state
  enters the abstract sequence when `fetch_add` gives it an index, a known state is
  found when the comparison succeeds, a refusal happens when probing ends. The
  instance is small but not tame: all three states begin in the same two slots, the
  third has no other cache line, so that it finds no slot when the others came first;
  a written slot of equal hash holds another state; and the counter meets the
  reserved index. As in the code, the slot of a reserved index lies directly beyond
  the last one that `addState` can reach.
* **PathTracker.** Five frames are one more than entries can fill, so a run pops
  several at once. All properties hold for any client that pushes a frame only
  for a state it got.
* **Traverser.** `FinishedIsComplete` compares with the least set of states that is
  closed under the model's transitions, and `ReachabilityIsCorrect` with the labels of the transitions so
  found. Three states suffice for a diamond, a cycle, a self loop and a dead end at
  once. `LastStatesFormPath` is about the tracker's state when the traversal
  stops: the states on top of the frames lead to the state that would have been
  expanded *next*; the transition that the modifier saw is not on that path.
* **Executor.** A calculation follows another one, with the same resolver and
  another step, so that leftovers of the first would be seen. The reference is the
  set of leaves of the step's tree, and a product along a path.
* **Lmc and checker.** `ValidatePasses` states the assertions of `Lmc::validate`,
  which no build calls after a traversal; the chains of the run satisfy
  `IsDistributed`, which TLC evaluates, and which is what the theorem about
  `ValidatePasses` assumes; `ResultIsProbability` compares the answer
  with a summation over all paths of the *model*, through labels, array, lookup by
  identifier, precalculation and iteration.

* **Pemc.** `ChainIsProgram` and `AnswersAreProbabilities` compare with the program
  itself, by a fixpoint of its steps and a recursion on bounds, so that every
  component between the two, with its capacity and its exceptions, is part of what
  is checked. `VerdictsAgree` compares the two ways to ask the same question.
  Programs include steps that raise before or after they choose, formulas that raise,
  too many options for Python, several options with the same target, more labels
  than there is room for, and formulas that do not compile. In one program the states that
  wait exceed the path tracker (`WidePrograms`) while the storage has room.
  `PendingStatesAreTracked`, `FinishedIsComplete` and `PayloadIsDistribution` say
  nothing of the traverser or the executor after an exception in the middle of
  their work, when a stored state may neither be expanded nor wait; `ChainIsProgram` does: no chain
  comes of it.
* **CApi.** The client may do anything that is within its rights: it uses and gives
  back what it holds, also from a callback of a call that uses it. The counts then
  agree with the holders, and the shared pointer's copies keep what runs alive.
  Every allocation of the interface may fail, at any time.

Each property of a passing run has a mutant in `PROJECT.json`: the operators whose
comment begins with "Slip" are plausible mistakes in the code, and TLC finds the
property violated with them.

Deadlock is not checked where the program ends: a traversal, a calculation that
threw, a checked formula, the client's last call, a terminated process. The storage and the path tracker run on.

**Bounds.** `MaxReserved` (indexes a client reserves; one in the code),
`ProbeThreshold` and `MemoRange` (1000 and 2^30 in the code, small here, so that
refusals and equal hashes of different slots happen), `MaxEntries` (entries and
frames of a tracker: one more frame than entries can fill, so that a call pops
several at once), `MaximalStates` and `MaximalSearchDepth` (one fewer than some of the
models need), `MaxDepth` (choices in a row; three, so that a replayed stack has a
bottom, a middle and a top), `MaxBound` (iterations; beyond the number of states,
at which the small chains' probabilities have passed every transition),
`ProgramStates` (the die's 13), `ChooseMaxOptions` (2 in place of 8, so that a
program with four options exceeds it), `MaxLabels` (3 in place of 30, one fewer than
a program has), `MaximalSearchDepth` of the facade (5, as much as the dice need and less than
the wide program does), `MaxHeld` (2: one reference more than the
first) and `MaxLost` (1). Storage, path tracker, traverser, executor, chain, checker,
facade and references are proved for every value of their constants (section 5).

## 4. Fairness

* `StateStorage`: weak fairness of each thread's steps inside `addState`. The
  operating system schedules a running thread; nothing makes a thread call
  `addState`, return to its caller or `clear`. `EveryCallAnswered` needs it for the
  writer on whose slot another thread spins, and no more than this.
* `GenericTraverser`: weak fairness of the traversing thread. Cancellation is not
  fair: the traversal ends without it.
* `ModelExecutor`: weak fairness of the calculation that is running; nobody is
  obliged to start another one.
* `Pemc`: weak fairness of the next-state relation: the facade is sequential, and its
  thread runs. `CallsReturn` is then the absence of loops: the traversal, the array
  and the iteration all come to an end or an exception.
* `CApi`: weak fairness of the end of each call, for traversals end (the two
  properties above). Nothing makes a client give back a reference.

## 5. Theorems

All are proved from the modules' named assumptions, for every value of the
constants.

**`StateStorageProofs`** assume that a cache line has at least one bucket, that the
capacity exceeds a cache line plus the reserved indexes, and that a state has some
hash for each probe. `NeverThrows` is not inductive: that an index lies in the
memory is a matter of *counting*. The invariant `IndInv` has four parts beside
`NeverThrows` and `ReservedSlotsKept`: `TypeInv`; `SlotInv`, which links the phase
of each slot to the one thread that claimed it; `CountInv`, by which the counter is
the number of reserved indexes plus the cardinality of the set of slots whose
claimer has fetched an index, all of which lie in the reach of `addState`; and
`BoundInv`, by which every remembered index is below the counter. Before
`fetch_add` the claimer's slot is not in that set, so the set is smaller than the
reach, and the index fits. Theorems: `Inductive`, `TypeCorrect`, `NeverThrowsHolds`,
`ReservedSlotsKeptHolds`.

Its second part adds `IndexInv` (indexes and slots correspond one to
one, and a published index holds its state), `AnswerInv` (what a thread compares
with is its slot's), and the core of the argument: `PathInv`, a state lies in the
first slot of its probe sequence that was empty; `PassedInv`, the slots a thread has
gone past are taken by other states and stay so; and `UniqueInv`, no state is in
two slots. A thread that claims a slot for a state has passed all earlier slots of
the sequence, so none of them holds it; a later one cannot hold it either, for
then the slot claimed now would have been taken before. Theorems:
`UniqueInductive`, `NoDuplicateStatesHolds`, `ComparesFinishedStatesHolds`,
`AnswerReadsBackHolds`, `SlotLifeCycleHolds`.

Its third part proves linearizability, `ImplementsAbstractStorageHolds`,
from `UniqueIndInv`; the one further assumption is that what a reserved index
stands for is no state. `Content` (what an index stands for) is kept by every step
but `Fetch`, also by the one that publishes: then what was the writer's argument is in
memory. So each call changes the abstract storage at one action only: `Fetch` is the
abstract append, and by `UniqueInv` no index stands for the state it adds;
`CompareEqual` is the abstract find; the step past the last bucket is the abstract
refusal, for by `PassedInv` and `PathInv` a state that is in none of its own buckets
is in no slot. All other steps of a call are stuttering.

Its last part is on raw memory, and assumes no overlap of the buffers where one is
written. The blocks cover each byte of a buffer and no other, so that the comparison in blocks
is the one byte by byte. Theorems: `EqualIffSameBytes`, `CopyMakesEqual`,
`EqualIffSameHashInput`.

**`PathTrackerProofs`** assume nothing but the domains of the constants. The
invariant says how frames lie in the vector (`Laid`: each begins where the one
below ends, the last one ends with the vector, and none reaches into one above
it), and that every frame below the topmost holds at least the state being
expanded (`KeptBelow`), which is what keeps a count from being taken below zero
when `tryGetStateIndex` pops several frames. Neither is inductive alone: popping
needs the counts, and the counts of the frames that remain follow from how
entries are erased. The refinement then compares `StackOf`, the contents of the
frames, before and after each operation. Theorems: `TrackerInductive`,
`TypeCorrect`, `FramesTileEntriesHolds`, and `ImplementsStackHolds`: the tracker
implements `PathStack` for every set of indexes and every capacity.

**`GenericTraverserProofs`** assume what a model is (`ModelAssumption`). The lemmas of
`PathTrackerProofs` are stated again for the tracker of the traverser. The loop of
`handleTransitions` is followed round by round (`WorkInv`): what was stored so far is
what the transitions handled so far lead to, and the tracker's topmost frame holds the
new states. `TraverserInv` has the parts `Fits` (the tracker's frames are laid out in
its vector, which has no more entries than states were stored), `Pending` (a state
that was stored is expanded, or its index waits in the tracker), `Follows` (the
states on top of the frames are a path of the model), `HandledOk` (what the modifiers
were given are the transitions of the model), `Visited` (everything stored is
reachable) and `ReachedOk`. `Pending` is not
inductive alone: a state is expanded because it is on top of a settled tracker, so the
invariant must say that the tracker is settled between rounds (`Ready`); and what is
stored is reachable because its source is. When the worker finishes, no index
waits, so every stored state was expanded, and the set of stored states is closed
under transitions; by `Visited` it is the least such set. An exception leaves the parts
that later states need intact. `Grows` is what a step never does: take back what was
stored or handed to the modifiers, also when it throws in the middle of a state's
transitions. Theorems: `TraverserInductive`, `TypeCorrect`,
`PendingStatesAreTrackedHolds`, `FinishedIsCompleteHolds`,
`ReachabilityIsCorrectHolds`, `LastStatesFormPathHolds`, `IndexesStayValid`.

**`ModelExecutorProofs`** assume what a step is (`ExecutorAssumption`: a function
from sequences of options to weights that add up, of bounded depth), and what a power is
(`PowerAssumption`: `Weight ^ 0 = 1` and `Weight ^ (n + 1) = Weight * Weight ^ n`), for the
provers know nothing of `^`. The invariant: `Fits`, the choices on the stack are legal and each entry remembers how
many options there were; `DepthInv`, a run follows the stack; `OrderInv`, the
transitions found are those of the complete paths lexicographically before the
stack's choices. The heart is `NothingBetween`: no complete path lies between the
choices of one run and those that `prepareNextPath` makes of them, since where one
leaves the old choices above the turned entry there is no option left. `NothingLeft` is
the same for an empty stack, hence all paths were run. The payload needs a measure
of what was run: `After` is the product along the first choices of a path, and `Before`
what the options before those on the path weigh. `PayloadInv` says that the entries of
the stack have the probability `After`, all but a last one that was turned and not yet
replayed (`StackWeighed`), that finished runs have their products (`RunsWeighed`),
and that these add up to `Before` of the current choices (`SharesAddUp`). When the
stack is turned, `Before` plus `After` of the old choices is `Before` of the new ones:
entries with no option left complete the choice below (`OnlyLastOptions`), and the
turned one begins where the old option ended (`NextOption`). No division leaves a
rest, since a product of n factors is a multiple of `Weight ^ (MaxDepth - n)`
(`AfterIsMultiple`). That a recursive function exists and is unique is proved by a
least counterexample (`RecursionExists`, `RecursionIsUnique`), in place of
induction. Theorems: `ExecutorInductive`, `TypeCorrect`, `NothingStrangeOccursHolds`,
`EnumeratesEveryPathHolds`, `PayloadIsDistributionHolds`.

**`SumsProofs`** holds what the sums of the code need: a sum of parts, of a
concatenation, of multiples, the existence and uniqueness of a recursive function
on 0..n (by a least counterexample, in place of induction).

**`LmcModelCheckerProofs`** begin with the chain. They assume what it is (`ChainAssumption`), and that an entry that is
not set is told from one that is (`EntryAssumption`). The invariant says where
blocks lie (`SpaceInv`: recorded blocks and those reserved by a call in progress
are apart from each other and below the counter), what a call knows (`CallInv`),
what is written (`ContentInv`), and how `finishCreation` cuts the arrays
(`ShapeInv`: the counter exceeds the array only if some call threw, and then the
creation is never finished). `BuiltInv` goes on from there: every index below the
counter lies in the block of a source (`CoverInv`, `OwnerInv`), so that a finished array
has no entry that nobody wrote, and the stuttering state has its loop
(`StutteringInv`). Hence `ValidatesExactlyHolds`: `validate` accepts a finished chain if
and only if the model's transitions are distributions (`IsDistributed`), and
`ValidatePassesHolds` for chains that are. Theorems: `LmcInductive`, `LmcTypeCorrect`,
`BlocksAreDisjointHolds`, `ReadsBackHolds`, `LmcBuilt`, `ValidatesExactlyHolds`,
`ValidatePassesHolds`.

Its second part goes from the formula on the states to the number that is
returned. It assumes the units of `CheckerAssumption` and powers (`PowerAssumption`).

* *Paths.* The reference, `ProbabilityOf`, lists all paths of n transitions and
  adds the weights of those on which the formula holds in time. The paths from a place
  weigh `Weight ^ n` together (`PathsAreCertain`); and the paths that fulfil the formula
  within n + 1 transitions are those whose first transition does, all of them, and those
  that fulfil it within n after it (`FulfillingStep`). So one round of sums over the array
  is one transition more of the reference (`RoundIsExact`), with no rest at any
  division, for n + 1 factors are a multiple of what they are divided by.
* *Checker.* `CheckerInv` says that what was precalculated is that of the formula
  (`RoundInv`), that the vector is exact and that the result is. It is proved under
  `IndInv` and `BuiltInv` of the chain, which every step of the checker keeps for it
  leaves the chain alone: `TransitionsOf` then reads what the model gave, wherever the
  workers put it. Theorems: `CheckerInductive`, `IterationIsExactHolds`,
  `ResultIsProbabilityHolds`. Their hypotheses are that the sources have distributions
  and that the labels say what the formulas mean (`LabelsSay`); TLC evaluates both for
  the chains of the run (`ChainsAreDistributed`, `LabelsSayWhatIsMeant`).
* *Visitors.* Each visitor is a recursive function on the parts of a formula. That it
  exists and what it answers is proved by the height of formulas (`FixedPointExists`,
  `Agree`), again with a least counterexample. `LabelsMeanWhatFormulasMean`: what the label visitor looks up on a
  label, or composes of what it finds there, is what the formula means in the state that the
  label was calculated for. The formulas are closed under operands (`StateFormulas`), no two of
  them share an identifier (`Unambiguous`), and an implication is none of them (finding 3).
  `AnswersForStateFormulas` puts the two together: there nothing is assumed of labels.
  TLC evaluates its hypotheses for the run (`StateFormulasAreChecked`).

**`PemcProofs`** compose these. They assume what a program is (`ProgramAssumption`), that
the chain's indexes suffice for the storage's and that an entry that is not set is told
from one that is (`ArrayAssumption`), and what the theorems on the chain, the checker
and the traverser assume; that the traversed models are models in the sense of
`ModelAssumption` is proved (`TraversalAssumption`). `FacadeInv` relates each stage to
the one before:

* `CallsInv`: which call runs, and what of the checker goes with it.
* `Traversed`: what the traversal of the current call promises, in the program's terms.
  Only reachable states are stored, each once; what the modifiers were given of a
  source are the indexes of the options of its step; when it finished, all sources were
  given; when a check returns, the flag is whether a state with psi is reachable. It is
  not an invariant of its own: `TraversalInductive` shows that each call's traversal keeps
  to `TraverserInv` of `GenericTraverserProofs`, instantiated with the programs as models,
  and `TraversalPromises` derives it from there. That a *stopped* check answers right
  needs `TokenInv`: nobody but the modifier cancels the token.
* `ChainInv` and `ArrayInv`: the modifier works on what it was given, source by source; a
  block that is recorded has the options of its source, as far as it is written; when
  the chain is returned, every source has its block and nothing lies between them. A
  traversal step only adds to what is stored (`Extends`, from `Grows`), so that
  blocks already written stay right.
* `CheckInv`: the vector after n iterations is the n-th round of the program's own
  probabilities (`RoundsOf`), and the answers so far are those of their bounds. A
  round on the program and one on the array are equal entry by entry
  (`WeightedSumIsRound`), with no rest at any division.
* `VerdictInv`: the verdict is whether psi is reachable.

`ChainIsProgramHolds`, `AnswersAreProbabilitiesHolds` and `VerdictsAgreeHolds` then are about
the program alone. `Visited`, the fixpoint, is the least closed set, since a set
that grows in every round has outgrown the finite set of states after as many
(`GrowsUntilItStays`, with a least counterexample). In `VerdictsAgree`, a state that is
reached within k rounds has a probability above zero from round k on
(`SomethingWithin`). These three assume that the programs ask plainly (`AsksPlainly`): their
formulas are state formulas without an implication, no two with one identifier, and
composite ones belong to the tests' model, for what the other languages make of composite
formulas is finding 4 and what all make of an implication finding 3. TLC evaluates the
assumption for the programs of the run (`SmallProgramsAskPlainly`). `PemcTypeCorrect`
does not need it. Theorems: `TraversalInductive`, `FacadeInductive`, `PemcTypeCorrect`,
`ChainIsProgramHolds`, `AnswersAreProbabilitiesHolds`, `VerdictsAgreeHolds`.

**`CApiProofs`** assume finitely many calls at a time. The invariant `IInv` is
`TypeOK` with `CallInv` (what is on a call's stack), `CountInv` (a count is what the
client holds, plus the cardinality of the set of calls with a reference, plus what
exceptions lost), `HolderInv` (a shared pointer is alive exactly if its count is
above zero), `ChainInv` (the same for chains) and `ObjectInv` (a Python object's
formula is held, and its chain if it got one). `UsedIsAlive` depends on all of them: that a formula in use lives
follows from the copies, that a held one does from the counts. Theorems:
`CApiInductive`, `TypeCorrect`, `RefsAreHoldersHolds`, `UsedIsAliveHolds`,
`UnusedIsDestroyedHolds`, `ObjectsAreUsableHolds`.

**Only model-checked:** liveness (`EveryCallAnswered`, `TraversalEnds`,
`CalculationEnds`, `CallsReturn`, `GivenBackIsDestroyed`), which the prover does not
treat. Every safety invariant and every action property of a passing run is proved.

## 6. Findings

1. `getCurrentPath` (`path_tracker.cc:206`) creates a vector of as many zeros as
   there are frames and appends the path to it. The header says it returns the
   sequence of topmost states (`path_current_path`).
2. The evaluator of phi is compiled from psi (`lmc_model_checker.cc:110`), so that
   "phi until psi" is calculated as "finally psi" (`until_excludes`). Only formulas
   without a phi are part of `ResultIsProbability`.
3. An implication negates its right operand, in all three visitors
   (`generate_label_based_formula_evaluator.cc:162`), while the string visitor
   prints "->" (`implication`). No test evaluates one.
4. The C++ and the C formula visitors declare a member `result` of their own, which
   hides the one their base class composes operands in
   (`generate_slow_cpp_formula_evaluator.cc:49`, `c_api.cc:45`): in a client's model
   the label of a composite formula is the value of the operand visited last
   (`cpp_labels`).
5. `build_lmc_from_executable_model` stores an `Lmc*`, which the last
   `pemc_unref_lmc` takes for a `std::shared_ptr<Lmc>*` (`c_api.cc:216`): the process
   crashes or the chain's memory is freed without its destructor (`unref_lmc`).

Read but without a run: `transition.flags |= ...` (`generic_traverser.cc:133`) calls an
operator that takes its left operand by value (`traversal_transition.h:78-81`), so
that the flag that tells an index from a pointer is never set, and nothing reads it;
`lowestSplittableFrame` is not lowered by `tryGetStateIndex` and `clear`, but
`splitWork`, which would use it, throws in its first line; the traverser's
`createStutteringState` is a private member that is never true, and nothing calls
`Lmc::createStutteringState`; a reservation that was refused leaves
`transitionCount` advanced.

## 7. Not modelled

* Rounding of doubles, the 32 bit width of `transitionCount`, weaker memory orders.
* The mixing of the hash: `RawHash` is any function; only what `hashBuffer` reads is
  modelled.
* Modifiers before the storage: an extension point without an implementation here.
* `splitWork`, `canSplit`: dead code today.
* Clients that share references between threads of C: the counts are plain
  integers, and nothing in the repository says that this is allowed.
* `std::bad_alloc` of the C++ containers and of `std::make_shared`; the allocations
  of the C interface and of its Python objects are modelled.
* The Python module: a constructor or `get_initial_state_value` that raises, the life
  of the Python instances themselves, a `choose` on an instance that pemc does not
  run, and `dlopen`.
* Lcmdp and its checker are stubs; the GraphViz exports only write text.
* The tests' own models: the runs have models of their own. Their formula visitor
  is part of `Pemc` (the programs with the language "test").

## 8. Plan

Done: the storage with its abstract specification; raw memory; path tracker with its
abstract specification; traverser, executor; chain, formulas, checker; the facade
with the adapters of the languages; the references of the C interface and of
Python; proofs for storage (with its linearizability), raw memory, path tracker
(with its refinement), traverser, executor with its probabilities, chain with
`validate`, visitors, checker, facade, and references.

1. Traversal by several workers, over the abstract storage and `Lmc`: what holds
   when the single worker becomes many, once `splitWork` runs.
2. `Pemc` takes the transitions of a step as a list of options (`StepOf`), and
   `ModelExecutor` is proved to enumerate a step's paths in that order; no theorem
   relates the two modules yet.
