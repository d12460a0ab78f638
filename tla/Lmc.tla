--------------------------------- MODULE Lmc ---------------------------------
(***************************************************************************)
(* pemc::Lmc (src/pemc/lmc/lmc.cc), the labelled Markov chain that the     *)
(* workers of a traversal build through AddTransitionsToLmcModifier        *)
(* (src/pemc/lmc_traverser/add_transitions_to_lmc_modifier.cc).  The       *)
(* transitions of all states share one array; each call reserves a block   *)
(* of it by a fetch-and-add, notes the block in the entry of its source    *)
(* state, and then fills it.  One action is one access to what the         *)
(* threads share.                                                          *)
(***************************************************************************)
EXTENDS Sums, SequencesExt, FiniteSets

CONSTANTS
  Threads,       \* the workers, each with its modifier
  StateIndexes,  \* the state indexes of the chains
  Transitions,   \* what applyOnTransitions may get
  Chains,        \* the chains the model may have
  Capacities,    \* the values of modelCapacity.getMaximalTargets()
  NoEntry,       \* what an entry of the array is before it is set
  One            \* the probability 1, in units

NoSource == -1      \* std::nullopt: the initial transitions
NoStuttering == -1  \* the chain has no stuttering state

Sources == {NoSource} \cup StateIndexes

\* A chain gives the transitions of every source in the order in which the
\* modifier gets them, each with a probability, a label and a target index;
\* its stuttering state gets its transition from createStutteringState.
IsChain(c) ==
  /\ c.from \in [DOMAIN c.from -> Seq(Transitions)]
  /\ NoSource \in DOMAIN c.from
  /\ c.stuttering # NoStuttering => c.stuttering \notin DOMAIN c.from
  /\ \E n \in StateIndexes :
       /\ (DOMAIN c.from \cup {c.stuttering}) \ {NoSource} = 0..n
       /\ 0..n \subseteq StateIndexes

ASSUME ChainAssumption ==
  /\ StateIndexes \subseteq Nat
  /\ Capacities \subseteq Nat /\ One \in Nat \ {0}
  /\ \A c \in Chains : IsChain(c)

\* The entry of a transition, and the one of the stuttering state of a chain:
\* one transition to itself, with probability one and without labels.
Entry(tr) ==
  [probability |-> tr.probability, label |-> tr.label, state |-> tr.targetStateIndex]

Loop(c) == [probability |-> One, label |-> c.noLabels, state |-> c.stuttering]

\* An entry that is not set is told from every entry that is.
ASSUME EntryAssumption ==
  /\ \A tr \in Transitions : NoEntry # Entry(tr)
  /\ \A c \in Chains : NoEntry # Loop(c)

VARIABLES
  chain,                   \* the chain of the model; it never changes
  maxNumberOfTransitions,
  transitionCount,         \* the atomic counter
  transitions,             \* the array, by index from 0
  range,                   \* from and elements of each state; range[NoSource]
                           \*   is initialTransitionFrom and ...Elements
  stateCount,              \* 0 until finishCreation
  pc,                      \* where each worker is in applyOnTransitions
  source,                  \* its stateIndexOfSource
  location,                \* its locationOfFirstEntry
  written,                 \* its i
  handled,                 \* the sources whose calls returned
  aborted                  \* createStutteringState threw

lmc == <<maxNumberOfTransitions, transitionCount, transitions, range, stateCount>>
vars == <<lmc, chain, pc, source, location, written, handled, aborted>>

\* -1 is what initialize writes in a DEBUG build; only validate looks at it.
NoRange == [from |-> -1, elements |-> 0]

Given(s) == chain.from[s]

Init ==
  /\ chain \in Chains
  /\ maxNumberOfTransitions \in Capacities
  /\ transitionCount = 0
  /\ transitions = [k \in 0..maxNumberOfTransitions - 1 |-> NoEntry]
  /\ range = [s \in Sources |-> NoRange]
  /\ stateCount = 0
  /\ pc = [t \in Threads |-> "idle"]
  /\ source = [t \in Threads |-> NoSource]
  /\ location = [t \in Threads |-> 0]
  /\ written = [t \in Threads |-> 0]
  /\ handled = {}
  /\ aborted = FALSE

-----------------------------------------------------------------------------
\* A source is the initial one, or a state that an earlier call had as target.
Discovered(s) ==
  \/ s = NoSource
  \/ \E h \in handled : \E tr \in Range(Given(h)) : tr.targetStateIndex = s

Claimed == handled \cup {source[t] : t \in {u \in Threads : pc[u] # "idle"}}

\* Slip: there is room when the first entry still fits.
RefusesFirst(first, number) == first >= maxNumberOfTransitions

\* getPlaceForNewTransitionEntries throws; the counter stays advanced.
Refuses(first, number) == first + number >= maxNumberOfTransitions

\* Slip: the counter is one short of the block's end.
PlaceOverlapping(t, s) ==
  /\ stateCount = 0 /\ pc[t] = "idle"
  /\ s \in DOMAIN chain.from /\ s \notin Claimed /\ Discovered(s)
  /\ transitionCount' = transitionCount + Len(Given(s)) - 1
  /\ source' = [source EXCEPT ![t] = s]
  /\ location' = [location EXCEPT ![t] = transitionCount]
  /\ pc' = [pc EXCEPT ![t] = IF Refuses(transitionCount, Len(Given(s))) THEN "thrown"
                             ELSE "placed"]
  /\ UNCHANGED <<chain, maxNumberOfTransitions, transitions, range, stateCount,
                 written, handled, aborted>>

\* applyOnTransitions up to the fetch-and-add.
Place(t, s) ==
  /\ stateCount = 0 /\ pc[t] = "idle"
  /\ s \in DOMAIN chain.from /\ s \notin Claimed /\ Discovered(s)
  /\ transitionCount' = transitionCount + Len(Given(s))
  /\ source' = [source EXCEPT ![t] = s]
  /\ location' = [location EXCEPT ![t] = transitionCount]
  /\ pc' = [pc EXCEPT ![t] = IF Refuses(transitionCount, Len(Given(s))) THEN "thrown"
                             ELSE "placed"]
  /\ UNCHANGED <<chain, maxNumberOfTransitions, transitions, range, stateCount,
                 written, handled, aborted>>

\* Slip: the block of state 0 is taken for the initial one.
RecordedSourceIsZero(s) == IF s = 0 THEN NoSource ELSE s

RecordedSource(s) == s

\* The block is noted in the entry of the source.
Record(t) ==
  /\ pc[t] = "placed"
  /\ range' = [range EXCEPT ![RecordedSource(source[t])] =
                 [from |-> location[t], elements |-> Len(Given(source[t]))]]
  /\ written' = [written EXCEPT ![t] = 0]
  /\ pc' = [pc EXCEPT ![t] = "writing"]
  /\ UNCHANGED <<chain, maxNumberOfTransitions, transitionCount, transitions,
                 stateCount, source, location, handled, aborted>>

\* setLmcTransitionEntry in the loop.
Write(t) ==
  /\ pc[t] = "writing"
  /\ written[t] < Len(Given(source[t]))
  /\ transitions' = [transitions EXCEPT ![location[t] + written[t]] =
                       Entry(Given(source[t])[written[t] + 1])]
  /\ written' = [written EXCEPT ![t] = @ + 1]
  /\ UNCHANGED <<chain, maxNumberOfTransitions, transitionCount, range, stateCount,
                 pc, source, location, handled, aborted>>

Return(t) ==
  /\ pc[t] = "writing"
  /\ written[t] = Len(Given(source[t]))
  /\ handled' = handled \cup {source[t]}
  /\ pc' = [pc EXCEPT ![t] = "idle"]
  /\ source' = [source EXCEPT ![t] = NoSource]
  /\ location' = [location EXCEPT ![t] = 0]
  /\ written' = [written EXCEPT ![t] = 0]
  /\ UNCHANGED <<lmc, chain, aborted>>

-----------------------------------------------------------------------------
\* createStutteringState, by the client whose chain has such a state.
CreateStutteringState ==
  LET s == chain.stuttering IN
  /\ stateCount = 0 /\ ~aborted /\ s # NoStuttering /\ range[s] = NoRange
  /\ transitionCount' = transitionCount + 1
  /\ IF Refuses(transitionCount, 1)
     THEN /\ aborted' = TRUE
          /\ UNCHANGED <<transitions, range>>
     ELSE /\ transitions' = [transitions EXCEPT ![transitionCount] = Loop(chain)]
          /\ range' = [range EXCEPT ![s] = [from |-> transitionCount, elements |-> 1]]
          /\ UNCHANGED aborted
  /\ UNCHANGED <<chain, maxNumberOfTransitions, stateCount, pc, source, location,
                 written, handled>>

\* The traversal is over: every state was handled.
Complete ==
  /\ \A t \in Threads : pc[t] = "idle"
  /\ handled = DOMAIN chain.from
  /\ chain.stuttering # NoStuttering => range[chain.stuttering] # NoRange

\* Slip: "Do not miss to count the optional stuttering state!" (lmc.cc:193)
NoOfStatesButStuttering == Cardinality(handled \ {NoSource})

\* What the traverser counts: the states it stored, the stuttering one included.
NoOfStates ==
  Cardinality((handled \cup {chain.stuttering}) \ {NoSource, NoStuttering})

\* finishCreation cuts both arrays to the entries in use.
FinishCreation ==
  /\ stateCount = 0 /\ Complete
  /\ stateCount' = NoOfStates
  /\ range' = [s \in {NoSource} \cup 0..stateCount' - 1 |-> range[s]]
  /\ transitions' = [k \in 0..transitionCount - 1 |-> transitions[k]]
  /\ UNCHANGED <<chain, maxNumberOfTransitions, transitionCount, pc, source,
                 location, written, handled, aborted>>

Worker(t) == (\E s \in Sources : Place(t, s)) \/ Record(t) \/ Write(t) \/ Return(t)

Building == (\E t \in Threads : Worker(t)) \/ CreateStutteringState

Next == Building \/ FinishCreation

Spec == Init /\ [][Next]_vars

-----------------------------------------------------------------------------
Entries == {Entry(tr) : tr \in Transitions} \cup {Loop(chain)}

Ranges ==
  {r \in [from : -1..maxNumberOfTransitions, elements : 0..maxNumberOfTransitions] :
     r.from + r.elements < maxNumberOfTransitions}

\* Every variable keeps to its domain.
TypeOK ==
  /\ transitionCount \in Nat /\ stateCount \in Nat
  /\ transitions \in [DOMAIN transitions -> Entries \cup {NoEntry}]
  /\ range \in [DOMAIN range -> Ranges]
  /\ pc \in [Threads -> {"idle", "placed", "writing", "thrown"}]
  /\ source \in [Threads -> DOMAIN chain.from]
  /\ location \in [Threads -> Nat] /\ written \in [Threads -> Nat]
  /\ handled \subseteq DOMAIN chain.from
  /\ aborted \in BOOLEAN

Block(s) == range[s].from .. range[s].from + range[s].elements - 1

\* Two sources never share an entry of the array, and none is outside of it:
\* what the fetch-and-add hands out belongs to one call alone.
BlocksAreDisjoint ==
  /\ \A s \in DOMAIN range : Block(s) \subseteq DOMAIN transitions
  /\ \A r, s \in DOMAIN range : r # s => Block(r) \cap Block(s) = {}

TransitionsOf(s) ==
  [k \in 1..range[s].elements |-> transitions[range[s].from + k - 1]]

\* As soon as a call returned, its source reads back what the modifier was
\* given, however the other workers' writes are interleaved, and keeps it.
ReadsBack ==
  \A s \in handled :
    TransitionsOf(s) = [k \in 1..Len(Given(s)) |-> Entry(Given(s)[k])]

Sum(s) == SumOf([k \in 1..range[s].elements |-> TransitionsOf(s)[k].probability])

\* The tolerance of the code's comparison with 1 is for rounding.
IsValid(probability) == 0 < probability /\ probability <= One
IsOne(probability) == probability = One

\* The assertions of validate().
Validates ==
  /\ \A s \in DOMAIN range : range[s].from # -1
  /\ \A s \in 0..stateCount - 1 : range[s].elements > 0
  /\ \A k \in DOMAIN transitions :
       /\ transitions[k] # NoEntry
       /\ transitions[k].state \in 0..stateCount - 1
       /\ IsValid(transitions[k].probability)
  /\ \A s \in DOMAIN range : IsOne(Sum(s))

\* From every source the chain goes with probability one to one of its states.
IsDistributed(c) ==
  \A s \in DOMAIN c.from :
    /\ \A k \in 1..Len(c.from[s]) :
         /\ c.from[s][k].targetStateIndex \in (DOMAIN c.from \cup {c.stuttering}) \ {NoSource}
         /\ IsValid(c.from[s][k].probability)
    /\ IsOne(SumOf([k \in 1..Len(c.from[s]) |-> c.from[s][k].probability]))

\* validate() passes on every chain that was built to the end: no state is left
\* without transitions, no entry of the array is left unset, and each source
\* has a distribution.
ValidatePasses == stateCount > 0 => Validates
=============================================================================
