-------------------------- MODULE GenericTraverser --------------------------
(***************************************************************************)
(* pemc::GenericTraverser and its only Worker                              *)
(* (src/pemc/generic_traverser/generic_traverser.cc): the depth-first      *)
(* enumeration of a model's states.  It composes the state storage, here   *)
(* by the contents it promises (AbstractStateStorage), the PathTracker,    *)
(* a cancellation token that another thread may cancel, and the modifier   *)
(* of the reachability check, which cancels the token itself.              *)
(***************************************************************************)
EXTENDS Integers, Sequences, SequencesExt, FiniteSetsExt

CONSTANTS
  States,                 \* the serialized states of the model
  Stuttering,             \* the target of a transition to the stuttering state
  Models,                 \* the models: what a transitions calculator returns
  MaximalStates,          \* how many states the storage has room for at most
  MaximalSearchDepth,     \* the capacity of the path tracker
  Debug                   \* TRUE: a build with DEBUG

\* The label of a transition is the value of its first formula.
ModelTransitions == [target : States \cup {Stuttering}, label : BOOLEAN]

\* A model is traversed with or without createStutteringState, a member that
\* is false and that nothing in pemc sets; only with it a transition may lead
\* to the stuttering state.  addState refuses when probing finds no slot: after
\* m.room states, however the states hash.
ASSUME ModelAssumption ==
  /\ Stuttering \notin States
  /\ \A m \in Models :
       /\ m.initial \in Seq(ModelTransitions)
       /\ m.next \in [States -> Seq(ModelTransitions)]
       /\ m.createStutteringState \in BOOLEAN
       /\ ~m.createStutteringState =>
            \A tr \in Range(m.initial) \cup UNION {Range(m.next[s]) : s \in States} :
              tr.target # Stuttering
       /\ m.room \in 1..MaximalStates
  /\ Debug \in BOOLEAN
  /\ MaximalStates \in Nat /\ MaximalSearchDepth \in Nat

VARIABLES
  model,      \* the model and how it is traversed; it never changes
  status,     \* where Worker::traverse is
  contents,   \* the state storage: contents[n + 1] has state index n
  tracker,    \* the path tracker
  handled,    \* what the post-storage modifiers were given, call by call
  reached,    \* the flag of the reachability modifier
  canceled    \* the cancellation token

vars == <<model, status, contents, tracker, handled, reached, canceled>>

NoSource == -1    \* std::optional<StateIndex>() of the initial transitions

Path == INSTANCE PathTracker
          WITH StateIndexes <- 0..MaximalStates, Capacity <- MaximalSearchDepth,
               MaxEntries <- MaximalStates + 1,
               pushed <- NoSource, got <- NoSource

Stored == Range(contents)

\* createStutteringState reserves an index before the first state is added.
ClearedStorage == IF model.createStutteringState THEN <<Stuttering>> ELSE <<>>

Init ==
  /\ model \in Models
  /\ status = "created"
  /\ contents = <<>>
  /\ tracker = Path!EmptyTracker
  /\ handled = {}
  /\ reached = FALSE
  /\ canceled = FALSE

-----------------------------------------------------------------------------
(***************************************************************************)
(* handleTransitions: add the targets one by one, push those that are new, *)
(* replace each by its index, then hand all of them to the modifiers.  An  *)
(* exception of addState or pushStateIndex ends the loop.                  *)
(***************************************************************************)
\* Slip: no frame for a state without transitions.
BeginIfNeeded(storage, pt, transitions) ==
  [contents |-> storage, targets |-> <<>>, thrown |-> FALSE,
   tracker |-> IF transitions = <<>> THEN pt ELSE Path!WithFrame(pt)]

Begin(storage, pt, transitions) ==
  [contents |-> storage, tracker |-> Path!WithFrame(pt), targets |-> <<>>,
   thrown |-> FALSE]

\* Slip: the index of a state that is already stored is pushed once more.
AddKnownAndPush(work, s) ==
  LET index == (CHOOSE n \in 1..Len(work.contents) : work.contents[n] = s) - 1
  IN  [work EXCEPT !.targets = Append(@, index),
                   !.tracker = Path!WithStateIndex(@, index)]

AddKnown(work, s) ==
  LET index == (CHOOSE n \in 1..Len(work.contents) : work.contents[n] = s) - 1
  IN  [work EXCEPT !.targets = Append(@, index)]

\* Slip: a state is stored and never pushed when the storage becomes full.
AddNewUnlessFull(work, s) ==
  LET index == Len(work.contents)
  IN  [work EXCEPT !.contents = Append(@, s),
                   !.targets = Append(@, index),
                   !.tracker = IF index + 1 = model.room THEN @
                               ELSE Path!WithStateIndex(@, index)]

AddNew(work, s) ==
  LET index == Len(work.contents)
      after == [work EXCEPT !.contents = Append(@, s),
                            !.targets = Append(@, index)]
  IN  IF Path!RefusesEntry(work.tracker) THEN [after EXCEPT !.thrown = TRUE]
      ELSE [after EXCEPT !.tracker = Path!WithStateIndex(@, index)]

\* Slip: addState never refuses.
AddTargetUnchecked(work, tr) ==
  IF work.thrown THEN work
  ELSE IF tr.target \in Range(work.contents) THEN AddKnown(work, tr.target)
  ELSE AddNew(work, tr.target)

AddTarget(work, tr) ==
  IF work.thrown THEN work
  ELSE IF tr.target \in Range(work.contents) THEN AddKnown(work, tr.target)
  ELSE IF Len(work.contents) >= model.room THEN [work EXCEPT !.thrown = TRUE]
  ELSE AddNew(work, tr.target)

\* Slip: only the first transition of a state is looked at.
HitFirst(transitions) == transitions # <<>> /\ transitions[1].label

Hit(transitions) == \E tr \in Range(transitions) : tr.label

\* The loop over the transitions.
Worked(storage, pt, transitions) ==
  LET work[n \in 0..Len(transitions)] ==
        IF n = 0 THEN Begin(storage, pt, transitions)
        ELSE AddTarget(work[n - 1], transitions[n])
  IN  work[Len(transitions)]

HandleTransitions(source, transitions, storage, pt) ==
  \E work \in {Worked(storage, pt, transitions)} :
      /\ contents' = work.contents
      /\ tracker' = work.tracker
      /\ IF work.thrown
         THEN /\ status' = "thrown"
              /\ UNCHANGED <<handled, reached, canceled>>
         ELSE /\ status' = "traversing"
              /\ handled' = handled \cup {[source |-> source, targets |-> work.targets]}
              /\ reached' = (reached \/ Hit(transitions))
              /\ canceled' = (canceled \/ Hit(transitions))

\* traverse() up to the loop: the token is not looked at.
Start ==
  /\ status = "created"
  /\ HandleTransitions(NoSource, model.initial, ClearedStorage, tracker)
  /\ UNCHANGED model

\* One round of the loop: the next state is taken from the path tracker ...
Settled == Path!Settled(tracker)

Finish ==
  /\ status = "traversing"
  /\ Settled.pathFrames = <<>>
  /\ tracker' = Settled
  /\ status' = "finished"
  /\ UNCHANGED <<model, contents, handled, reached, canceled>>

\* Slip: the traversal stops before the enumerated frames are dropped.
StopBeforeTaking ==
  /\ status = "traversing"
  /\ Settled.pathFrames # <<>>
  /\ canceled
  /\ status' = "stopped"
  /\ UNCHANGED <<model, contents, tracker, handled, reached, canceled>>

\* ... the token is polled ...
Stop ==
  /\ status = "traversing"
  /\ Settled.pathFrames # <<>>
  /\ canceled
  /\ tracker' = Settled
  /\ status' = "stopped"
  /\ UNCHANGED <<model, contents, handled, reached, canceled>>

\* ... and the transitions of that state are calculated and handled.
Expand ==
  /\ status = "traversing"
  /\ ~canceled
  /\ \E settled \in {Settled} :
       /\ settled.pathFrames # <<>>
       /\ \E index \in {Path!Topmost(settled)} :
            HandleTransitions(index, model.next[contents[index + 1]], contents, settled)
  /\ UNCHANGED model

Worker == Start \/ Finish \/ Stop \/ Expand

\* Another thread that holds the token's source cancels it.
Cancel ==
  /\ ~canceled
  /\ canceled' = TRUE
  /\ UNCHANGED <<model, status, contents, tracker, handled, reached>>

Next == Worker \/ Cancel

Spec == Init /\ [][Next]_vars

\* The traversing thread runs.
FairSpec == Spec /\ WF_vars(Worker)

-----------------------------------------------------------------------------
Indexes == 0..Len(contents) - 1

\* Every variable keeps to its domain, and the storage to its capacity.
TypeOK ==
  /\ status \in {"created", "traversing", "finished", "stopped", "thrown"}
  /\ contents \in Seq(States \cup {Stuttering})
  /\ Len(contents) <= model.room
  /\ Path!TypeOK
  /\ \A h \in handled :
       /\ h.source \in Indexes \cup {NoSource}
       /\ Range(h.targets) \subseteq Indexes
  /\ reached \in BOOLEAN /\ canceled \in BOOLEAN

Targets(transitions) == {tr.target : tr \in Range(transitions)} \ {Stuttering}

\* No transition leads from the set to a state outside of it.
ClosedUnderNext(set) ==
  /\ Targets(model.initial) \subseteq set
  /\ \A s \in set : Targets(model.next[s]) \subseteq set

\* The states that a path from an initial transition visits: the least such set.
Reachable == {s \in States : \A set \in SUBSET States : ClosedUnderNext(set) => s \in set}

Expanded == {h.source : h \in handled} \ {NoSource}

\* Every state is expanded at most once, and a state that is stored but not
\* yet expanded waits in the path tracker: none is lost and none is repeated.
PendingStatesAreTracked ==
  status = "traversing" =>
    LET entries  == tracker.stateIndexEntries
        frames   == tracker.pathFrames
        onPath   == {entries[Path!End(frames[k])] :
                       k \in {j \in 1..Len(frames) - 1 : frames[j].count > 0}}
        waiting  == Range(entries) \ onPath
    IN  /\ IsInjective(entries)
        /\ waiting \cap Expanded = {}
        /\ \A g, h \in handled : g.source = h.source => g = h
        /\ {n \in Indexes : contents[n + 1] # Stuttering} = waiting \cup Expanded

\* A traversal that finishes has stored exactly the reachable states and has
\* given the modifiers all transitions of each of them.
FinishedIsComplete ==
  status = "finished" =>
    /\ Stored \ {Stuttering} = Reachable
    /\ {contents[n + 1] : n \in Expanded} = Reachable
    /\ \A h \in handled :
         LET from == IF h.source = NoSource THEN model.initial
                     ELSE model.next[contents[h.source + 1]]
         IN  [m \in 1..Len(h.targets) |-> contents[h.targets[m] + 1]]
               = [m \in 1..Len(from) |-> from[m].target]

\* What checkReachabilityInExecutableModel answers: a transition whose label
\* satisfies the formula is reachable.
LabelReachable ==
  \E tr \in Range(model.initial)
              \cup UNION {Range(model.next[s]) : s \in Reachable} : tr.label

\* It never answers TRUE without a witness, and FALSE only after a traversal
\* of the whole model, or when it was cancelled from outside.
ReachabilityIsCorrect ==
  /\ reached => LabelReachable /\ canceled
  /\ status = "finished" => reached = LabelReachable

\* The last states of the frames on the stack, of which path_tracker.h:51-52
\* makes the counterexample, are a path of the model from an initial state to
\* the state the traversal would have expanded next.
LastStatesFormPath ==
  status = "stopped" =>
    LET frames == tracker.pathFrames
        state(k) == contents[tracker.stateIndexEntries[Path!End(frames[k])] + 1]
    IN  \A k \in 1..Len(frames) :
          IF k = 1 THEN state(k) \in Targets(model.initial)
          ELSE state(k) \in Targets(model.next[state(k - 1)])

\* Every traversal ends, also on a model with cycles and without cancellation.
TraversalEnds == <>(status \in {"finished", "stopped", "thrown"})
=============================================================================
