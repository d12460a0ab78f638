--------------------------- MODULE ModelExecutor ---------------------------
(***************************************************************************)
(* pemc::ModelExecutor (src/pemc/executable_model/model_executor.cc) with  *)
(* its TemporaryStateStorage and a choice resolver: it calculates the      *)
(* transitions that leave a state by running the model's step for every    *)
(* path of choices.  A step is what the model does with one state: a       *)
(* function from the choices made so far to the weights of the options of  *)
(* the next choice, or to no weights where the step ends.  The path that   *)
(* led there stands for the target state and its label.                    *)
(***************************************************************************)
EXTENDS ChoiceResolver

CONSTANTS
  Steps,              \* the steps of the model, by source state
  SuccessorCapacity   \* the capacity of the temporary state storage

ASSUME ExecutorAssumption ==
  /\ SuccessorCapacity \in Nat
  /\ \A s \in Steps : \A path \in DOMAIN s :
       /\ path \in Seq(Nat) /\ s[path] \in Seq(0..Weight)
       /\ s[path] # <<>> =>
            Weight = SumOf(s[path]) /\ Len(path) < MaxDepth

VARIABLES
  phase,        \* where calculateTransitionsOfState is
  step,         \* what the model does with the deserialized state
  path,         \* the choices made in the current run of the step
  savedStates,  \* the counter of the temporary state storage
  transitions   \* the transitions found so far

vars == <<resolver, phase, step, path, savedStates, transitions>>

Ends(s, p) == p \in DOMAIN s => s[p] = <<>>

Init ==
  /\ ResolverInit
  /\ phase = "idle"
  /\ step \in Steps
  /\ path = <<>>
  /\ savedStates = 0
  /\ transitions = <<>>

\* calculateInitialTransitions or calculateTransitionsOfState is called.
Calculate ==
  /\ phase = "idle"
  /\ step' \in Steps
  /\ transitions' = <<>>
  /\ savedStates' = 0
  /\ BeginMacroStepExecution
  /\ phase' = "prepare"
  /\ UNCHANGED path

\* prepareNextPath; the state is deserialized again for another run.
FirstPath ==
  /\ phase = "prepare" /\ ~PrepareAsserts
  /\ PrepareFirstPath
  /\ path' = <<>>
  /\ phase' = "step"
  /\ UNCHANGED <<step, savedStates, transitions>>

AnotherPath ==
  /\ phase = "prepare" /\ ~PrepareAsserts
  /\ PrepareAnotherPath
  /\ path' = <<>>
  /\ phase' = IF choiceStack' # <<>> THEN "step" ELSE "calculated"
  /\ UNCHANGED <<step, savedStates, transitions>>

\* The model's step asks for a choice.
Replay ==
  /\ phase = "step" /\ ~Ends(step, path)
  /\ ChooseAgain(step[path])
  /\ path' = Append(path, ReplayedOption)
  /\ UNCHANGED <<phase, step, savedStates, transitions>>

Explore ==
  /\ phase = "step" /\ ~Ends(step, path)
  /\ ChooseFirst(step[path])
  /\ path' = Append(path, 0)
  /\ UNCHANGED <<phase, step, savedStates, transitions>>

\* Slip: the temporary storage does not check the index.
EndOfStepUnchecked ==
  /\ phase = "step" /\ Ends(step, path)
  /\ StepFinished
  /\ savedStates' = savedStates + 1
  /\ transitions' = Append(transitions, path)
  /\ phase' = "prepare"
  /\ UNCHANGED <<step, path>>

\* operator[] of the temporary storage throws for an index beyond its capacity.
HasPlace(index) == index < SuccessorCapacity

\* The step ends.  stepFinished comes before addTransition, whose access to
\* the temporary storage throws when there are too many successors.
EndOfStep ==
  /\ phase = "step" /\ Ends(step, path)
  /\ StepFinished
  /\ savedStates' = savedStates + 1
  /\ IF HasPlace(savedStates)
     THEN transitions' = Append(transitions, path) /\ phase' = "prepare"
     ELSE phase' = "thrown" /\ UNCHANGED transitions
  /\ UNCHANGED <<step, path>>

\* Slip: the next calculation starts before all paths were run.
HandOutEarly ==
  /\ phase \in {"prepare", "calculated"}
  /\ phase' = "idle"
  /\ UNCHANGED <<resolver, step, path, savedStates, transitions>>

\* The caller has taken the transitions; it may ask for those of another state.
HandOut ==
  /\ phase = "calculated"
  /\ phase' = "idle"
  /\ UNCHANGED <<resolver, step, path, savedStates, transitions>>

Run == FirstPath \/ AnotherPath \/ Replay \/ Explore \/ EndOfStep

Next == Calculate \/ Run \/ HandOut

Spec == Init /\ [][Next]_vars

\* The thread that calculates transitions runs; nothing obliges its caller.
FairSpec == Spec /\ WF_vars(Run)

-----------------------------------------------------------------------------
\* Every variable keeps to its domain, and the transitions to the capacity.
TypeOK ==
  /\ phase \in {"idle", "prepare", "step", "calculated", "thrown"}
  /\ choiceDepth \in -1..MaxDepth - 1
  /\ \A k \in 1..Len(choiceStack) :
       choiceStack[k] \in [probability : 0..One, currentOption : Nat, noOfOptions : Nat]
  /\ \A k \in 1..Len(probabilities) : probabilities[k] \in 0..One
  /\ path \in Seq(Nat) /\ Len(path) <= MaxDepth
  /\ savedStates \in 0..SuccessorCapacity + 1
  /\ Len(transitions) <= SuccessorCapacity

\* The complete paths of a step.
Leaves(s) ==
  LET reached == {<<>>} \cup UNION {{Append(p, k) : k \in 0..Len(s[p]) - 1} :
                                      p \in DOMAIN s}
      made(p) == \A n \in 1..Len(p) :
                   LET q == SubSeq(p, 1, n - 1)
                   IN  ~Ends(s, q) /\ p[n] < Len(s[q])
  IN  {p \in reached : made(p) /\ Ends(s, p)}

LexicallyBefore(p, q) ==
  \E n \in 1..Len(p) \cap 1..Len(q) :
    /\ SubSeq(p, 1, n - 1) = SubSeq(q, 1, n - 1)
    /\ p[n] < q[n]

\* Every combination of choices is run exactly once, in lexicographic order:
\* no path is skipped when an entry is turned and none is run again.
EnumeratesEveryPath ==
  /\ phase = "calculated" => Range(transitions) = Leaves(step)
  /\ \A m, n \in 1..Len(transitions) :
       m < n => LexicallyBefore(transitions[m], transitions[n])

Product(s, p) ==
  LET after[n \in 0..Len(p)] ==
        IF n = 0 THEN One
        ELSE (s[SubSeq(p, 1, n - 1)][p[n] + 1] * after[n - 1]) \div Weight
  IN  after[Len(p)]

\* The payload that the modifiers read beside the transitions: entry k is the
\* probability of the path of transition k, although the resolver calculates
\* only the last entry of the stack anew, and together they are One.
PayloadIsDistribution ==
  withProbabilities /\ phase = "calculated" =>
    /\ Len(CustomPayload) = Len(transitions)
    /\ \A k \in 1..Len(transitions) : CustomPayload[k] = Product(step, transitions[k])
    /\ SumOf(CustomPayload) = One

\* prepareNextPath's assertion never fails for a model whose step depends on
\* its state and its choices only, also when the executor is used again.
NothingStrangeOccurs == phase = "prepare" => ~PrepareAsserts

\* Every calculation ends.
CalculationEnds == phase = "prepare" ~> phase \in {"calculated", "thrown"}
=============================================================================
