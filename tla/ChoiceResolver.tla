--------------------------- MODULE ChoiceResolver ---------------------------
(***************************************************************************)
(* pemc::LmcChoiceResolver (src/pemc/lmc_traverser/lmc_choice_resolver.cc) *)
(* and pemc::ReachabilityChoiceResolver, its copy without probabilities.   *)
(* The resolver makes a model's step run once for every combination of the *)
(* choices the step asks for: it remembers the choices of the last run in  *)
(* a stack and turns the last one that has an option left.                 *)
(*                                                                         *)
(* A probability is an integer number of units: One units are the          *)
(* probability 1, and every option weighs a multiple of One's root.        *)
(***************************************************************************)
EXTENDS Sums, SequencesExt

CONSTANTS
  Weight,    \* the weights of the options of one choice add up to Weight
  MaxDepth   \* bound: how many choices a step asks for

ASSUME ResolverAssumption ==
  /\ Weight \in Nat \ {0}
  /\ MaxDepth \in Nat

VARIABLES
  withProbabilities,          \* TRUE: LmcChoiceResolver, FALSE: ReachabilityChoiceResolver
  choiceStack,                \* the choices of the current or the last run
  choiceDepth,                \* index in it of the last choice made, or -1
  firstExecutionOfMacroStep,
  probabilities               \* the probability of each finished run

resolver == <<withProbabilities, choiceStack, choiceDepth,
              firstExecutionOfMacroStep, probabilities>>

One == Weight ^ MaxDepth

\* What ^ is, said because the provers know nothing of powers.
ASSUME PowerAssumption ==
  /\ Weight ^ 0 = 1
  /\ \A n \in 0..MaxDepth - 1 : Weight ^ (n + 1) = Weight * Weight ^ n

\* The product of an option's probability and another one.
Times(weight, probability) == IF withProbabilities THEN (weight * probability) \div Weight
                              ELSE probability

ResolverInit ==
  /\ withProbabilities \in BOOLEAN
  /\ choiceStack = <<>>
  /\ choiceDepth = -1
  /\ firstExecutionOfMacroStep = FALSE
  /\ probabilities = <<>>

BeginMacroStepExecution ==
  /\ firstExecutionOfMacroStep' = TRUE
  /\ probabilities' = <<>>
  /\ UNCHANGED <<withProbabilities, choiceStack, choiceDepth>>

\* prepareNextPath's assertion "Something strange occured somewhere".
PrepareAsserts == choiceDepth # Len(choiceStack) - 1

\* Slip: the last option of a choice is never taken.
HasNextOptionButOne(entry) == entry.noOfOptions > entry.currentOption + 2

HasNextOption(entry) == entry.noOfOptions > entry.currentOption + 1

\* Entries without another option are popped; the next one is turned.
Turned ==
  LET open == {k \in 1..Len(choiceStack) : HasNextOption(choiceStack[k])}
      k    == Max(open)
  IN  IF open = {} THEN <<>>
      ELSE [SubSeq(choiceStack, 1, k) EXCEPT ![k].currentOption = @ + 1]

PrepareFirstPath ==
  /\ firstExecutionOfMacroStep
  /\ choiceDepth' = -1
  /\ firstExecutionOfMacroStep' = FALSE
  /\ UNCHANGED <<withProbabilities, choiceStack, probabilities>>

\* Slip: the depth is not reset.
PrepareAtOldDepth ==
  /\ ~firstExecutionOfMacroStep
  /\ choiceStack' = Turned
  /\ UNCHANGED <<withProbabilities, choiceDepth, firstExecutionOfMacroStep, probabilities>>

\* prepareNextPath returns choiceStack' # <<>>.
PrepareAnotherPath ==
  /\ ~firstExecutionOfMacroStep
  /\ choiceDepth' = -1
  /\ choiceStack' = Turned
  /\ UNCHANGED <<withProbabilities, firstExecutionOfMacroStep, probabilities>>

PreviousProbability ==
  IF choiceDepth >= 0 /\ Len(choiceStack) >= choiceDepth + 1
  THEN choiceStack[choiceDepth + 1].probability ELSE One

\* The option that a run made before, at the same place, takes now.
ReplayedOption == choiceStack[choiceDepth + 2].currentOption

\* Slip: the probability of the turned option is not calculated anew.
ChooseAgainWithOldProbability(weights) ==
  /\ choiceDepth + 1 < Len(choiceStack)
  /\ choiceDepth' = choiceDepth + 1
  /\ UNCHANGED <<withProbabilities, choiceStack, firstExecutionOfMacroStep, probabilities>>

\* choose: an entry of the stack is replayed; only the last one was turned.
ChooseAgain(weights) ==
  LET n == choiceDepth + 2 IN
  /\ choiceDepth + 1 < Len(choiceStack)
  /\ choiceDepth' = choiceDepth + 1
  /\ choiceStack' =
       IF n = Len(choiceStack)
       THEN [choiceStack EXCEPT ![n].probability =
               Times(weights[ReplayedOption + 1], PreviousProbability)]
       ELSE choiceStack
  /\ UNCHANGED <<withProbabilities, firstExecutionOfMacroStep, probabilities>>

\* choose: the first option of a choice that is met for the first time.
ChooseFirst(weights) ==
  /\ choiceDepth + 1 >= Len(choiceStack)
  /\ choiceDepth' = choiceDepth + 1
  /\ choiceStack' =
       Append(choiceStack,
              [probability   |-> Times(weights[1], PreviousProbability),
               currentOption |-> 0,
               noOfOptions   |-> Len(weights)])
  /\ UNCHANGED <<withProbabilities, firstExecutionOfMacroStep, probabilities>>

StepFinished ==
  /\ probabilities' =
       IF ~withProbabilities THEN probabilities
       ELSE Append(probabilities,
                   IF choiceStack = <<>> THEN One ELSE Last(choiceStack).probability)
  /\ UNCHANGED <<withProbabilities, choiceStack, choiceDepth, firstExecutionOfMacroStep>>

\* getCustomPayloadOfLastCalculation; a null pointer without probabilities.
CustomPayload == IF withProbabilities THEN probabilities ELSE <<>>
=============================================================================
