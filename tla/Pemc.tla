-------------------------------- MODULE Pemc --------------------------------
(***************************************************************************)
(* pemc::Pemc (src/pemc/pemc.cc), the facade that composes the components: *)
(* a client's program, in C++, C or Python, is checked for reachability,   *)
(* built into a chain by a traversal whose only worker hands every state's *)
(* transitions to the chain, and the chain is asked for probabilities.     *)
(* The traversal is GenericTraverser, the chain Lmc, the calculation       *)
(* LmcModelChecker, each with its own actions; what the executor returns   *)
(* for a state is the list ModelExecutor promises: one transition for each *)
(* path of choices, in lexicographic order.                                *)
(***************************************************************************)
EXTENDS LmcModelChecker

CONSTANTS
  ProgramStates,     \* the states of the programs
  Programs,          \* the programs the client has
  Configurations,    \* the capacities it configures
  MaximalStates,     \* the largest of its capacities for states
  MaximalSearchDepth,
  Debug,             \* TRUE: a build with DEBUG
  NoState,           \* no state of a program
  worker,            \* the only worker of a traversal
  ChooseMaxOptions,  \* CHOOSE_MAX_OPTIONS of the Python module
  MaxLabels          \* the formulas that a label has bits for

Languages == {"cpp", "c", "python", "test"}

\* A program is its reset state, the options its step chooses from in each
\* state, the states in which the step raises an exception before it chooses,
\* the options after which it raises one, what its adapted formulas evaluate to, the formulas it builds a chain with,
\* and those it asks about.  The choices of the C interface are uniform, its
\* formulas are adapted ones, and a Python class has one of them.
ASSUME ProgramAssumption ==
  /\ IsFiniteSet(ProgramStates) /\ NoState \notin ProgramStates
  /\ \A p \in Programs :
       /\ p.language \in Languages
       /\ p.reset \in ProgramStates
       /\ p.options \in [ProgramStates -> Seq([weight : 1..Weight, target : ProgramStates])]
       /\ \A s \in ProgramStates :
            Weight = SumOf([k \in 1..Len(p.options[s]) |-> p.options[s][k].weight])
       /\ p.formulas \in Seq(Range(p.formulas))
       /\ p.raising \subseteq ProgramStates /\ p.raisingAfter \subseteq ProgramStates \X Nat
       /\ p.valuation \in [ProgramStates -> [p.ids -> {"true", "false", "raises"}]]
       /\ p.language \in {"c", "python"} =>
            /\ \A f \in Range(p.formulas) \cup p.asked : f \in {Adapted(id) : id \in p.ids}
            /\ \A s \in ProgramStates : \A o \in Range(p.options[s]) :
                 o.weight * Len(p.options[s]) = Weight
       /\ p.language = "python" => Len(p.formulas) = 1 /\ p.asked = Range(p.formulas)
  /\ \A c \in Configurations :
       c.states \in 1..MaximalStates /\ {c.targets, c.successors} \subseteq Nat
  /\ worker \in Threads /\ Debug \in BOOLEAN
  /\ {MaximalStates, MaximalSearchDepth, MaxLabels} \subseteq Nat

\* The chain has room for the indexes of the storage, and an entry of its array
\* that is not set is told from every entry that is.
ASSUME ArrayAssumption ==
  /\ 0..MaximalStates - 1 \subseteq StateIndexes
  /\ NoEntry \notin [probability : Nat, label : Seq(BOOLEAN), state : Nat]

VARIABLES
  program, conf, psi,        \* what the client calls with; they never change
  call,                      \* the function that runs
  status, contents, tracker, \* the traversal of that call
  expanded,                  \*   what its modifiers were given
  reached, canceled,         \*   the flag and the token of a check
  verdict,                   \* what the check returned
  answers                    \* what the calculations for bounds 0, 1, ... returned

client == <<program, conf, psi>>
traversal == <<status, contents, tracker, expanded, reached, canceled>>
pemc == <<allVars, client, call, traversal, verdict, answers>>

-----------------------------------------------------------------------------
(***************************************************************************)
(* What the model classes of each language make of a step and a formula.   *)
(***************************************************************************)
Whole(s) == << [weight |-> Weight, target |-> s] >>

\* choose raises when it is given too many options.
ChooseRaises(options) == Len(options) > ChooseMaxOptions

Chosen(p, s) ==
  IF s \in p.raising \/ ChooseRaises(p.options[s]) THEN Whole(s) ELSE p.options[s]

\* A Python exception is printed, and the instance stays in its state: before it
\* chooses, that is all of the step, after that, it is the share of an option.
PythonStep(p, s) ==
  [k \in 1..Len(Chosen(p, s)) |->
     IF <<s, k>> \in p.raisingAfter THEN [Chosen(p, s)[k] EXCEPT !.target = s]
     ELSE Chosen(p, s)[k]]

\* The transitions of a state: one for each option.
StepOf(p, s) == IF p.language = "python" THEN PythonStep(p, s) ELSE p.options[s]

\* A C++ exception leaves the executor, and so does the temporary storage's.
StepThrows(p, s) ==
  \/ /\ p.language \in {"cpp", "test"}
     /\ s \in p.raising \/ \E k \in 1..Len(p.options[s]) : <<s, k>> \in p.raisingAfter
  \/ Len(StepOf(p, s)) > conf.successors

\* A Python formula that raises is printed and false.
Valuation(p, s) == [id \in DOMAIN p.valuation[s] |-> p.valuation[s][id] = "true"]

\* The C++ and the C visitor have a member result of their own, which hides the
\* one in which their base class composes: the evaluator set last comes out.
LastAdapted(p, f, s) == Valuation(p, s)[LastVisited(f).id]

Evaluates(p, f, s) ==
  IF p.language = "test" THEN EvaluateOnState(f, Valuation(p, s)) ELSE LastAdapted(p, f, s)

LabelAt(p, s) == [k \in 1..Len(p.formulas) |-> Evaluates(p, p.formulas[k], s)]

\* Only the modifier of a check looks at the label of its one formula.
TransitionsTo(p, s) ==
  [k \in 1..Len(StepOf(p, s)) |->
     [target |-> StepOf(p, s)[k].target,
      label  |-> call = "check" /\ Evaluates(p, psi, StepOf(p, s)[k].target)]]

TraversedModel ==
  [initial |-> TransitionsTo(program, program.reset),
   next    |-> [s \in ProgramStates |-> TransitionsTo(program, s)],
   createStutteringState |-> FALSE,
   room    |-> conf.states]

Traverser == INSTANCE GenericTraverser
  WITH States <- ProgramStates, Stuttering <- NoState, Models <- {}, handled <- expanded,
       model <- TraversedModel

-----------------------------------------------------------------------------
EmptyChain(p) ==
  [from |-> [s \in {} |-> <<>>], stuttering |-> NoStuttering, formulas |-> p.formulas]

PemcInit ==
  /\ program \in Programs /\ conf \in Configurations
  /\ psi \in program.asked
  /\ call = "check"
  /\ status = "created" /\ contents = <<>> /\ tracker = Traverser!Path!EmptyTracker
  /\ expanded = {} /\ reached = FALSE /\ canceled = FALSE
  /\ verdict = "none" /\ answers = <<>>
  /\ chain = EmptyChain(program)
  /\ maxNumberOfTransitions = conf.targets
  /\ transitionCount = 0
  /\ transitions = [k \in 0..maxNumberOfTransitions - 1 |-> NoEntry]
  /\ range = [s \in Sources |-> NoRange]
  /\ stateCount = 0
  /\ pc = [t \in Threads |-> "idle"] /\ source = [t \in Threads |-> NoSource]
  /\ location = [t \in Threads |-> 0] /\ written = [t \in Threads |-> 0]
  /\ handled = {} /\ aborted = FALSE
  /\ CheckerIdle

\* What the executor is asked for next, unless the traversal is over.
Due == IF status = "created" THEN program.reset
       ELSE contents[Traverser!Path!Topmost(Traverser!Settled) + 1]

Calculates ==
  \/ status = "created"
  \/ status = "traversing" /\ ~canceled /\ Traverser!Settled.pathFrames # <<>>

CompiledFormulas == IF call = "check" THEN {psi} ELSE Range(program.formulas)

\* A label is refused when there are more formulas than it has bits.
TooManyLabels == call = "build" /\ Len(program.formulas) > MaxLabels

CalculationThrows ==
  Calculates /\ (\/ StepThrows(program, Due) \/ TooManyLabels
                 \/ \E f \in CompiledFormulas : ~CompilesOnState(f))

\* The post-storage modifier gets the transitions with the resolver's payload.
Unit == One \div Weight

\* Slip: the label is the one of the state that the step leaves.
GivenWithOldLabel(h) ==
  LET from == IF h.source = NoSource THEN program.reset ELSE contents[h.source + 1]
      step == StepOf(program, from)
  IN  [k \in 1..Len(h.targets) |->
         [probability |-> step[k].weight * Unit, targetStateIndex |-> h.targets[k],
          label |-> LabelAt(program, from)]]

GivenTo(h) ==
  LET step == StepOf(program, IF h.source = NoSource THEN program.reset
                              ELSE contents[h.source + 1])
  IN  [k \in 1..Len(h.targets) |->
         [probability |-> step[k].weight * Unit, targetStateIndex |-> h.targets[k],
          label |-> LabelAt(program, step[k].target)]]

GivenToModifier ==
  [s \in {h.source : h \in expanded} |-> GivenTo(CHOOSE h \in expanded : h.source = s)]

ModifierReturned == call = "build" => handled = DOMAIN chain.from

\* One step of the traversal: a state is expanded, or it finishes or stops.
Traverse ==
  /\ call \in {"check", "build"} /\ ModifierReturned /\ ~CalculationThrows
  /\ UNCHANGED <<lmc, pc, source, location, written, handled, aborted, checker,
                 client, call, verdict, answers>>
  /\ Traverser!Worker
  /\ chain' = IF call = "build" THEN [chain EXCEPT !.from = GivenToModifier'] ELSE chain

Throw ==
  /\ call \in {"check", "build"} /\ ModifierReturned /\ CalculationThrows
  /\ status' = "thrown"
  /\ UNCHANGED <<allVars, client, call, contents, tracker, expanded, reached,
                 canceled, verdict, answers>>

\* In a build, the worker's modifier adds what was expanded to the chain.
AddTransitions ==
  /\ call = "build"
  /\ Worker(worker)
  /\ UNCHANGED <<checker, client, call, traversal, verdict, answers>>

\* Slip: a traversal that was cancelled is waited for.
HasFinished == status \in {"finished", "thrown"}

HasReturned == status \in {"finished", "stopped", "thrown"}

\* No exception crosses the C interface: it terminates the client.
Terminates == program.language \in {"c", "python"} /\ status = "thrown"

\* checkReachabilityInExecutableModel returns; the next call is a build.
ReturnVerdict ==
  /\ call = "check" /\ HasReturned
  /\ verdict' = IF status = "thrown" THEN "exception"
                ELSE IF reached THEN "reached" ELSE "unreached"
  /\ call' = IF Terminates THEN "none" ELSE "build"
  /\ status' = "created" /\ contents' = <<>> /\ tracker' = Traverser!Path!EmptyTracker
  /\ expanded' = {} /\ reached' = FALSE /\ canceled' = FALSE
  /\ UNCHANGED <<allVars, client, answers>>

\* buildLmcFromExecutableModel returns the chain ...
ReturnChain ==
  /\ call = "build" /\ status = "finished"
  /\ FinishCreation
  /\ call' = "calculate"
  /\ UNCHANGED <<checker, client, traversal, verdict, answers>>

\* ... or an exception of the traversal or of the chain leaves it; so does one
\* of the model checker, whose client asks for no further bound.
CallThrows ==
  /\ \/ call = "build" /\ (status = "thrown" \/ pc[worker] = "thrown")
     \/ call = "calculate" /\ checking = "thrown"
  /\ call' = "none"
  /\ UNCHANGED <<allVars, client, traversal, verdict, answers>>

\* calculateProbabilityToReachStateWithinBound, for one bound after another.
Calculate ==
  /\ call = "calculate" /\ Len(answers) <= MaxBound
  /\ \/ CalculateProbability(BoundedUnary("Finally", psi, Len(answers)))
     \/ Precalculate \/ Iterate \/ Finish
  /\ UNCHANGED <<client, call, traversal, verdict, answers>>

ReturnProbability ==
  /\ checking = "checked"
  /\ answers' = Append(answers, result)
  /\ call' = IF Len(answers') > MaxBound THEN "none" ELSE call
  /\ formula' = NoFormula /\ checking' = "idle"
  /\ precalculations' = <<>> /\ xold' = <<>> /\ xnew' = <<>> /\ i' = 0
  /\ result' = NoResult
  /\ UNCHANGED <<vars, client, traversal, verdict>>

PemcNext ==
  \/ Traverse \/ Throw \/ AddTransitions \/ ReturnVerdict \/ ReturnChain \/ CallThrows
  \/ Calculate \/ ReturnProbability

\* The client makes its calls and their thread runs.
PemcSpec == PemcInit /\ [][PemcNext]_pemc /\ WF_pemc(PemcNext)

-----------------------------------------------------------------------------
\* Calls and traversals are where they can be, and what is stored and returned
\* keeps to its domain.
PemcTypeOK ==
  /\ call \in {"check", "build", "calculate", "none"}
  /\ status \in {"created", "traversing", "finished", "stopped", "thrown"}
  /\ contents \in Seq(ProgramStates) /\ Len(contents) <= conf.states
  /\ verdict \in {"none", "reached", "unreached", "exception"}
  /\ \A b \in 1..Len(answers) : answers[b] \in 0..One

\* The states a program visits after its reset state's first step.
Visited ==
  LET targets(s) == {o.target : o \in Range(StepOf(program, s))}
      more(set)  == set \cup UNION {targets(s) : s \in set}
      after[n \in Nat] == IF n = 0 THEN targets(program.reset) ELSE more(after[n - 1])
  IN  after[Cardinality(ProgramStates)]

Meant(f, s) == Means(f, Valuation(program, s))

\* A program asks for formulas on its states, no two of one identifier; what
\* it labels its chain with are such formulas too, or does not compile.
FormulasOf(p) ==
  LET given == p.asked \cup {f \in Range(p.formulas) : CompilesOnState(f)}
  IN  given \cup UNION {Parts(f) : f \in given}

\* The programs for which finding a label is finding what it means: theirs are
\* not the composite formulas that only the model of the tests evaluates.
AsksPlainly(p) ==
  /\ StateFormulas(FormulasOf(p)) /\ Unambiguous(FormulasOf(p))
  /\ \A g \in FormulasOf(p) :
       IF g.kind = "adapted" THEN g.id \in p.ids ELSE p.language = "test"

\* A chain that is returned is the program: its states are the states the
\* program visits, each once, and their transitions are the options of the
\* program's step in that state with their weights and labels.  No capacity
\* that is reached and no exception leads to a chain with states missing.
ChainIsProgram ==
  stateCount > 0 =>
    /\ IsInjective(contents) /\ Range(contents) = Visited
    /\ stateCount = Len(contents)
    /\ \A n \in DOMAIN range :
         LET step == StepOf(program, IF n = NoSource THEN program.reset ELSE contents[n + 1])
         IN  /\ range[n].elements = Len(step)
             /\ \A k \in 1..Len(step) :
                  LET entry == TransitionsOf(n)[k]
                  IN  /\ contents[entry.state + 1] = step[k].target
                      /\ entry.probability = step[k].weight * Unit
                      /\ \A m \in 1..Len(program.formulas) :
                           entry.label[m] = Meant(program.formulas[m], step[k].target)
    /\ Validates

\* The probability that psi holds within n steps, by recursion on the program.
ProbabilityWithin(n) ==
  LET share(o, x) ==
        o.weight * (IF Meant(psi, o.target) THEN Unit ELSE x[o.target] \div Weight)
      within[m \in 0..n] ==
        [s \in ProgramStates |->
           IF m = 0 THEN 0
           ELSE SumOf([k \in 1..Len(StepOf(program, s)) |->
                         share(StepOf(program, s)[k], within[m - 1])])]
  IN  within[n][program.reset]

\* From the program to the number, through the language's adapter, the
\* traversal, the chain, the label lookup and the iteration: the answer for a
\* bound is the probability that the program satisfies psi within bound + 1
\* steps, the first of which is the initial one.
AnswersAreProbabilities ==
  \A b \in 1..Len(answers) : answers[b] = ProbabilityWithin(b)

\* The two ways to ask agree: a state that the check finds reachable has a
\* probability above zero within as many steps as there are states, and one
\* that it does not find has none.
VerdictsAgree ==
  \A b \in 1..Len(answers) :
    /\ verdict = "reached" /\ b >= Cardinality(Visited) => answers[b] > 0
    /\ verdict = "unreached" => answers[b] = 0

\* Every call returns or throws: no capacity, cycle, exception or cancellation
\* leaves the client waiting.
CallsReturn == <>(call = "none")

\* A label bit says what its formula means, by the symbols formulaToString
\* prints (formula_to_string_visitor.cc:64, 93-102).
LabelsMeanFormulas ==
  \A s \in handled : \A tr \in 1..Len(Given(s)) : \A m \in 1..Len(program.formulas) :
    Given(s)[tr].label[m]
      = Meant(program.formulas[m], contents[Given(s)[tr].targetStateIndex + 1])
=============================================================================
