-------------------------- MODULE LmcModelChecker --------------------------
(***************************************************************************)
(* pemc::LmcModelChecker (src/pemc/lmc/lmc_model_checker.cc): value        *)
(* iteration for bounded until on the chain that Lmc builds.  A            *)
(* probability is an integer number of units: every transition weighs a    *)
(* multiple of One's root Weight, so that products are exact.              *)
(***************************************************************************)
EXTENDS Lmc, Formula

CONSTANTS
  Weight,         \* the weights of the transitions of one source add up to it
  MaxBound,       \* bound: the largest bound of a formula that is checked
  Formulas        \* the formulas given to calculateProbability

\* A chain also has the formulas given to buildLmcFromExecutableModel, and a
\* transition the valuation of its target, which its label comes from.
ASSUME CheckerAssumption ==
  /\ Weight \in Nat \ {0} /\ MaxBound \in Nat /\ One = Weight ^ (MaxBound + 1)
  /\ \A c \in Chains : \A s \in DOMAIN c.from : \A tr \in Range(c.from[s]) :
       /\ tr.label = LabelOf(c.formulas, tr.valuation)
       /\ \E weight \in 0..Weight : tr.probability = weight * Weight ^ MaxBound
  /\ \A f \in Formulas :
       /\ PhiUntilPsi(f).bound \in NoBound..MaxBound
       /\ f.kind = "boundedBinary" => f.left # NoFormula

\* What ^ is, said because the provers know nothing of powers.
ASSUME PowerAssumption ==
  /\ Weight ^ 0 = 1
  /\ \A n \in 0..MaxBound : Weight ^ (n + 1) = Weight * Weight ^ n

VARIABLES
  formula,          \* formulaToCheck
  checking,         \* where calculateProbability is
  precalculations,  \* of each transition
  xold, xnew,       \* the probability vectors
  i,                \* iterations done
  result

checker == <<formula, checking, precalculations, xold, xnew, i, result>>
allVars == <<vars, checker>>

NoResult == -1
Error    == -2    \* Probability::Error()

\* setLabelIdentifier
IdentifiersOf(formulas) == [k \in 1..Len(formulas) |-> formulas[k].id]

labelIdentifier == IdentifiersOf(chain.formulas)

CheckerIdle ==
  /\ formula = NoFormula
  /\ checking = "idle"
  /\ precalculations = <<>> /\ xold = <<>> /\ xnew = <<>>
  /\ i = 0
  /\ result = NoResult

CheckerInit == Init /\ CheckerIdle

States == 0..stateCount - 1
Phi    == PhiUntilPsi(formula).phi
Psi    == PhiUntilPsi(formula).psi
Bound  == PhiUntilPsi(formula).bound

\* The product of two probabilities in units.
Times(p, q) == (p * q) \div One

-----------------------------------------------------------------------------
\* calculateProbability up to the call of calculateBoundedUntil.
CalculateProbability(f) ==
  /\ stateCount > 0 /\ checking = "idle"
  /\ formula' = f
  /\ IF PhiUntilPsi(f) = NoMatch
     THEN checking' = "checked" /\ result' = Error
     ELSE /\ checking' = IF PhiUntilPsi(f).bound = NoBound THEN "thrown"
                         ELSE "precalculate"
          /\ UNCHANGED result
  /\ UNCHANGED <<vars, precalculations, xold, xnew, i>>

\* Both evaluators are compiled from psi; without a phi nothing is excluded.
PsiHolds(t) == EvaluateOnLabel(labelIdentifier, Psi, transitions[t].label)
PhiHolds(t) == Phi # NoFormula /\ PsiHolds(t)

Precalculated(t) ==
  IF PsiHolds(t) THEN "Satisfied" ELSE IF PhiHolds(t) THEN "Excluded" ELSE "Nothing"

\* precalculateDirectSatisfactionAndExclusion, and the vectors are created.
Precalculate ==
  /\ checking = "precalculate"
  /\ IF Compiles(labelIdentifier, Psi)
     THEN /\ checking' = "iterate"
          /\ precalculations' = [t \in DOMAIN transitions |-> Precalculated(t)]
          /\ xold' = [s \in States |-> 0] /\ xnew' = [s \in States |-> 0]
     ELSE /\ checking' = "thrown"
          /\ UNCHANGED <<precalculations, xold, xnew>>
  /\ UNCHANGED <<vars, formula, i, result>>

\* The share of one transition in the sum over the transitions of a source.
Share(t, x) ==
  CASE precalculations[t] = "Satisfied" -> transitions[t].probability
    [] precalculations[t] = "Excluded"  -> 0
    [] OTHER -> Times(transitions[t].probability, x[transitions[t].state])

WeightedSum(s, x) ==
  SumOf([k \in 1..range[s].elements |-> Share(range[s].from + k - 1, x)])

\* Slip: one vector is read and written.
IterateInPlace ==
  LET x[s \in -1..stateCount - 1] ==
        IF s = -1 THEN xold
        ELSE [x[s - 1] EXCEPT ![s] = WeightedSum(s, x[s - 1])]
  IN  /\ checking = "iterate" /\ i < Bound
      /\ xold' = x[stateCount - 1]
      /\ xnew' = xold
      /\ i' = i + 1
      /\ UNCHANGED <<vars, formula, checking, precalculations, result>>

\* calculateIteration, after which the vectors are swapped.
Iterate ==
  /\ checking = "iterate" /\ i < Bound
  /\ xold' = [s \in States |-> WeightedSum(s, xold)]
  /\ xnew' = xold
  /\ i' = i + 1
  /\ UNCHANGED <<vars, formula, checking, precalculations, result>>

\* Slip: the vectors are swapped once too often.
FinishWithOther ==
  /\ checking = "iterate" /\ i >= Bound
  /\ result' = WeightedSum(NoSource, xnew)
  /\ checking' = "checked"
  /\ UNCHANGED <<vars, formula, precalculations, xold, xnew, i>>

\* calculateInitialProbability
Finish ==
  /\ checking = "iterate" /\ i >= Bound
  /\ result' = WeightedSum(NoSource, xold)
  /\ checking' = "checked"
  /\ UNCHANGED <<vars, formula, precalculations, xold, xnew, i>>

Check == (\E f \in Formulas : CalculateProbability(f)) \/ Precalculate \/ Iterate \/ Finish

CheckerNext == (Next /\ UNCHANGED checker) \/ Check

CheckerSpec == CheckerInit /\ [][CheckerNext]_allVars

-----------------------------------------------------------------------------
\* What the chain c goes through: its sources and its stuttering state.
Places(c) == DOMAIN c.from \cup ({c.stuttering} \ {NoStuttering})

GivenOrLoop(c, s) ==
  IF s \in DOMAIN c.from THEN c.from[s]
  ELSE << [probability |-> One, label |-> c.noLabels, targetStateIndex |-> s,
           valuation |-> c.noValuation] >>

\* The paths of a chain with n transitions that begin in each place, each as a
\* sequence of transitions, in a sequence so that equal ones count twice.
Extended(tr, tails) == [k \in 1..Len(tails) |-> <<tr>> \o tails[k]]

PathsOf(c, n) ==
  LET paths[m \in Nat] ==
        IF m = 0 THEN [s \in Places(c) |-> << <<>> >>]
        ELSE LET tails == paths[m - 1]
                 first(s) == GivenOrLoop(c, s)
             IN  [s \in Places(c) |->
                    FlattenSeq([k \in 1..Len(first(s)) |->
                      Extended(first(s)[k], tails[first(s)[k].targetStateIndex])])]
  IN  paths[n]

\* A transition's probability in units of 1 / Weight, and the product of those
\* on a path.
WeightOf(tr) == (tr.probability * Weight) \div One

PathWeight(path) ==
  LET product[n \in 0..Len(path)] ==
        IF n = 0 THEN 1 ELSE product[n - 1] * WeightOf(path[n])
  IN  product[Len(path)]

ValuationsOn(path) == [n \in 1..Len(path) |-> path[n].valuation]

\* The probability that the formula holds on a path with so many transitions.
ProbabilityOf(c, f, s, length) ==
  LET paths == PathsOf(c, length)[s]
      weighed == [k \in 1..Len(paths) |->
                    IF MeansAlong(f, ValuationsOn(paths[k])) THEN PathWeight(paths[k]) ELSE 0]
  IN  SumOf(weighed) * Weight ^ (MaxBound + 1 - length)

\* What can be looked up on the labels of the chain c about a formula that is
\* to hold finally is what the formula means, on the stuttering state as well.
LabelsSay(c, f) ==
  LET psi == PhiUntilPsi(f).psi
      ids == IdentifiersOf(c.formulas)
  IN  PhiUntilPsi(f).phi = NoFormula /\ PhiUntilPsi(f).bound # NoBound /\ Compiles(ids, psi) =>
        \A s \in Places(c) : \A tr \in Range(GivenOrLoop(c, s)) :
          EvaluateOnLabel(ids, psi, tr.label) = Means(psi, tr.valuation)

\* The labels of the chain c were calculated from formulas of U, that of the
\* stuttering state as well.
LabelledWith(c, U) ==
  /\ c.formulas \in Seq(U)
  /\ \A s \in Places(c) : \A tr \in Range(GivenOrLoop(c, s)) : Valued(U, tr.valuation)
  /\ c.stuttering # NoStuttering => c.noLabels = LabelOf(c.formulas, c.noValuation)

\* What the formula f asks for to hold finally is one of U, or does not compile.
AsksFor(c, f, U) ==
  LET psi == PhiUntilPsi(f).psi
  IN  PhiUntilPsi(f).phi = NoFormula /\ PhiUntilPsi(f).bound # NoBound =>
        psi \in U \/ ~Compiles(IdentifiersOf(c.formulas), psi)

\* After n rounds xold is the probability to satisfy psi within n transitions
\* of a state: neither the layout of the array nor the swapped vectors matter.
IterationIsExact ==
  checking = "iterate" /\ Phi = NoFormula =>
    \A s \in States : xold[s] = ProbabilityOf(chain, formula, s, i)

\* The answer for "finally psi within the bound" is the probability of the
\* paths of the model whose states satisfy psi, the initial states included:
\* through the labels, the array, the extraction of psi and of the bound, the
\* label lookup and the iteration.
ResultIsProbability ==
  checking = "checked" /\ result # Error /\ Phi = NoFormula =>
    result = ProbabilityOf(chain, formula, NoSource, Bound + 1)

\* "Precalculate transitions that are directly satisfied or excluded."
\* (lmc_model_checker.cc:101): a transition on which neither phi nor psi holds
\* is excluded, so that paths through it do not count for "phi until psi".
ExcludesDirectly ==
  checking = "iterate" /\ Phi # NoFormula =>
    \A t \in DOMAIN transitions :
      LET holds(f) == EvaluateOnLabel(labelIdentifier, f, transitions[t].label)
      IN  ~holds(Phi) /\ ~holds(Psi) => precalculations[t] = "Excluded"

\* What formulaToString prints "->" for (formula_to_string_visitor.cc:98-99) is
\* evaluated as an implication, on the states and on the labels.
EvaluatesAsPrinted ==
  checking \in {"iterate", "checked"} /\ Compiles(labelIdentifier, Psi) =>
    \A s \in handled : \A tr \in Range(Given(s)) :
      EvaluateOnLabel(labelIdentifier, Psi, tr.label) = Means(Psi, tr.valuation)
=============================================================================
