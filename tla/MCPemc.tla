------------------------------- MODULE MCPemc -------------------------------
(***************************************************************************)
(* The dice and small programs for Pemc: a third state that is absorbing,  *)
(* states without a way there, options that lead to the same state.        *)
(***************************************************************************)
EXTENDS Dice

Option(weight, target) == [weight |-> weight, target |-> target]

One4 == 4 ^ 6

Abc == {1, 2, 3}

Bit(b) == IF b THEN "true" ELSE "false"

Program(language, a, b, raising, F, raises, formulas, asked) ==
  [language |-> language, reset |-> 1, formulas |-> formulas,
   raising |-> raising.before, raisingAfter |-> raising.after,
   asked |-> asked, ids |-> {"f1", "f2"},
   options |-> [s \in DiceStates |-> IF s = 1 THEN a ELSE IF s = 2 THEN b ELSE Whole(s)],
   valuation |-> [s \in DiceStates |->
     [f1 |-> IF s \in raises THEN "raises" ELSE Bit(s \in F), f2 |-> Bit(s = 3)]]]

Uniform == {Whole(s) : s \in Abc} \cup {Coin(s, t) : s, t \in Abc}
Weighted == {<<Option(1, 1), Option(1, 3), Option(2, 2)>>, <<Option(3, 2), Option(1, 2)>>}
Many == << Option(1, 1), Option(1, 2), Option(1, 2), Option(1, 3) >>
Backs == {Whole(2), Coin(3, 1)}

Raising(before, after) == [before |-> before, after |-> after]
Never  == Raising({}, {})
Before == Raising({2}, {})
After  == Raising({}, {<<1, 2>>, <<2, 1>>})

CPrograms ==
  {Program("c", a, b, Never, F, {}, <<f1, f2>>, {f1, f2}) :
     a \in Uniform \cup {Many}, b \in Backs, F \in {{2}, {1, 3}}}

PythonPrograms ==
  {Program("python", a, b, r, {1, 2}, raises, <<f1>>, {f1}) :
     a \in Uniform \cup {Many}, b \in Backs, r \in {Never, Before, After}, raises \in {{}, {2}}}

CppPrograms ==
  {Program("cpp", a, b, r, F, {}, <<f2, f1>>, {f1}) :
     a \in Uniform \cup Weighted, b \in Backs, r \in {Never, Before, After}, F \in {{2}, {1, 3}}}

f1Orf2  == Named(Binary(f1, "Or", Unary("Not", f2)), "f1 or not f2")
f1Sames == Named(Binary(f1, "Equivalence", f2), "f1 same f2")
Notf1   == Unary("Not", f1)
Future  == Unary("Finally", f1)

\* Composite formulas, for which the model of the tests has its own visitor.
CompositePrograms(language) ==
  {Program(language, a, Coin(3, 1), Never, F, {}, <<f1, f1Orf2, f1Sames>>, {f1Orf2, f1Sames, Notf1}) :
     a \in {Whole(2), Coin(2, 3)}, F \in {{2}, {1, 3}}}

\* A formula over time does not compile, f2 is no label of the chain, and four
\* labels are one more than a label has bits for.
RefusedPrograms ==
  {Program("test", Coin(1, 3), Whole(2), Never, {3}, {}, labels, {f2}) :
     labels \in {<<f1>>, <<f1, Future>>, <<f1, f2, f1, f2>>}}

\* The states that wait are more than the path tracker has room for.
Wide == << Option(1, 3), Option(1, 12), Option(1, 123), Option(1, 2) >>
WidePrograms == {Program("c", Wide, Coin(45, 456), Never, {2}, {}, <<f1, f2>>, {f1, f2})}

SmallPrograms ==
  DicePrograms \cup CPrograms \cup PythonPrograms \cup CppPrograms
    \cup CompositePrograms("test") \cup RefusedPrograms \cup WidePrograms

\* The labels of these mean what their formulas mean.
ASSUME SmallProgramsAskPlainly == \A p \in SmallPrograms : AsksPlainly(p)

ComposedInCpp == CompositePrograms("cpp")

Conf(states, targets, successors) ==
  [states |-> states, targets |-> targets, successors |-> successors]

\* Room for all, and too little for states, for transitions, for successors.
Configs == {Conf(13, 30, 4), Conf(2, 30, 4), Conf(13, 4, 4), Conf(13, 30, 1)}
Roomy == {Conf(13, 30, 4)}
=============================================================================
