-------------------------------- MODULE Dice --------------------------------
(***************************************************************************)
(* The example that each language has: a die is thrown with a fair coin.   *)
(* A state names the numbers that are left; from 3123 and 6456 a throw may *)
(* have to be repeated.  The programs differ in what they ask.             *)
(***************************************************************************)
EXTENDS Pemc, TLC

DiceStates == {0, 123, 12, 3123, 456, 45, 6456} \cup 1..6

\* The step ends in a choice between two states, or leaves the state alone.
Coin(heads, tails) ==
  << [weight |-> Weight \div 2, target |-> heads], [weight |-> Weight \div 2, target |-> tails] >>

CoinOf ==
  (0 :> Coin(123, 456))
    @@ (123 :> Coin(12, 3123)) @@ (12 :> Coin(1, 2)) @@ (3123 :> Coin(3, 123))
    @@ (456 :> Coin(45, 6456)) @@ (45 :> Coin(4, 5)) @@ (6456 :> Coin(6, 456))

dice_model_step ==
  [state \in ProgramStates |-> IF state \in DOMAIN CoinOf THEN CoinOf[state] ELSE Whole(state)]

Is(n, state) == IF state = n THEN "true" ELSE "false"

f1 == Adapted("f1")
f2 == Adapted("f2")

DiceInC ==
  [language |-> "c", reset |-> 0, options |-> dice_model_step, raising |-> {}, raisingAfter |-> {},
   ids |-> {"f1", "f2"}, formulas |-> <<f1, f2>>, asked |-> {f1, f2},
   valuation |-> [s \in ProgramStates |-> [f1 |-> Is(3, s), f2 |-> Is(7, s)]]]

\* The C++ program checks f2 too, but builds its chain with f1 alone.
DiceInCpp == [DiceInC EXCEPT !.language = "cpp", !.formulas = <<f1>>]

DiceInPython ==
  [DiceInCpp EXCEPT
     !.language = "python", !.asked = {f1}, !.ids = {"f1"},
     !.valuation = [s \in ProgramStates |-> [f1 |-> Is(6, s)]]]

DicePrograms == {DiceInC, DiceInCpp, DiceInPython}
=============================================================================
