------------------------- MODULE MCLmcModelChecker -------------------------
(***************************************************************************)
(* Small chains and formulas for LmcModelChecker: two or three states,     *)
(* transitions with the probabilities 1/3, 2/3 and 1.                      *)
(***************************************************************************)
EXTENDS LmcModelChecker, TLC

CONSTANTS t1, t2

TwoThreads == {t1, t2}
ThreadSymmetry == Permutations(TwoThreads)

Third == 27    \* units, with Weight = 3 and MaxBound = 3
Unit  == 81

f1 == Adapted("f1")
f2 == Adapted("f2")
Both == Binary(f1, "And", f2)
Named12 == Named(Both, "f1 and f2")
Labels == <<f1, f2, Named12>>

None  == [f1 |-> FALSE, f2 |-> FALSE]
One1  == [f1 |-> TRUE, f2 |-> FALSE]
One2  == [f1 |-> FALSE, f2 |-> TRUE]
All   == [f1 |-> TRUE, f2 |-> TRUE]

T(weight, target, valuation) ==
  [probability |-> weight * Third, targetStateIndex |-> target, valuation |-> valuation,
   label |-> LabelOf(Labels, valuation)]

SomeTransitions == {T(w, s, v) : w \in 1..3, s \in 0..2, v \in {None, One1, One2, All}}

Chain(from, stuttering) ==
  [from |-> from, stuttering |-> stuttering, formulas |-> Labels,
   noLabels |-> <<FALSE, FALSE, FALSE>>, noValuation |-> None]

Starts == {<<T(3, 0, None)>>, <<T(1, 0, One1), T(2, 1, None)>>}

Steps == {<<T(3, 1, v)>> : v \in {None, All}}
           \cup {<<T(1, 0, v), T(2, 1, w)>> : v \in {None, One1, All},
                                             w \in {None, One1, One2}}

PlainChains ==
  {Chain((NoSource :> a) @@ (0 :> b) @@ (1 :> c), NoStuttering) :
     a \in Starts, b \in Steps, c \in Steps}

\* Index 0 is reserved for the stuttering state.
StutteringChains ==
  {Chain((NoSource :> <<T(3, 1, v)>>) @@ (1 :> <<T(1, 0, None), T(2, 1, w)>>), 0) :
     v \in {None, One1}, w \in {None, One2}}

\* Three sources that are handled in any order.
WideChains ==
  {Chain((NoSource :> <<T(1, 2, None), T(1, 0, v), T(1, 1, None)>>) @@ (0 :> a)
           @@ (1 :> <<T(2, 2, w), T(1, 1, None)>>) @@ (2 :> <<T(3, 0, v)>>), NoStuttering) :
     v \in {None, One2}, w \in {None, All},
     a \in {<<T(3, 0, None)>>, <<T(1, 1, One1), T(2, 2, None)>>}}

SmallChains == PlainChains \cup StutteringChains \cup WideChains

\* What validate() is to accept.
ASSUME ChainsAreDistributed == \A c \in Chains : IsDistributed(c)

Finally(psi, b) == BoundedUnary("Finally", psi, b)

FinallyFormulas ==
  {Finally(psi, b) : b \in 0..3,
     psi \in {f1, Unary("Not", f2), Binary(Unary("Not", f1), "Or", f2), Named12,
              Binary(f1, "Equivalence", f2)}}

OtherFormulas ==
  {BoundedUnary("Globally", f1, 1), Unary("Finally", f1), Binary(f1, "Until", f2),
   Finally(Adapted("f3"), 1), Finally(Binary(f1, "Until", f2), 1)}

UntilFormulas == {BoundedBinary(f1, "Until", f2, b) : b \in 0..2}

ImplicationFormulas == {Finally(Binary(f1, "Implication", f2), 1)}

CheckedFormulas == FinallyFormulas \cup OtherFormulas

\* The labels say what the formulas mean, but for the implication.
ASSUME LabelsSayWhatIsMeant ==
  \A c \in Chains : \A f \in Formulas \ ImplicationFormulas : LabelsSay(c, f)

\* They do because of these formulas.
CheckedStateFormulas ==
  {f1, f2, Named12, Unary("Not", f1), Unary("Not", f2), Binary(Unary("Not", f1), "Or", f2),
   Binary(f1, "Equivalence", f2)}

ASSUME StateFormulasAreChecked ==
  /\ StateFormulas(CheckedStateFormulas) /\ Unambiguous(CheckedStateFormulas)
  /\ \A c \in Chains :
       /\ LabelledWith(c, CheckedStateFormulas)
       /\ \A f \in Formulas \ ImplicationFormulas : AsksFor(c, f, CheckedStateFormulas)
=============================================================================
