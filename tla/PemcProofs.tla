------------------------------ MODULE PemcProofs ------------------------------
(***************************************************************************)
(* Proofs about the facade: from the client's program to the verdict, the  *)
(* chain and the probabilities.  The traversal of a call is                *)
(* GenericTraverser's, of which GenericTraverserProofs proves the          *)
(* invariant; the rounds of a calculation are LmcModelChecker's.  The      *)
(* invariant of the facade relates each stage to the one before: what is   *)
(* stored to the program's steps, what the modifiers were given to what is *)
(* stored, the chain's array to what they were given, the vectors of a     *)
(* calculation to the rounds of the probability on the program.            *)
(***************************************************************************)
EXTENDS Pemc, LmcModelCheckerProofs

-----------------------------------------------------------------------------
(***************************************************************************)
(* The programs.                                                           *)
(***************************************************************************)
Options == [weight : 1..Weight, target : ProgramStates]

\* The constants of the client's calls.
ClientInv == program \in Programs /\ conf \in Configurations /\ psi \in program.asked

LEMMA ConstantFacts ==
  /\ IsFiniteSet(ProgramStates) /\ NoState \notin ProgramStates
  /\ worker \in Threads /\ Debug \in BOOLEAN
  /\ MaximalStates \in Nat /\ MaximalSearchDepth \in Nat
  /\ StateIndexes \subseteq Nat
PROOF BY ProgramAssumption, ChainAssumption

LEMMA ProgramFacts ==
  ASSUME NEW p \in Programs
  PROVE  /\ p.language \in Languages /\ p.reset \in ProgramStates
         /\ p.formulas \in Seq(Range(p.formulas))
         /\ \A s \in ProgramStates :
              /\ p.options[s] \in Seq(Options)
              /\ Weight = SumOf([k \in 1..Len(p.options[s]) |-> p.options[s][k].weight])
PROOF BY ProgramAssumption DEF Options

\* The weights of the options of a step, as a sequence.
WeightsOf(options) == [k \in 1..Len(options) |-> options[k].weight]

TargetsOf(p, s) == {StepOf(p, s)[k].target : k \in 1..Len(StepOf(p, s))}

\* A step has options, and their weights add up.
LEMMA StepFacts ==
  ASSUME NEW p \in Programs, NEW s \in ProgramStates
  PROVE  /\ StepOf(p, s) \in Seq(Options)
         /\ SumOf(WeightsOf(StepOf(p, s))) = Weight
         /\ Len(StepOf(p, s)) \in Nat \ {0}
         /\ \A k \in 1..Len(StepOf(p, s)) :
              StepOf(p, s)[k].weight \in 1..Weight /\ StepOf(p, s)[k].target \in ProgramStates
PROOF
<1>1. p.options[s] \in Seq(Options) /\ SumOf(WeightsOf(p.options[s])) = Weight
  BY ProgramFacts DEF WeightsOf
<1>2. Weight \in Nat \ {0}
  BY PowerIs
<1>3. Whole(s) \in Seq(Options) /\ SumOf(WeightsOf(Whole(s))) = Weight
  <2>1. Whole(s) = << [weight |-> Weight, target |-> s] >>
    BY DEF Whole
  <2>2. [weight |-> Weight, target |-> s] \in Options
    BY <1>2 DEF Options
  <2>3. /\ Whole(s) \in Seq(Options) /\ Len(Whole(s)) = 1
        /\ Whole(s)[1] = [weight |-> Weight, target |-> s]
    BY <2>1, <2>2
  <2>4. Len(WeightsOf(Whole(s))) = 1 /\ WeightsOf(Whole(s))[1] = Weight
    BY <2>3 DEF WeightsOf
  <2> QED BY <1>2, <2>3, <2>4, SumOfOne
<1>4. /\ Chosen(p, s) \in Seq(Options) /\ SumOf(WeightsOf(Chosen(p, s))) = Weight
      /\ StepOf(p, s) = p.options[s] \/ StepOf(p, s) = PythonStep(p, s)
  BY <1>1, <1>3 DEF StepOf, Chosen
<1> DEFINE step == StepOf(p, s)
<1>5. step \in Seq(Options) /\ SumOf(WeightsOf(step)) = Weight
  <2> DEFINE chosen == Chosen(p, s)
  <2>1. Len(chosen) \in Nat /\ \A k \in 1..Len(chosen) : chosen[k] \in Options
    BY <1>4
  <2>2. ASSUME NEW k \in 1..Len(chosen)
        PROVE  /\ PythonStep(p, s)[k] \in Options
               /\ PythonStep(p, s)[k].weight = chosen[k].weight
    <3>1. chosen[k] \in Options
      BY <2>1
    <3> HIDE DEF chosen
    <3>2. /\ [chosen[k] EXCEPT !.target = s] \in Options
          /\ [chosen[k] EXCEPT !.target = s].weight = chosen[k].weight
      BY <3>1 DEF Options
    <3>3. PythonStep(p, s)[k] = IF <<s, k>> \in p.raisingAfter
                                THEN [chosen[k] EXCEPT !.target = s] ELSE chosen[k]
      BY DEF PythonStep, chosen
    <3> QED BY <3>1, <3>2, <3>3
  <2> HIDE DEF chosen
  <2>3. PythonStep(p, s) \in Seq(Options) /\ Len(PythonStep(p, s)) = Len(chosen)
    BY <2>1, <2>2 DEF PythonStep, chosen
  <2>4. WeightsOf(PythonStep(p, s)) = WeightsOf(chosen)
    BY <2>2, <2>3 DEF WeightsOf
  <2> QED BY <1>1, <1>4, <2>3, <2>4 DEF chosen
<1> HIDE DEF step
<1>6. Len(step) \in Nat /\ \A k \in 1..Len(step) : step[k] \in Options
  BY <1>5
<1>7. Len(step) # 0
  <2> SUFFICES ASSUME Len(step) = 0 PROVE FALSE
    OBVIOUS
  <2>1. Len(WeightsOf(step)) = 0
    BY DEF WeightsOf
  <2>2. SumOf(WeightsOf(step)) = 0
    BY <2>1, SumOfNone
  <2> QED BY <1>2, <1>5, <2>2
<1>8. \A k \in 1..Len(step) : step[k].weight \in 1..Weight /\ step[k].target \in ProgramStates
  BY <1>6 DEF Options
<1> QED BY <1>5, <1>6, <1>7, <1>8 DEF step

-----------------------------------------------------------------------------
(***************************************************************************)
(* The rounds of the iteration in terms of the program, whatever the       *)
(* states G are on which psi is taken to hold.                             *)
(***************************************************************************)
OptionShare(o, G, x) ==
  o.weight * (IF o.target \in G THEN Unit ELSE x[o.target] \div Weight)

RoundAt(p, s, G, x) ==
  SumOf([k \in 1..Len(StepOf(p, s)) |-> OptionShare(StepOf(p, s)[k], G, x)])

NothingYet == [s \in ProgramStates |-> 0]
Round(p, G) == [x \in [ProgramStates -> Nat] |-> [s \in ProgramStates |-> RoundAt(p, s, G, x)]]

RoundsOf(p, G) ==
  CHOOSE r \in [Nat -> [ProgramStates -> Nat]] : IsChainOf(r, NothingYet, Round(p, G))

LEMMA UnitIs == Unit = Power(MaxBound) /\ Unit \in Nat \ {0} /\ One = Weight * Unit
PROOF
<1>1. PICK u \in Nat \ {0} : u = Power(MaxBound) /\ One = Weight * u
  BY OneIs
<1>2. PICK w \in Nat \ {0} : w = Weight
  BY PowerIs
<1>3. (w * u) \div w = u
  BY FactorCancels
<1> QED BY <1>1, <1>2, <1>3 DEF Unit

LEMMA QuotientTyped ==
  ASSUME NEW d \in Nat \ {0}, NEW a \in Nat
  PROVE  a \div d \in Nat
PROOF
<1>1. PICK b \in Int, m \in 0..d - 1 : b = a \div d /\ a = d * b + m
  OBVIOUS
<1>2. b > -1
  <2> SUFFICES ASSUME b <= -1 PROVE FALSE
    BY <1>1
  <2>1. d * b <= -d
    BY <1>1
  <2> QED BY <1>1, <2>1
<1> QED BY <1>1, <1>2

LEMMA RoundTyped ==
  ASSUME NEW p \in Programs, NEW G, NEW x \in [ProgramStates -> Nat], NEW s \in ProgramStates
  PROVE  /\ \A k \in 1..Len(StepOf(p, s)) : OptionShare(StepOf(p, s)[k], G, x) \in Nat
         /\ RoundAt(p, s, G, x) \in Nat
PROOF
<1> DEFINE step == StepOf(p, s)
           shares == [k \in 1..Len(step) |-> OptionShare(step[k], G, x)]
<1>1. /\ Len(step) \in Nat
      /\ \A k \in 1..Len(step) : step[k].weight \in Nat /\ step[k].target \in ProgramStates
  BY StepFacts, PowerIs
<1> HIDE DEF step
<1>2. ASSUME NEW k \in 1..Len(step) PROVE OptionShare(step[k], G, x) \in Nat
  <2>1. PICK w \in Nat, u \in Nat, v \in Nat, W \in Nat \ {0} :
          /\ w = step[k].weight /\ u = Unit /\ v = x[step[k].target] /\ W = Weight
    BY <1>1, UnitIs, PowerIs
  <2>2. w * u \in Nat /\ w * (v \div W) \in Nat
    <3>1. PICK z \in Nat : z = v \div W
      BY <2>1, QuotientTyped
    <3>2. w * u \in Nat /\ w * z \in Nat
      BY <2>1
    <3> QED BY <3>1, <3>2
  <2> QED BY <2>1, <2>2 DEF OptionShare
<1>3. shares \in Seq(Nat)
  BY <1>1, <1>2
<1>4. SumOf(shares) \in Nat
  <2> HIDE DEF shares
  <2> QED BY <1>3, SumOfTyped
<1> QED BY <1>2, <1>4 DEF RoundAt, step

\* What the rounds are.
LEMMA RoundsAre ==
  ASSUME NEW p \in Programs, NEW G
  PROVE  /\ RoundsOf(p, G) \in [Nat -> [ProgramStates -> Nat]]
         /\ RoundsOf(p, G)[0] = NothingYet
         /\ \A n \in Nat : \A s \in ProgramStates :
              RoundsOf(p, G)[n + 1][s] = RoundAt(p, s, G, RoundsOf(p, G)[n])
PROOF
<1> DEFINE S == [ProgramStates -> Nat]
<1>1. NothingYet \in S
  BY DEF NothingYet
<1>2. Round(p, G) \in [S -> S]
  BY RoundTyped DEF Round
<1>3. \E r \in [Nat -> S] : IsChainOf(r, NothingYet, Round(p, G))
  <2> HIDE DEF S
  <2> QED BY <1>1, <1>2, ChainExists
<1> DEFINE r == RoundsOf(p, G)
<1>4. r \in [Nat -> S] /\ IsChainOf(r, NothingYet, Round(p, G))
  BY <1>3 DEF RoundsOf
<1> HIDE DEF r
<1>5. ASSUME NEW n \in Nat, NEW s \in ProgramStates
      PROVE  r[n + 1][s] = RoundAt(p, s, G, r[n])
  <2>1. r[n] \in S
    BY <1>4
  <2>2. r[n + 1] = Round(p, G)[r[n]]
    BY <1>4 DEF IsChainOf
  <2>3. Round(p, G)[r[n]] = [q \in ProgramStates |-> RoundAt(p, q, G, r[n])]
    BY <2>1 DEF Round
  <2> QED BY <2>2, <2>3
<1> QED BY <1>4, <1>5 DEF IsChainOf, r

\* A round on exact probabilities: multiples of a power of Weight that are at
\* most One give multiples of the next one that are, and what is above zero is
\* what leads to psi or to something above zero.
IsExact(x, n) ==
  /\ x \in [ProgramStates -> Nat]
  /\ \A s \in ProgramStates :
       \E v \in Nat : v <= Power(n) /\ x[s] = v * Power(MaxBound + 1 - n)

LEMMA OptionShareIs ==
  ASSUME NEW n \in 0..MaxBound, NEW x, IsExact(x, n), NEW G, NEW o \in Options
  PROVE  \E v \in Nat :
           /\ OptionShare(o, G, x) = Power(MaxBound - n) * (o.weight * v)
           /\ v <= Power(n)
           /\ v > 0 <=> (o.target \in G \/ x[o.target] > 0)
           /\ o.target \notin G => x[o.target] = Weight * (Power(MaxBound - n) * v)
PROOF
<1>1. /\ n \in 0..MaxBound + 1 /\ MaxBound - n \in 0..MaxBound /\ MaxBound - n \in 0..MaxBound + 1
      /\ (MaxBound - n) + 1 = MaxBound + 1 - n /\ n + (MaxBound - n) = MaxBound
      /\ n \in Nat /\ MaxBound - n \in Nat /\ n + (MaxBound - n) <= MaxBound + 1
  BY PowerIs
<1>2. PICK e \in Nat \ {0}, d \in Nat \ {0}, W \in Nat \ {0}, w \in Nat :
        /\ e = Power(n) /\ d = Power(MaxBound - n) /\ W = Weight /\ w = o.weight
  <2>1. o.weight \in Nat
    BY PowerIs DEF Options
  <2>2. Power(n) \in Nat \ {0} /\ Power(MaxBound - n) \in Nat \ {0} /\ Weight \in Nat \ {0}
    BY <1>1, PowerIs
  <2> QED BY <2>1, <2>2
<1>3. Unit = e * d /\ Power(MaxBound + 1 - n) = W * d
  BY <1>1, <1>2, UnitIs, PowersMultiply, PowerIs
<1>4. o.target \in ProgramStates
  BY DEF Options
<1>5. CASE o.target \in G
  <2>1. OptionShare(o, G, x) = w * (e * d)
    BY <1>2, <1>3, <1>5 DEF OptionShare
  <2>2. w * (e * d) = d * (w * e)
    BY <1>2
  <2> QED BY <1>2, <1>5, <2>1, <2>2
<1>6. CASE o.target \notin G
  <2>1. PICK v \in Nat : v <= e /\ x[o.target] = v * (W * d)
    BY <1>2, <1>3, <1>4 DEF IsExact
  <2>2. v * (W * d) = W * (d * v)
    BY <1>2, <2>1
  <2>3. d * v \in Nat
    BY <1>2, <2>1
  <2>4. (W * (d * v)) \div W = d * v
    BY <1>2, <2>3, MultipleDivides
  <2>5. OptionShare(o, G, x) = w * (d * v)
    BY <1>2, <1>6, <2>1, <2>2, <2>4 DEF OptionShare
  <2>6. w * (d * v) = d * (w * v)
    BY <1>2, <2>1
  <2>7. v > 0 <=> x[o.target] > 0
    <3>1. CASE v = 0
      <4>1. W * d \in Nat
        BY <1>2
      <4> QED BY <2>1, <3>1, <4>1
    <3>2. CASE v > 0
      <4>1. W * d > 0 /\ W * d \in Nat
        BY <1>2
      <4>2. PICK y \in Nat : y = W * d
        BY <4>1
      <4>3. v * y > 0
        BY <2>1, <3>2, <4>1, <4>2
      <4> QED BY <2>1, <3>2, <4>2, <4>3
    <3> QED BY <2>1, <3>1, <3>2
  <2> QED BY <1>2, <1>6, <2>1, <2>2, <2>5, <2>6, <2>7
<1> QED BY <1>5, <1>6

LEMMA RoundKeepsExact ==
  ASSUME NEW p \in Programs, NEW s \in ProgramStates, NEW n \in 0..MaxBound,
         NEW x, IsExact(x, n), NEW G
  PROVE  \E v \in Nat :
           /\ v <= Power(n + 1) /\ RoundAt(p, s, G, x) = v * Power(MaxBound - n)
           /\ v > 0 <=> \E t \in TargetsOf(p, s) : t \in G \/ x[t] > 0
PROOF
<1> DEFINE step == StepOf(p, s)
           N == Len(step)
           Gives(k, v) == /\ OptionShare(step[k], G, x) = Power(MaxBound - n) * (step[k].weight * v)
                          /\ v <= Power(n)
                          /\ v > 0 <=> (step[k].target \in G \/ x[step[k].target] > 0)
           vs == [k \in 1..N |-> CHOOSE v \in Nat : Gives(k, v)]
           q == [k \in 1..N |-> step[k].weight * vs[k]]
           r == [k \in 1..N |-> step[k].weight * Power(n)]
           shares == [k \in 1..N |-> OptionShare(step[k], G, x)]
<1>1. /\ N \in Nat /\ SumOf(WeightsOf(step)) = Weight
      /\ WeightsOf(step) = [k \in 1..N |-> step[k].weight]
      /\ \A k \in 1..N : step[k].weight \in Nat \ {0} /\ step[k] \in Options
  <2>1. /\ step \in Seq(Options) /\ N \in Nat /\ SumOf(WeightsOf(step)) = Weight
        /\ \A k \in 1..N : step[k].weight \in 1..Weight
    BY StepFacts
  <2>2. Weight \in Nat
    BY PowerIs
  <2> QED BY <2>1, <2>2 DEF WeightsOf
<1>2. /\ n \in Nat /\ n \in 0..MaxBound + 1 /\ n + 1 \in 0..MaxBound + 1
      /\ MaxBound - n \in 0..MaxBound + 1
  BY PowerIs
<1>3. PICK e \in Nat \ {0}, d \in Nat \ {0}, W \in Nat \ {0} :
        /\ e = Power(n) /\ d = Power(MaxBound - n) /\ W = Weight
  BY <1>2, PowerIs
<1>4. Power(n + 1) = W * e
  BY <1>3, PowerIs
<1>5. ASSUME NEW k \in 1..N PROVE vs[k] \in Nat /\ Gives(k, vs[k])
  <2>1. \E v \in Nat : Gives(k, v)
    BY <1>1, OptionShareIs
  <2> HIDE DEF Gives
  <2> QED BY <2>1
<1>6. \A k \in 1..N : shares[k] = OptionShare(step[k], G, x)
  OBVIOUS
<1>7. RoundAt(p, s, G, x) = SumOf(shares)
  BY DEF RoundAt
<1>8. \A t : t \in TargetsOf(p, s) <=> \E k \in 1..N : t = step[k].target
  BY DEF TargetsOf
<1> HIDE DEF vs, step, N, shares
<1>9. ASSUME NEW k \in 1..N
      PROVE  /\ q[k] \in Nat /\ r[k] \in Nat /\ shares[k] \in Nat
             /\ shares[k] = d * q[k] /\ q[k] <= r[k]
             /\ r[k] = e * WeightsOf(step)[k] /\ WeightsOf(step)[k] \in Nat
             /\ q[k] > 0 <=> vs[k] > 0
  <2>1. PICK w \in Nat \ {0}, v \in Nat : w = step[k].weight /\ v = vs[k]
    BY <1>1, <1>5
  <2>2. q[k] = w * v /\ r[k] = w * e /\ shares[k] = d * (w * v) /\ v <= e
    BY <1>3, <1>5, <1>6, <2>1
  <2>3. w * v \in Nat /\ w * e \in Nat /\ d * (w * v) \in Nat
    BY <1>3, <2>1
  <2>4. w * v <= w * e /\ w * e = e * w
    BY <1>3, <2>1, <2>2
  <2>5. w * v > 0 <=> v > 0
    BY <2>1
  <2> QED BY <1>1, <2>1, <2>2, <2>3, <2>4, <2>5
<1>10. /\ Len(q) = N /\ Len(r) = N /\ Len(shares) = N /\ Len(WeightsOf(step)) = N
       /\ q \in Seq(Nat) /\ r \in Seq(Nat) /\ shares \in Seq(Nat) /\ WeightsOf(step) \in Seq(Nat)
  BY <1>1, <1>9 DEF shares
<1>11. /\ q \in Seq(Int) /\ r \in Seq(Int) /\ shares \in Seq(Int) /\ WeightsOf(step) \in Seq(Int)
       /\ d \in Int /\ e \in Int
  BY <1>1, <1>3, <1>9, <1>10
<1> HIDE DEF q, r
<1>12. SumOf(shares) = d * SumOf(q)
  <2>1. \A k \in 1..Len(q) : shares[k] = d * q[k]
    BY <1>9, <1>10
  <2> QED BY <1>10, <1>11, <2>1, SumOfScaled
<1>13. SumOf(r) = e * W
  <2>1. \A k \in 1..Len(WeightsOf(step)) : r[k] = e * WeightsOf(step)[k]
    BY <1>9, <1>10
  <2>2. SumOf(r) = e * SumOf(WeightsOf(step))
    BY <1>10, <1>11, <2>1, SumOfScaled
  <2> QED BY <1>1, <1>3, <2>2
<1>14. SumOf(q) \in Nat /\ SumOf(q) <= SumOf(r)
  <2>1. \A k \in 1..Len(q) : q[k] <= r[k]
    BY <1>9, <1>10
  <2> QED BY <1>10, <2>1, SumOfMonotone, SumOfTyped
<1>15. SumOf(q) > 0 <=> \E k \in 1..N : vs[k] > 0
  <2>1. ASSUME NEW k \in 1..N, vs[k] > 0 PROVE SumOf(q) > 0
    <3>1. q[k] <= SumOf(q)
      BY <1>10, SumOfAtLeast
    <3> QED BY <1>9, <1>14, <2>1, <3>1
  <2>2. ASSUME \A k \in 1..N : ~(vs[k] > 0) PROVE SumOf(q) = 0
    <3>1. PICK z \in Int : z = 0
      OBVIOUS
    <3>2. ASSUME NEW k \in 1..Len(q) PROVE q[k] = z * q[k]
      <4>1. q[k] = 0
        <5>1. k \in 1..N /\ ~(vs[k] > 0)
          BY <1>10, <2>2
        <5>2. q[k] \in Nat /\ (q[k] > 0 <=> vs[k] > 0)
          BY <1>9, <5>1
        <5> QED BY <5>1, <5>2
      <4> QED BY <3>1, <4>1
    <3>3. SumOf(q) = z * SumOf(q)
      BY <1>11, <3>2, SumOfScaled
    <3>4. PICK y \in Nat : y = SumOf(q)
      BY <1>14
    <3> QED BY <3>1, <3>3, <3>4
  <2> QED BY <1>14, <2>1, <2>2
<1>16. (\E k \in 1..N : vs[k] > 0) <=> \E t \in TargetsOf(p, s) : t \in G \/ x[t] > 0
  BY <1>5, <1>8
<1>17. PICK v \in Nat : v = SumOf(q)
  BY <1>14
<1>18. v <= Power(n + 1) /\ RoundAt(p, s, G, x) = v * Power(MaxBound - n)
  <2>1. v <= W * e
    BY <1>3, <1>13, <1>14, <1>17
  <2>2. d * v = v * d
    BY <1>3, <1>17
  <2> QED BY <1>3, <1>4, <1>7, <1>12, <1>17, <2>1, <2>2
<1> QED BY <1>15, <1>16, <1>17, <1>18

\* The rounds of a program are exact as long as there are powers, and what they
\* have above zero leads to psi.
LEMMA RoundsAreExact ==
  ASSUME NEW p \in Programs, NEW G
  PROVE  \A n \in 0..MaxBound + 1 : IsExact(RoundsOf(p, G)[n], n)
PROOF
<1> DEFINE S == {n \in Nat : n <= MaxBound + 1 => IsExact(RoundsOf(p, G)[n], n)}
<1>1. 0 \in S
  <2>1. RoundsOf(p, G)[0] = [s \in ProgramStates |-> 0]
    BY RoundsAre DEF NothingYet
  <2>2. Power(0) = 1 /\ Power(MaxBound + 1) \in Nat /\ MaxBound + 1 - 0 = MaxBound + 1
    BY PowerIs
  <2>3. 0 * Power(MaxBound + 1) = 0
    BY <2>2
  <2>4. IsExact(RoundsOf(p, G)[0], 0)
    BY <2>1, <2>2, <2>3 DEF IsExact
  <2> QED BY <2>4
<1>2. ASSUME NEW n \in S PROVE n + 1 \in S
  <2> SUFFICES ASSUME n + 1 <= MaxBound + 1 PROVE IsExact(RoundsOf(p, G)[n + 1], n + 1)
    OBVIOUS
  <2>1. /\ n \in 0..MaxBound /\ n + 1 \in Nat /\ n \in Nat
        /\ MaxBound + 1 - (n + 1) = MaxBound - n
    BY PowerIs
  <2>2. IsExact(RoundsOf(p, G)[n], n)
    BY <2>1, PowerIs
  <2>3. /\ RoundsOf(p, G)[n + 1] \in [ProgramStates -> Nat]
        /\ \A s \in ProgramStates : RoundsOf(p, G)[n + 1][s] = RoundAt(p, s, G, RoundsOf(p, G)[n])
    BY <2>1, RoundsAre
  <2>4. ASSUME NEW s \in ProgramStates
        PROVE  \E v \in Nat : v <= Power(n + 1)
                              /\ RoundsOf(p, G)[n + 1][s] = v * Power(MaxBound + 1 - (n + 1))
    <3>1. \E v \in Nat : v <= Power(n + 1)
                         /\ RoundAt(p, s, G, RoundsOf(p, G)[n]) = v * Power(MaxBound - n)
      BY <2>1, <2>2, RoundKeepsExact
    <3> QED BY <2>1, <2>3, <3>1
  <2> QED BY <2>3, <2>4 DEF IsExact
<1> HIDE DEF S
<1>3. S = Nat
  <2>1. S \in SUBSET Nat
    BY DEF S
  <2> QED BY <1>1, <1>2, <2>1, AllByInduction
<1> QED BY <1>3, PowerIs DEF S

LEMMA RoundsArePositive ==
  ASSUME NEW p \in Programs, NEW G, NEW n \in 0..MaxBound, NEW s \in ProgramStates
  PROVE  RoundsOf(p, G)[n + 1][s] > 0
           <=> \E t \in TargetsOf(p, s) : t \in G \/ RoundsOf(p, G)[n][t] > 0
PROOF
<1>1. n \in 0..MaxBound + 1 /\ n \in Nat /\ MaxBound - n \in 0..MaxBound + 1
  BY PowerIs
<1>2. PICK v \in Nat :
        /\ RoundAt(p, s, G, RoundsOf(p, G)[n]) = v * Power(MaxBound - n)
        /\ v > 0 <=> \E t \in TargetsOf(p, s) : t \in G \/ RoundsOf(p, G)[n][t] > 0
  BY <1>1, RoundsAreExact, RoundKeepsExact
<1>3. PICK d \in Nat \ {0} : d = Power(MaxBound - n)
  BY <1>1, PowerIs
<1>4. v * d > 0 <=> v > 0
  BY <1>3
<1> QED BY <1>1, <1>2, <1>3, <1>4, RoundsAre

\* No round has more than one.
LEMMA RoundsAreProbabilities ==
  ASSUME NEW p \in Programs, NEW G, NEW n \in 0..MaxBound + 1, NEW s \in ProgramStates
  PROVE  RoundsOf(p, G)[n][s] \in 0..One
PROOF
<1>1. n \in Nat /\ MaxBound + 1 - n \in 0..MaxBound + 1 /\ MaxBound + 1 - n \in Nat
      /\ n + (MaxBound + 1 - n) = MaxBound + 1 /\ n + (MaxBound + 1 - n) <= MaxBound + 1
  BY PowerIs
<1>2. PICK v \in Nat : v <= Power(n) /\ RoundsOf(p, G)[n][s] = v * Power(MaxBound + 1 - n)
  BY RoundsAreExact DEF IsExact
<1>3. PICK e \in Nat, d \in Nat : e = Power(n) /\ d = Power(MaxBound + 1 - n)
  BY <1>1, PowerIs
<1>4. One = e * d
  BY <1>1, <1>3, PowersMultiply, PowerIs
<1>5. v * d <= e * d /\ v * d \in Nat
  BY <1>2, <1>3
<1> QED BY <1>2, <1>3, <1>4, <1>5
-----------------------------------------------------------------------------
(***************************************************************************)
(* Where the calls are, and the invariant of the traversal of each call.   *)
(***************************************************************************)
CallsInv ==
  /\ ClientInv
  /\ call \in {"check", "build", "calculate", "none"}
  /\ checking \in {"idle", "precalculate", "iterate", "checked", "thrown"}
  /\ checking \in {"precalculate", "iterate", "checked"} => call = "calculate"
  /\ checking = "thrown" => call \in {"calculate", "none"}
  /\ verdict \in {"none", "reached", "unreached", "exception"}

\* A step that is none of the traversal leaves it as it is.
TraversalStays ==
  /\ UNCHANGED <<client, traversal>>
  /\ call' = call \/ (call # "check" /\ call' # "check")

LEMMA InitCalls == PemcInit => CallsInv
PROOF BY DEF PemcInit, CallsInv, ClientInv, CheckerIdle

LEMMA NextKeepsCalls == CallsInv /\ [PemcNext]_pemc => CallsInv'
PROOF
<1> SUFFICES ASSUME CallsInv, [PemcNext]_pemc PROVE CallsInv'
  OBVIOUS
<1>1. CASE Traverse
  BY <1>1 DEF Traverse, CallsInv, ClientInv, client, checker
<1>2. CASE Throw
  BY <1>2 DEF Throw, CallsInv, ClientInv, client, allVars, checker
<1>3. CASE AddTransitions
  BY <1>3 DEF AddTransitions, CallsInv, ClientInv, client, checker
<1>4. CASE ReturnVerdict
  BY <1>4 DEF ReturnVerdict, CallsInv, ClientInv, client, allVars, checker
<1>5. CASE ReturnChain
  BY <1>5 DEF ReturnChain, CallsInv, ClientInv, client, checker
<1>6. CASE CallThrows
  BY <1>6 DEF CallThrows, CallsInv, ClientInv, client, allVars, checker
<1>7. CASE Calculate
  <2>1. /\ call = "calculate" /\ UNCHANGED <<client, call, verdict>>
        /\ checking' \in {"precalculate", "iterate", "checked", "thrown"}
    BY <1>7 DEF Calculate, CallsInv, CalculateProbability, Precalculate, Iterate, Finish
  <2> QED BY <2>1 DEF CallsInv, ClientInv, client
<1>8. CASE ReturnProbability
  BY <1>8 DEF ReturnProbability, CallsInv, ClientInv, client
<1>9. CASE UNCHANGED pemc
  BY <1>9 DEF pemc, allVars, checker, client, CallsInv, ClientInv
<1> QED BY <1>1, <1>2, <1>3, <1>4, <1>5, <1>6, <1>7, <1>8, <1>9 DEF PemcNext

\* What a step of the facade is for the traversal.
LEMMA TraversalSteps ==
  ASSUME CallsInv, [PemcNext]_pemc
  PROVE  Traverse \/ Throw \/ ReturnVerdict \/ TraversalStays
PROOF
<1>1. CASE AddTransitions \/ ReturnChain \/ CallThrows
  BY <1>1 DEF AddTransitions, ReturnChain, CallThrows, TraversalStays
<1>2. CASE Calculate
  BY <1>2 DEF Calculate, TraversalStays
<1>3. CASE ReturnProbability
  BY <1>3 DEF ReturnProbability, TraversalStays, CallsInv
<1>4. CASE UNCHANGED pemc
  BY <1>4 DEF pemc, TraversalStays
<1> QED BY <1>1, <1>2, <1>3, <1>4 DEF PemcNext

\* Only the traversal of a build changes the chain.
LEMMA ChainSteps ==
  ASSUME [PemcNext]_pemc PROVE Traverse \/ chain' = chain
PROOF
<1>1. CASE Throw \/ ReturnVerdict \/ CallThrows
  BY <1>1 DEF Throw, ReturnVerdict, CallThrows, allVars, vars
<1>2. CASE AddTransitions
  BY <1>2 DEF AddTransitions, Worker, Place, Record, Write, Return
<1>3. CASE ReturnChain
  BY <1>3 DEF ReturnChain, FinishCreation
<1>4. CASE Calculate
  BY <1>4 DEF Calculate, CalculateProbability, Precalculate, Iterate, Finish, vars
<1>5. CASE ReturnProbability
  BY <1>5 DEF ReturnProbability, vars
<1>6. CASE UNCHANGED pemc
  BY <1>6 DEF pemc, allVars, vars
<1> QED BY <1>1, <1>2, <1>3, <1>4, <1>5, <1>6 DEF PemcNext

\* Only the modifier and the return of a build change the chain's array.
ArrayStays == UNCHANGED <<lmc, pc, source, location, written, handled>>

LEMMA ArraySteps ==
  ASSUME [PemcNext]_pemc PROVE AddTransitions \/ ReturnChain \/ ArrayStays
PROOF
<1>1. CASE Throw \/ ReturnVerdict \/ CallThrows
  BY <1>1 DEF Throw, ReturnVerdict, CallThrows, allVars, vars, ArrayStays
<1>2. CASE Traverse
  BY <1>2 DEF Traverse, ArrayStays
<1>3. CASE Calculate
  BY <1>3 DEF Calculate, CalculateProbability, Precalculate, Iterate, Finish, vars, ArrayStays
<1>4. CASE ReturnProbability
  BY <1>4 DEF ReturnProbability, vars, ArrayStays
<1>5. CASE UNCHANGED pemc
  BY <1>5 DEF pemc, allVars, vars, ArrayStays
<1> QED BY <1>1, <1>2, <1>3, <1>4, <1>5 DEF PemcNext

\* Only the calculations change what they work with.
LEMMA CheckerSteps ==
  ASSUME [PemcNext]_pemc PROVE Calculate \/ ReturnProbability \/ UNCHANGED <<checker, answers>>
PROOF
<1>1. CASE Throw \/ ReturnVerdict \/ CallThrows
  BY <1>1 DEF Throw, ReturnVerdict, CallThrows, allVars
<1>2. CASE Traverse \/ AddTransitions \/ ReturnChain
  BY <1>2 DEF Traverse, AddTransitions, ReturnChain
<1>3. CASE UNCHANGED pemc
  BY <1>3 DEF pemc, allVars
<1> QED BY <1>1, <1>2, <1>3 DEF PemcNext

\* A call is over when it returned or threw.
LEMMA CallChanges ==
  ASSUME CallsInv, [PemcNext]_pemc
  PROVE  /\ call \in {"calculate", "none"} => call' \in {"calculate", "none"}
         /\ call = "build" /\ call' # call => call' \in {"calculate", "none"}
         /\ call' = "build" /\ call # "build" => ReturnVerdict
PROOF
<1>1. CASE Traverse \/ Throw
  BY <1>1 DEF Traverse, Throw
<1>2. CASE AddTransitions \/ Calculate \/ UNCHANGED pemc
  BY <1>2 DEF AddTransitions, Calculate, pemc
<1>3. CASE ReturnVerdict
  BY <1>3 DEF ReturnVerdict
<1>4. CASE ReturnChain \/ CallThrows
  BY <1>4 DEF ReturnChain, CallThrows
<1>5. CASE ReturnProbability
  BY <1>5 DEF ReturnProbability, CallsInv
<1> QED BY <1>1, <1>2, <1>3, <1>4, <1>5 DEF PemcNext
-----------------------------------------------------------------------------
(***************************************************************************)
(* What the traversal of a call promises to the rest, in the terms of the  *)
(* program; that it does is shown at the end.                              *)
(***************************************************************************)
SourceState(n) == IF n = NoSource THEN program.reset ELSE contents[n + 1]

OptionsOf(n) == StepOf(program, SourceState(n))

StoredSources == {NoSource} \cup 0..Len(contents) - 1

\* What is reachable from the reset state: the least set with its targets that
\* no step leaves.
IsClosedUnderSteps(set) ==
  TargetsOf(program, program.reset) \subseteq set /\ \A s \in set : TargetsOf(program, s) \subseteq set

ReachableStates ==
  {s \in ProgramStates : \A set \in SUBSET ProgramStates : IsClosedUnderSteps(set) => s \in set}

PsiReachable == \E s \in ReachableStates : Evaluates(program, psi, s)

StorageFacts ==
  /\ contents \in Seq(ProgramStates) /\ Len(contents) <= conf.states
  /\ \A a, b \in 1..Len(contents) : contents[a] = contents[b] => a = b

\* What the modifiers are given of a source: one state index for each option.
IsGiven(h) ==
  /\ h.source \in StoredSources
  /\ Len(h.targets) = Len(OptionsOf(h.source))
  /\ \A k \in 1..Len(OptionsOf(h.source)) :
       /\ h.targets[k] \in 0..Len(contents) - 1
       /\ contents[h.targets[k] + 1] = OptionsOf(h.source)[k].target

Traversed ==
  /\ StorageFacts
  /\ status \in {"created", "traversing", "finished", "stopped", "thrown"}
  /\ \A h \in expanded : IsGiven(h)
  /\ \A g, h \in expanded : g.source = h.source => g = h
  /\ status = "created" => expanded = {}
  /\ status = "finished" => {h.source : h \in expanded} = StoredSources
  /\ \A n \in 1..Len(contents) : contents[n] \in ReachableStates
  /\ call = "check" /\ status \in {"finished", "stopped"} => (reached <=> PsiReachable)

\* A step of the traversal leaves what is stored and given as it is.
Extends ==
  /\ Len(contents) <= Len(contents')
  /\ \A n \in 1..Len(contents) : contents'[n] = contents[n]
  /\ expanded \subseteq expanded'

\* What holds before and after a step, and of the step itself.
FacadeStep ==
  /\ [PemcNext]_pemc
  /\ CallsInv /\ CallsInv' /\ Traversed /\ Traversed'
  /\ Traverse => Extends /\ status \in {"created", "traversing"}

-----------------------------------------------------------------------------
(***************************************************************************)
(* The chain of a build: what the modifier is given.                       *)
(***************************************************************************)
ChainInv ==
  chain = [from |-> IF call = "check" THEN [s \in {} |-> <<>>] ELSE GivenToModifier,
           stuttering |-> NoStuttering, formulas |-> program.formulas]

LEMMA InitChain == PemcInit => ChainInv
PROOF BY DEF PemcInit, ChainInv, EmptyChain

LEMMA NextKeepsChain ==
  ASSUME FacadeStep, ChainInv PROVE ChainInv'
PROOF
<1>1. CASE Traverse
  <2>1. /\ program' = program /\ call' = call
        /\ chain' = IF call = "build" THEN [chain EXCEPT !.from = GivenToModifier'] ELSE chain
        /\ call \in {"check", "build"}
    BY <1>1 DEF Traverse, client
  <2> QED BY <2>1 DEF ChainInv
<1>2. CASE ReturnVerdict
  <2>1. /\ program' = program /\ call = "check" /\ call' # "check" /\ chain' = chain
        /\ expanded' = {}
    BY <1>2 DEF ReturnVerdict, client, allVars, vars
  <2>2. GivenToModifier' = [s \in {} |-> <<>>]
    BY <2>1 DEF GivenToModifier
  <2> QED BY <2>1, <2>2 DEF ChainInv
<1>3. CASE ~Traverse /\ (Throw \/ TraversalStays)
  <2>1. chain' = chain
    BY <1>3, ChainSteps DEF FacadeStep
  <2>2. /\ program' = program /\ contents' = contents /\ expanded' = expanded
        /\ call' = call \/ (call # "check" /\ call' # "check")
    BY <1>3 DEF Throw, TraversalStays, client, traversal
  <2>3. GivenToModifier' = GivenToModifier
    BY <2>2 DEF GivenToModifier, GivenTo
  <2> QED BY <2>1, <2>2, <2>3 DEF ChainInv
<1> QED BY <1>1, <1>2, <1>3, TraversalSteps DEF FacadeStep

\* The transitions given for a source are the options of its step.
GivenIsStep(s) ==
  /\ s \in StoredSources
  /\ Len(Given(s)) = Len(OptionsOf(s)) /\ Len(Given(s)) \in Nat \ {0}
  /\ \A k \in 1..Len(Given(s)) :
       /\ Given(s)[k].targetStateIndex \in 0..Len(contents) - 1
       /\ contents[Given(s)[k].targetStateIndex + 1] = OptionsOf(s)[k].target
       /\ Given(s)[k].probability = OptionsOf(s)[k].weight * Unit
       /\ Given(s)[k].label = LabelAt(program, OptionsOf(s)[k].target)

LEMMA SourceStateTyped ==
  ASSUME CallsInv, Traversed, NEW s \in StoredSources
  PROVE  /\ SourceState(s) \in ProgramStates
         /\ OptionsOf(s) \in Seq(Options) /\ Len(OptionsOf(s)) \in Nat \ {0}
PROOF
<1>1. SourceState(s) \in ProgramStates
  <2>1. CASE s = NoSource
    BY <2>1, ProgramFacts DEF SourceState, CallsInv, ClientInv
  <2>2. CASE s \in 0..Len(contents) - 1 /\ s # NoSource
    <3>1. contents \in Seq(ProgramStates)
      BY DEF Traversed, StorageFacts
    <3>2. s + 1 \in 1..Len(contents)
      BY <2>2, <3>1
    <3> QED BY <2>2, <3>1, <3>2 DEF SourceState
  <2> QED BY <2>1, <2>2 DEF StoredSources
<1> QED BY <1>1, StepFacts DEF OptionsOf, CallsInv, ClientInv

LEMMA GivenIs ==
  ASSUME CallsInv, Traversed, ChainInv, call # "check"
  PROVE  /\ DOMAIN chain.from = {h.source : h \in expanded}
         /\ \A h \in expanded : Given(h.source) = GivenTo(h)
PROOF
<1>1. chain.from = GivenToModifier
  BY DEF ChainInv
<1>2. DOMAIN chain.from = {h.source : h \in expanded}
  BY <1>1 DEF GivenToModifier
<1>3. ASSUME NEW h \in expanded PROVE Given(h.source) = GivenTo(h)
  <2>1. (CHOOSE g \in expanded : g.source = h.source) = h
    BY DEF Traversed
  <2> QED BY <1>1, <2>1 DEF Given, GivenToModifier
<1> QED BY <1>2, <1>3

LEMMA GivenFacts ==
  ASSUME CallsInv, Traversed, ChainInv
  PROVE  \A s \in DOMAIN chain.from : GivenIsStep(s)
PROOF
<1> SUFFICES ASSUME NEW s \in DOMAIN chain.from PROVE GivenIsStep(s)
  OBVIOUS
<1>1. call # "check"
  BY DEF ChainInv
<1>2. PICK h \in expanded : h.source = s /\ Given(s) = GivenTo(h)
  BY <1>1, GivenIs
<1>3. /\ s \in StoredSources /\ Len(h.targets) = Len(OptionsOf(s))
      /\ \A k \in 1..Len(OptionsOf(s)) :
           /\ h.targets[k] \in 0..Len(contents) - 1
           /\ contents[h.targets[k] + 1] = OptionsOf(s)[k].target
  BY <1>2 DEF Traversed, IsGiven
<1>4. Len(OptionsOf(s)) \in Nat \ {0}
  BY <1>3, SourceStateTyped
<1> DEFINE step == OptionsOf(s)
           given == Given(s)
<1>5. given = [k \in 1..Len(step) |->
                 [probability |-> step[k].weight * Unit, targetStateIndex |-> h.targets[k],
                  label |-> LabelAt(program, step[k].target)]]
  BY <1>2, <1>3 DEF GivenTo, OptionsOf, SourceState
<1> HIDE DEF step, given
<1>6. Len(step) \in Nat
  BY <1>4 DEF step
<1>7. Len(given) = Len(step)
  BY <1>5, <1>6
<1>8. \A k \in 1..Len(step) :
        /\ given[k].targetStateIndex = h.targets[k]
        /\ given[k].probability = step[k].weight * Unit
        /\ given[k].label = LabelAt(program, step[k].target)
  BY <1>5
<1> QED BY <1>3, <1>4, <1>7, <1>8 DEF GivenIsStep, given, step

\* What was given of a source stays given.
LEMMA GivenStays ==
  ASSUME FacadeStep, ChainInv, ChainInv'
  PROVE  /\ DOMAIN chain.from \subseteq DOMAIN chain'.from
         /\ \A s \in DOMAIN chain.from : Given(s)' = Given(s)
PROOF
<1>1. CASE chain' = chain
  BY <1>1 DEF Given
<1>2. CASE Traverse
  <2> SUFFICES ASSUME NEW s \in DOMAIN chain.from
               PROVE  s \in DOMAIN chain'.from /\ Given(s)' = Given(s)
    OBVIOUS
  <2>1. /\ CallsInv /\ Traversed /\ CallsInv' /\ Traversed' /\ Extends
    BY <1>2 DEF FacadeStep
  <2>2. /\ program' = program /\ call' = call
    BY <1>2 DEF Traverse, client
  <2>3. call # "check"
    BY DEF ChainInv
  <2>4. PICK h \in expanded : h.source = s /\ Given(s) = GivenTo(h)
    BY <2>1, <2>3, GivenIs
  <2>5. h \in expanded'
    BY <2>1, <2>4 DEF Extends
  <2>6. /\ chain'.from = GivenToModifier'
    BY <2>2, <2>3 DEF ChainInv
  <2>7. (CHOOSE g \in expanded' : g.source = s) = h
    BY <2>1, <2>4, <2>5 DEF Traversed
  <2>8. s \in DOMAIN chain'.from /\ chain'.from[s] = GivenTo(h)'
    <3>1. s \in {g.source : g \in expanded'}
      BY <2>4, <2>5
    <3>2. /\ DOMAIN chain'.from = {g.source : g \in expanded'}
          /\ chain'.from[s] = GivenTo(CHOOSE g \in expanded : g.source = s)'
      BY <2>6, <3>1 DEF GivenToModifier
    <3>3. GivenTo(CHOOSE g \in expanded : g.source = s)' = GivenTo(h)'
      BY <2>7
    <3> QED BY <3>1, <3>2, <3>3
  <2>9. GivenTo(h)' = GivenTo(h)
    <3>1. s \in StoredSources /\ contents \in Seq(ProgramStates)
      BY <2>1, <2>4 DEF Traversed, IsGiven, StorageFacts
    <3>2. s = NoSource \/ contents'[s + 1] = contents[s + 1]
      BY <2>1, <3>1 DEF Extends, StoredSources
    <3> QED BY <2>2, <2>4, <3>2 DEF GivenTo
  <2> QED BY <2>4, <2>8, <2>9 DEF Given
<1> QED BY <1>1, <1>2, ChainSteps DEF FacadeStep
-----------------------------------------------------------------------------
(***************************************************************************)
(* The array of a build, which the only worker fills: the blocks of the    *)
(* sources it has handled lie side by side, without a gap, below the one   *)
(* it is filling.  A modifier that throws leaves an array without meaning, *)
(* and no chain.                                                           *)
(***************************************************************************)
WorkerInv ==
  /\ pc \in [Threads -> {"idle", "placed", "writing", "thrown"}]
  /\ \A t \in Threads \ {worker} : pc[t] = "idle"
  /\ source \in [Threads -> Sources]
  /\ location \in [Threads -> Nat] /\ written \in [Threads -> Nat]
  /\ maxNumberOfTransitions \in Nat /\ transitionCount \in Nat /\ stateCount \in Nat
  /\ handled \subseteq DOMAIN chain.from
  /\ pc[worker] \in {"placed", "writing"} =>
       /\ source[worker] \in DOMAIN chain.from
       /\ source[worker] \notin handled
       /\ transitionCount = location[worker] + Len(Given(source[worker]))
       /\ transitionCount < maxNumberOfTransitions
  /\ pc[worker] = "writing" =>
       /\ range[source[worker]] =
            [from |-> location[worker], elements |-> Len(Given(source[worker]))]
       /\ written[worker] <= Len(Given(source[worker]))
       /\ Reads(location[worker], source[worker], written[worker])

\* How many entries the blocks of the handled sources take.
Used == IF pc[worker] \in {"placed", "writing"} THEN location[worker] ELSE transitionCount

IsBlock(s) ==
  /\ range[s].from \in Nat /\ range[s].elements = Len(Given(s))
  /\ range[s].from + Len(Given(s)) <= Used
  /\ Reads(range[s].from, s, Len(Given(s)))

BlocksInv ==
  pc[worker] # "thrown" =>
    /\ \A s \in handled : IsBlock(s)
    /\ \A k \in 0..Used - 1 : \E s \in handled : k \in Block(s)

\* The formulas that the traversal evaluates compile once it has begun.
CompiledInv ==
  call \in {"check", "build"} /\ status \in {"traversing", "finished", "stopped"} =>
    \A f \in CompiledFormulas : CompilesOnState(f)

\* A chain is returned when everything that was stored is handled.
ReturnedInv ==
  /\ stateCount = 0 => /\ DOMAIN transitions = 0..maxNumberOfTransitions - 1
                       /\ DOMAIN range = Sources
  /\ stateCount > 0 =>
       /\ pc[worker] = "idle" /\ handled = DOMAIN chain.from
       /\ status = "finished" /\ call \in {"calculate", "none"}
       /\ stateCount = Len(contents)
       /\ DOMAIN range = StoredSources /\ handled = StoredSources
       /\ DOMAIN transitions = 0..transitionCount - 1
       /\ \A f \in Range(program.formulas) : CompilesOnState(f)

ArrayInv == WorkerInv /\ BlocksInv /\ CompiledInv /\ ReturnedInv

LEMMA InitArray == PemcInit => ArrayInv
PROOF
<1> SUFFICES ASSUME PemcInit PROVE ArrayInv
  OBVIOUS
<1>1. /\ pc = [t \in Threads |-> "idle"] /\ source = [t \in Threads |-> NoSource]
      /\ location = [t \in Threads |-> 0] /\ written = [t \in Threads |-> 0]
      /\ handled = {} /\ transitionCount = 0 /\ stateCount = 0
      /\ maxNumberOfTransitions \in Nat /\ worker \in Threads /\ status = "created"
      /\ transitions = [k \in 0..maxNumberOfTransitions - 1 |-> NoEntry]
      /\ range = [s \in Sources |-> NoRange]
  BY ProgramAssumption DEF PemcInit
<1>2. WorkerInv
  BY <1>1 DEF WorkerInv, Sources
<1>3. BlocksInv /\ CompiledInv /\ ReturnedInv
  BY <1>1 DEF BlocksInv, Used, CompiledInv, ReturnedInv
<1> QED BY <1>2, <1>3 DEF ArrayInv

\* The sources of the chain are places of the array.
LEMMA ChainSources ==
  ASSUME CallsInv, Traversed, ChainInv
  PROVE  /\ DOMAIN chain.from \subseteq StoredSources
         /\ StoredSources \subseteq Sources /\ Sources \subseteq Int
         /\ \A s \in DOMAIN chain.from : Len(Given(s)) \in Nat \ {0}
PROOF
<1>1. Len(contents) \in Nat /\ conf.states \in 1..MaximalStates /\ Len(contents) <= conf.states
  BY ProgramAssumption DEF Traversed, StorageFacts, CallsInv, ClientInv
<1>2. 0..Len(contents) - 1 \subseteq StateIndexes
  BY <1>1, ArrayAssumption, ConstantFacts
<1> QED BY <1>2, GivenFacts, ConstantFacts
        DEF GivenIsStep, StoredSources, Sources, NoSource

LEMMA NextKeepsCompiled ==
  ASSUME FacadeStep, CompiledInv PROVE CompiledInv'
PROOF
<1>1. CASE Traverse
  <2>1. /\ status \in {"created", "traversing"} /\ ~CalculationThrows
        /\ call' = call /\ program' = program /\ psi' = psi /\ call \in {"check", "build"}
    BY <1>1 DEF FacadeStep, Traverse, client
  <2>2. \A f \in CompiledFormulas : CompilesOnState(f)
    <3>1. CASE status = "created"
      BY <2>1, <3>1 DEF CalculationThrows, Calculates
    <3>2. CASE status = "traversing"
      BY <2>1, <3>2 DEF CompiledInv
    <3> QED BY <2>1, <3>1, <3>2
  <2>3. CompiledFormulas' = CompiledFormulas
    BY <2>1 DEF CompiledFormulas
  <2> QED BY <2>2, <2>3 DEF CompiledInv
<1>2. CASE Throw
  BY <1>2 DEF Throw, CompiledInv
<1>3. CASE ReturnVerdict
  BY <1>3 DEF ReturnVerdict, CompiledInv
<1>4. CASE TraversalStays
  <2>1. /\ program' = program /\ psi' = psi /\ status' = status
        /\ call' = call \/ (call # "check" /\ call' # "check")
    BY <1>4 DEF TraversalStays, client, traversal
  <2>2. CASE call' = call
    BY <2>1, <2>2 DEF CompiledInv, CompiledFormulas
  <2>3. CASE call' # call
    <3>1. call' \notin {"check", "build"}
      BY <2>1, <2>3, CallChanges DEF FacadeStep, CallsInv
    <3> QED BY <3>1 DEF CompiledInv
  <2> QED BY <2>2, <2>3
<1> QED BY <1>1, <1>2, <1>3, <1>4, TraversalSteps DEF FacadeStep

\* A step that leaves the array as it is.
LEMMA StayKeepsArray ==
  ASSUME FacadeStep, ChainInv, ChainInv', WorkerInv, BlocksInv, ReturnedInv, ArrayStays
  PROVE  WorkerInv' /\ BlocksInv' /\ ReturnedInv'
PROOF
<1>1. /\ UNCHANGED <<maxNumberOfTransitions, transitionCount, transitions, range, stateCount,
                     pc, source, location, written, handled>>
  BY DEF ArrayStays, lmc
<1>2. /\ DOMAIN chain.from \subseteq DOMAIN chain'.from
      /\ \A s \in DOMAIN chain.from : Given(s)' = Given(s)
  BY GivenStays
<1>3. \A s \in DOMAIN chain.from : \A a, n : Reads(a, s, n) => Reads(a, s, n)'
  BY <1>1, <1>2 DEF Reads
<1>4. WorkerInv'
  BY <1>1, <1>2, <1>3 DEF WorkerInv
<1>5. BlocksInv'
  <2>1. Used' = Used /\ \A s : Block(s)' = Block(s)
    BY <1>1 DEF Used, Block
  <2>2. \A s \in handled : IsBlock(s) => IsBlock(s)'
    BY <1>1, <1>2, <1>3, <2>1 DEF IsBlock, WorkerInv
  <2> QED BY <1>1, <2>1, <2>2 DEF BlocksInv
<1>6. ReturnedInv'
  <2>1. CASE stateCount = 0
    BY <1>1, <2>1 DEF ReturnedInv
  <2>2. CASE stateCount > 0
    <3>1. call \in {"calculate", "none"}
      BY <2>2 DEF ReturnedInv
    <3>2. TraversalStays /\ call' \in {"calculate", "none"} /\ chain' = chain
      BY <3>1, TraversalSteps, ChainSteps, CallChanges DEF FacadeStep, Traverse, Throw, ReturnVerdict
    <3>3. /\ program' = program /\ contents' = contents /\ status' = status
          /\ StoredSources' = StoredSources
      BY <3>2 DEF TraversalStays, client, traversal, StoredSources
    <3> QED BY <1>1, <2>2, <3>2, <3>3 DEF ReturnedInv
  <2>3. stateCount \in Nat
    BY DEF WorkerInv
  <2> QED BY <2>1, <2>2, <2>3
<1> QED BY <1>4, <1>5, <1>6

\* A step of the modifier.
LEMMA ModifierSteps ==
  ASSUME FacadeStep, ChainInv, WorkerInv, ReturnedInv, AddTransitions
  PROVE  /\ stateCount = 0 /\ stateCount' = 0 /\ chain' = chain
         /\ maxNumberOfTransitions' = maxNumberOfTransitions
         /\ DOMAIN transitions = 0..maxNumberOfTransitions - 1 /\ DOMAIN range = Sources
         /\ \A s : Given(s)' = Given(s)
         /\ worker \in Threads
         /\ \/ \E s \in Sources : Place(worker, s)
            \/ Record(worker) \/ Write(worker) \/ Return(worker)
PROOF
<1>1. call = "build" /\ Worker(worker)
  BY DEF AddTransitions
<1>2. stateCount = 0
  BY <1>1 DEF ReturnedInv, WorkerInv
<1>3. chain' = chain /\ stateCount' = stateCount /\ maxNumberOfTransitions' = maxNumberOfTransitions
  BY <1>1 DEF Worker, Place, Record, Write, Return, lmc
<1> QED BY <1>1, <1>2, <1>3, ConstantFacts DEF ReturnedInv, Given, Worker

LEMMA PlaceKeepsArray ==
  ASSUME FacadeStep, ChainInv, WorkerInv, BlocksInv, ReturnedInv, AddTransitions,
         NEW s \in Sources, Place(worker, s)
  PROVE  WorkerInv' /\ BlocksInv' /\ ReturnedInv'
PROOF
<1>1. /\ stateCount = 0 /\ stateCount' = 0 /\ chain' = chain
      /\ maxNumberOfTransitions' = maxNumberOfTransitions
      /\ DOMAIN transitions = 0..maxNumberOfTransitions - 1 /\ DOMAIN range = Sources
      /\ \A q : Given(q)' = Given(q)
      /\ worker \in Threads
  BY ModifierSteps
<1>2. /\ s \in DOMAIN chain.from /\ s \notin handled /\ pc[worker] = "idle"
      /\ transitionCount' = transitionCount + Len(Given(s))
      /\ source' = [source EXCEPT ![worker] = s]
      /\ location' = [location EXCEPT ![worker] = transitionCount]
      /\ pc' = [pc EXCEPT ![worker] = IF Refuses(transitionCount, Len(Given(s))) THEN "thrown"
                                      ELSE "placed"]
      /\ UNCHANGED <<transitions, range, written, handled>>
  BY DEF Place, Claimed
<1>3. Len(Given(s)) \in Nat \ {0}
  BY <1>2, ChainSources DEF FacadeStep
<1>4. /\ pc'[worker] \in {"placed", "thrown"} /\ source'[worker] = s
      /\ location'[worker] = transitionCount
      /\ \A t \in Threads \ {worker} : pc'[t] = "idle"
      /\ pc' \in [Threads -> {"idle", "placed", "writing", "thrown"}]
      /\ source' \in [Threads -> Sources] /\ location' \in [Threads -> Nat]
      /\ transitionCount \in Nat /\ maxNumberOfTransitions \in Nat
  BY <1>1, <1>2 DEF WorkerInv
<1>5. pc'[worker] = "placed" => transitionCount' < maxNumberOfTransitions
  BY <1>1, <1>2, <1>3, <1>4 DEF Refuses, WorkerInv
<1>6. WorkerInv'
  <2>1. transitionCount' \in Nat /\ transitionCount' = location'[worker] + Len(Given(s))
    BY <1>2, <1>3, <1>4
  <2>2. pc'[worker] # "writing" /\ s \notin handled'
    BY <1>2, <1>4
  <2>3. handled' \subseteq DOMAIN chain'.from
    BY <1>1, <1>2 DEF WorkerInv
  <2>4. /\ written' \in [Threads -> Nat] /\ stateCount' \in Nat
        /\ maxNumberOfTransitions' \in Nat
    BY <1>1, <1>2 DEF WorkerInv
  <2>5. Given(source[worker])' = Given(s)
    BY <1>1, <1>4 DEF Given
  <2> HIDE DEF Given
  <2> QED BY <1>1, <1>2, <1>4, <1>5, <2>1, <2>2, <2>3, <2>4, <2>5 DEF WorkerInv
<1>7. BlocksInv'
  <2>1. pc'[worker] # "thrown" => Used' = Used
    BY <1>2, <1>4 DEF Used
  <2>2. \A q, a, n : Reads(a, q, n)' = Reads(a, q, n)
    BY <1>1, <1>2 DEF Reads
  <2>3. \A q : Block(q)' = Block(q)
    BY <1>2 DEF Block
  <2>4. pc'[worker] # "thrown" => \A q \in handled : IsBlock(q) => IsBlock(q)'
    BY <1>1, <1>2, <2>1, <2>2 DEF IsBlock
  <2> QED BY <1>2, <2>1, <2>3, <2>4 DEF BlocksInv
<1>8. ReturnedInv'
  BY <1>1, <1>2 DEF ReturnedInv
<1> QED BY <1>6, <1>7, <1>8

LEMMA RecordKeepsArray ==
  ASSUME FacadeStep, ChainInv, WorkerInv, BlocksInv, ReturnedInv, AddTransitions, Record(worker)
  PROVE  WorkerInv' /\ BlocksInv' /\ ReturnedInv'
PROOF
<1> DEFINE s == source[worker]
<1>1. /\ stateCount = 0 /\ stateCount' = 0 /\ chain' = chain
      /\ maxNumberOfTransitions' = maxNumberOfTransitions
      /\ DOMAIN transitions = 0..maxNumberOfTransitions - 1 /\ DOMAIN range = Sources
      /\ \A q : Given(q)' = Given(q)
      /\ worker \in Threads
  BY ModifierSteps
<1>2. /\ pc[worker] = "placed"
      /\ range' = [range EXCEPT ![s] = [from |-> location[worker], elements |-> Len(Given(s))]]
      /\ written' = [written EXCEPT ![worker] = 0]
      /\ pc' = [pc EXCEPT ![worker] = "writing"]
      /\ UNCHANGED <<transitionCount, transitions, source, location, handled>>
  BY DEF Record, RecordedSource
<1>3. /\ s \in DOMAIN chain.from /\ s \notin handled /\ s \in Sources
      /\ Len(Given(s)) \in Nat
  BY <1>2, ChainSources DEF FacadeStep, WorkerInv
<1> HIDE DEF s
<1>4. /\ pc'[worker] = "writing" /\ written'[worker] = 0
      /\ \A t \in Threads \ {worker} : pc'[t] = "idle"
      /\ pc' \in [Threads -> {"idle", "placed", "writing", "thrown"}]
      /\ written' \in [Threads -> Nat]
      /\ DOMAIN range' = Sources
      /\ range'[s] = [from |-> location[worker], elements |-> Len(Given(s))]
      /\ \A q \in handled : range'[q] = range[q]
  BY <1>1, <1>2, <1>3 DEF WorkerInv
<1>5. \A q, a, n : Reads(a, q, n)' = Reads(a, q, n)
  BY <1>1, <1>2 DEF Reads
<1>6. Reads(location[worker], s, 0)'
  BY DEF Reads
<1>7. WorkerInv'
  BY <1>1, <1>2, <1>3, <1>4, <1>6 DEF WorkerInv, s
<1>8. BlocksInv'
  <2>1. Used' = Used
    BY <1>2, <1>4 DEF Used
  <2>2. \A q \in handled : Block(q)' = Block(q)
    BY <1>4 DEF Block
  <2>3. \A q \in handled : IsBlock(q) => IsBlock(q)'
    BY <1>1, <1>4, <1>5, <2>1 DEF IsBlock
  <2> QED BY <1>2, <2>1, <2>2, <2>3 DEF BlocksInv
<1>9. ReturnedInv'
  BY <1>1, <1>2, <1>4 DEF ReturnedInv
<1> QED BY <1>7, <1>8, <1>9

LEMMA WriteKeepsArray ==
  ASSUME FacadeStep, ChainInv, WorkerInv, BlocksInv, ReturnedInv, AddTransitions, Write(worker)
  PROVE  WorkerInv' /\ BlocksInv' /\ ReturnedInv'
PROOF
<1> DEFINE s == source[worker]
           a == location[worker]
           n == written[worker]
<1>1. /\ stateCount = 0 /\ stateCount' = 0 /\ chain' = chain
      /\ maxNumberOfTransitions' = maxNumberOfTransitions
      /\ DOMAIN transitions = 0..maxNumberOfTransitions - 1 /\ DOMAIN range = Sources
      /\ \A q : Given(q)' = Given(q)
      /\ worker \in Threads
  BY ModifierSteps
<1>2. /\ pc[worker] = "writing" /\ n < Len(Given(s))
      /\ transitions' = [transitions EXCEPT ![a + n] = Entry(Given(s)[n + 1])]
      /\ written' = [written EXCEPT ![worker] = n + 1]
      /\ UNCHANGED <<transitionCount, range, pc, source, location, handled>>
  BY DEF Write
<1>3. /\ a \in Nat /\ n \in Nat /\ Len(Given(s)) \in Nat /\ s \notin handled
      /\ s \in DOMAIN chain.from
      /\ transitionCount = a + Len(Given(s)) /\ transitionCount < maxNumberOfTransitions
      /\ Reads(a, s, n) /\ maxNumberOfTransitions \in Nat
      /\ range[s] = [from |-> a, elements |-> Len(Given(s))]
  BY <1>1, <1>2, ChainSources DEF FacadeStep, WorkerInv
<1>4. /\ written' \in [Threads -> Nat] /\ written'[worker] = n + 1 /\ n + 1 <= Len(Given(s))
  BY <1>1, <1>2, <1>3 DEF WorkerInv
<1> HIDE DEF s, a, n
<1>5. /\ DOMAIN transitions' = DOMAIN transitions
      /\ transitions'[a + n] = Entry(Given(s)[n + 1])
      /\ \A k \in Int : k # a + n => transitions'[k] = transitions[k]
  <2>1. a + n \in DOMAIN transitions
    BY <1>1, <1>2, <1>3
  <2> QED BY <1>2, <2>1
<1>6. ASSUME NEW k \in 1..n + 1 PROVE transitions'[a + k - 1] = Entry(Given(s)[k])
  <2>1. CASE k = n + 1
    BY <1>3, <1>5, <2>1
  <2>2. CASE k \in 1..n
    <3>1. transitions[a + k - 1] = Entry(Given(s)[k])
      BY <1>3, <2>2 DEF Reads
    <3>2. a + k - 1 \in Int /\ a + k - 1 # a + n
      BY <1>3, <2>2
    <3> QED BY <1>5, <3>1, <3>2
  <2>3. k = n + 1 \/ k \in 1..n
    BY <1>3
  <2> QED BY <2>1, <2>2, <2>3
<1>7. WorkerInv'
  <2>1. /\ Given(source[worker])' = Given(s) /\ source'[worker] = s /\ location'[worker] = a
        /\ range' = range /\ pc' = pc /\ handled' = handled /\ chain' = chain
        /\ location' = location /\ source' = source
        /\ transitionCount' = transitionCount /\ stateCount' = stateCount
    BY <1>1, <1>2 DEF s, a
  <2>2. Reads(location[worker], source[worker], written[worker])'
    BY <1>1, <1>4, <1>6, <2>1 DEF Reads
  <2> QED BY <1>1, <1>2, <1>3, <1>4, <2>1, <2>2 DEF WorkerInv
<1>8. BlocksInv'
  <2>1. Used' = Used /\ Used = a /\ \A q : Block(q)' = Block(q)
    BY <1>2 DEF Used, Block, a
  <2>2. ASSUME NEW q \in handled, IsBlock(q) PROVE IsBlock(q)'
    <3>1. /\ range[q].from \in Nat /\ range[q].elements = Len(Given(q))
          /\ range[q].from + Len(Given(q)) <= a
          /\ Reads(range[q].from, q, Len(Given(q)))
      BY <2>1, <2>2 DEF IsBlock
    <3>2. Len(Given(q)) \in Nat
      BY ChainSources DEF FacadeStep, WorkerInv
    <3>3. ASSUME NEW k \in 1..Len(Given(q))
          PROVE  transitions'[range[q].from + k - 1] = Entry(Given(q)[k])
      <4>1. range[q].from + k - 1 \in Int /\ range[q].from + k - 1 # a + n
        BY <1>3, <3>1, <3>2
      <4> QED BY <1>5, <3>1, <4>1 DEF Reads
    <3>4. Reads(range[q].from, q, Len(Given(q)))'
      BY <1>1, <1>2, <3>3 DEF Reads
    <3> QED BY <1>1, <1>2, <2>1, <3>1, <3>4 DEF IsBlock
  <2> QED BY <1>2, <2>1, <2>2 DEF BlocksInv
<1>9. ReturnedInv'
  BY <1>1, <1>2, <1>5 DEF ReturnedInv
<1> QED BY <1>7, <1>8, <1>9

LEMMA ReturnKeepsArray ==
  ASSUME FacadeStep, ChainInv, WorkerInv, BlocksInv, ReturnedInv, AddTransitions, Return(worker)
  PROVE  WorkerInv' /\ BlocksInv' /\ ReturnedInv'
PROOF
<1> DEFINE s == source[worker]
           a == location[worker]
<1>1. /\ stateCount = 0 /\ stateCount' = 0 /\ chain' = chain
      /\ maxNumberOfTransitions' = maxNumberOfTransitions
      /\ DOMAIN transitions = 0..maxNumberOfTransitions - 1 /\ DOMAIN range = Sources
      /\ \A q : Given(q)' = Given(q)
      /\ worker \in Threads
  BY ModifierSteps
<1>2. /\ pc[worker] = "writing" /\ written[worker] = Len(Given(s))
      /\ handled' = handled \cup {s}
      /\ pc' = [pc EXCEPT ![worker] = "idle"]
      /\ source' = [source EXCEPT ![worker] = NoSource]
      /\ location' = [location EXCEPT ![worker] = 0]
      /\ written' = [written EXCEPT ![worker] = 0]
      /\ UNCHANGED <<transitionCount, transitions, range>>
  BY DEF Return, lmc
<1>3. /\ a \in Nat /\ Len(Given(s)) \in Nat /\ s \in DOMAIN chain.from
      /\ transitionCount = a + Len(Given(s))
      /\ Reads(a, s, Len(Given(s)))
      /\ range[s] = [from |-> a, elements |-> Len(Given(s))]
  BY <1>1, <1>2, ChainSources DEF FacadeStep, WorkerInv
<1>4. WorkerInv'
  <2>1. NoSource \in Sources
    BY DEF Sources
  <2>2. /\ pc'[worker] = "idle" /\ \A t \in Threads \ {worker} : pc'[t] = "idle"
        /\ pc' \in [Threads -> {"idle", "placed", "writing", "thrown"}]
        /\ source' \in [Threads -> Sources]
        /\ location' \in [Threads -> Nat] /\ written' \in [Threads -> Nat]
    BY <1>1, <1>2, <2>1 DEF WorkerInv
  <2>3. handled' \subseteq DOMAIN chain'.from
    BY <1>1, <1>2, <1>3 DEF WorkerInv
  <2> QED BY <1>1, <1>2, <2>2, <2>3 DEF WorkerInv
<1>5. pc'[worker] = "idle"
  BY <1>1, <1>2 DEF WorkerInv
<1>6. Used' = transitionCount /\ Used = a
  BY <1>2, <1>5 DEF Used
<1>7. \A q, b, n : Reads(b, q, n)' = Reads(b, q, n)
  BY <1>1, <1>2 DEF Reads
<1> HIDE DEF s, a
<1>8. BlocksInv'
  <2>1. \A q : Block(q)' = Block(q)
    BY <1>2 DEF Block
  <2>2. ASSUME NEW q \in handled' PROVE IsBlock(q)'
    <3>1. CASE q = s
      BY <1>1, <1>2, <1>3, <1>6, <1>7, <3>1 DEF IsBlock
    <3>2. CASE q \in handled
      <4>1. /\ range[q].from \in Nat /\ range[q].elements = Len(Given(q))
            /\ range[q].from + Len(Given(q)) <= a
            /\ Reads(range[q].from, q, Len(Given(q)))
        BY <1>2, <1>6, <3>2 DEF IsBlock, BlocksInv
      <4>2. Len(Given(q)) \in Nat
        BY <3>2, ChainSources DEF FacadeStep, WorkerInv
      <4>3. range[q].from + Len(Given(q)) <= transitionCount
        BY <1>3, <4>1, <4>2
      <4> QED BY <1>1, <1>2, <1>6, <1>7, <4>1, <4>3 DEF IsBlock
    <3> QED BY <1>2, <3>1, <3>2
  <2>3. ASSUME NEW k \in 0..transitionCount - 1 PROVE \E q \in handled' : k \in Block(q)'
    <3>1. CASE k \in 0..a - 1
      BY <1>2, <1>6, <2>1, <3>1 DEF BlocksInv
    <3>2. CASE k \in a..a + Len(Given(s)) - 1
      BY <1>2, <1>3, <3>2 DEF Block
    <3> QED BY <1>3, <3>1, <3>2
  <2> QED BY <1>2, <1>6, <2>2, <2>3 DEF BlocksInv
<1>9. ReturnedInv'
  BY <1>1, <1>2 DEF ReturnedInv
<1> QED BY <1>4, <1>8, <1>9

\* finishCreation, in a build that stored and handled everything.
LEMMA ReturnChainIs ==
  ASSUME FacadeStep, ChainInv, ArrayInv, ReturnChain
  PROVE  /\ call = "build" /\ status = "finished" /\ call' = "calculate"
         /\ UNCHANGED <<client, traversal, chain, maxNumberOfTransitions, transitionCount,
                        pc, source, location, written, handled>>
         /\ pc[worker] = "idle" /\ handled = DOMAIN chain.from /\ handled = StoredSources
         /\ stateCount = 0 /\ DOMAIN range = Sources
         /\ DOMAIN transitions = 0..maxNumberOfTransitions - 1
         /\ stateCount' = Len(contents) /\ Len(contents) \in Nat \ {0}
         /\ range' = [s \in StoredSources |-> range[s]]
         /\ transitions' = [k \in 0..transitionCount - 1 |-> transitions[k]]
         /\ \A f \in Range(program.formulas) : CompilesOnState(f)
PROOF
<1>1. /\ call = "build" /\ status = "finished" /\ call' = "calculate"
      /\ UNCHANGED <<client, traversal>> /\ FinishCreation
  BY DEF ReturnChain
<1>2. /\ stateCount = 0 /\ Complete /\ stateCount' = NoOfStates
      /\ range' = [s \in {NoSource} \cup 0..stateCount' - 1 |-> range[s]]
      /\ transitions' = [k \in 0..transitionCount - 1 |-> transitions[k]]
      /\ UNCHANGED <<chain, maxNumberOfTransitions, transitionCount, pc, source, location,
                     written, handled>>
  BY <1>1 DEF FinishCreation
<1>3. pc[worker] = "idle" /\ handled = DOMAIN chain.from
  BY <1>2, ConstantFacts DEF Complete
<1>4. handled = StoredSources
  <2>1. DOMAIN chain.from = {h.source : h \in expanded}
    BY <1>1, GivenIs DEF FacadeStep
  <2>2. {h.source : h \in expanded} = StoredSources
    BY <1>1 DEF FacadeStep, Traversed
  <2> QED BY <1>3, <2>1, <2>2
<1>5. Len(contents) \in Nat \ {0}
  <2>1. NoSource \in DOMAIN chain.from
    BY <1>3, <1>4 DEF StoredSources
  <2>2. GivenIsStep(NoSource)
    BY <2>1, GivenFacts DEF FacadeStep
  <2>3. 1 \in 1..Len(Given(NoSource))
    BY <2>2 DEF GivenIsStep
  <2>4. Given(NoSource)[1].targetStateIndex \in 0..Len(contents) - 1
    BY <2>2, <2>3 DEF GivenIsStep
  <2>5. Len(contents) \in Nat
    BY DEF FacadeStep, Traversed, StorageFacts
  <2> QED BY <2>4, <2>5
<1>6. stateCount' = Len(contents)
  <2>1. chain.stuttering = NoStuttering
    BY DEF ChainInv
  <2>2. NoOfStates = Cardinality(0..Len(contents) - 1)
    <3>1. (StoredSources \cup {NoStuttering}) \ {NoSource, NoStuttering} = 0..Len(contents) - 1
      BY <1>5 DEF StoredSources, NoSource, NoStuttering
    <3> QED BY <1>4, <2>1, <3>1 DEF NoOfStates
  <2>3. Cardinality(0..Len(contents) - 1) = Len(contents)
    BY <1>5, FS_Interval
  <2> QED BY <1>2, <2>2, <2>3
<1>7. \A f \in Range(program.formulas) : CompilesOnState(f)
  BY <1>1 DEF ArrayInv, CompiledInv, CompiledFormulas
<1>8. /\ DOMAIN range = Sources /\ DOMAIN transitions = 0..maxNumberOfTransitions - 1
  BY <1>2 DEF ArrayInv, ReturnedInv
<1> QED BY <1>1, <1>2, <1>3, <1>4, <1>5, <1>6, <1>7, <1>8 DEF StoredSources

LEMMA ReturnChainKeepsArray ==
  ASSUME FacadeStep, ChainInv, ArrayInv, ReturnChain
  PROVE  WorkerInv' /\ BlocksInv' /\ ReturnedInv'
PROOF
<1>1. /\ call' = "calculate" /\ status' = "finished" /\ program' = program
      /\ contents' = contents /\ StoredSources' = StoredSources
      /\ UNCHANGED <<chain, maxNumberOfTransitions, transitionCount,
                     pc, source, location, written, handled>>
      /\ pc[worker] = "idle" /\ handled = DOMAIN chain.from /\ handled = StoredSources
      /\ DOMAIN range = Sources /\ DOMAIN transitions = 0..maxNumberOfTransitions - 1
      /\ stateCount' = Len(contents) /\ Len(contents) \in Nat \ {0}
      /\ range' = [s \in StoredSources |-> range[s]]
      /\ transitions' = [k \in 0..transitionCount - 1 |-> transitions[k]]
      /\ \A f \in Range(program.formulas) : CompilesOnState(f)
  BY ReturnChainIs DEF client, traversal, StoredSources
<1>2. \A q : Given(q)' = Given(q)
  BY <1>1 DEF Given
<1>3. WorkerInv'
  BY <1>1 DEF ArrayInv, WorkerInv
<1>4. ReturnedInv'
  BY <1>1 DEF ReturnedInv
<1>5. BlocksInv'
  <2>1. Used = transitionCount /\ Used' = transitionCount
    BY <1>1 DEF Used
  <2>2. /\ \A s \in handled : IsBlock(s)
        /\ \A k \in 0..transitionCount - 1 : \E s \in handled : k \in Block(s)
    BY <1>1, <2>1 DEF ArrayInv, BlocksInv
  <2>3. \A s \in handled : range'[s] = range[s]
    BY <1>1
  <2>4. \A s \in handled : Block(s)' = Block(s)
    BY <2>3 DEF Block
  <2>5. ASSUME NEW s \in handled PROVE IsBlock(s)'
    <3>1. /\ range[s].from \in Nat /\ range[s].elements = Len(Given(s))
          /\ range[s].from + Len(Given(s)) <= transitionCount
          /\ Reads(range[s].from, s, Len(Given(s)))
      BY <2>1, <2>2 DEF IsBlock
    <3>2. Len(Given(s)) \in Nat /\ transitionCount \in Nat
      BY <1>1, ChainSources DEF FacadeStep, ArrayInv, WorkerInv
    <3>3. ASSUME NEW k \in 1..Len(Given(s))
          PROVE  transitions'[range[s].from + k - 1] = Entry(Given(s)[k])
      <4>1. range[s].from + k - 1 \in 0..transitionCount - 1
        BY <3>1, <3>2
      <4>2. transitions[range[s].from + k - 1] = Entry(Given(s)[k])
        BY <3>1 DEF Reads
      <4> QED BY <1>1, <4>1, <4>2
    <3>4. Reads(range[s].from, s, Len(Given(s)))'
      BY <1>2, <2>3, <3>3 DEF Reads
    <3> QED BY <1>1, <1>2, <2>1, <2>3, <3>1, <3>4 DEF IsBlock
  <2> QED BY <1>1, <2>1, <2>2, <2>4, <2>5 DEF BlocksInv
<1> QED BY <1>3, <1>4, <1>5

LEMMA NextKeepsArray ==
  ASSUME FacadeStep, ChainInv, ChainInv', ArrayInv
  PROVE  ArrayInv'
PROOF
<1>1. WorkerInv /\ BlocksInv /\ CompiledInv /\ ReturnedInv
  BY DEF ArrayInv
<1>2. CompiledInv'
  BY <1>1, NextKeepsCompiled
<1>3. CASE AddTransitions
  BY <1>1, <1>2, <1>3, ModifierSteps, PlaceKeepsArray, RecordKeepsArray, WriteKeepsArray,
     ReturnKeepsArray DEF ArrayInv
<1>4. CASE ReturnChain
  BY <1>2, <1>4, ReturnChainKeepsArray DEF ArrayInv
<1>5. CASE ArrayStays
  BY <1>1, <1>2, <1>5, StayKeepsArray DEF ArrayInv
<1> QED BY <1>3, <1>4, <1>5, ArraySteps DEF FacadeStep

\* A chain that was returned stays.
LEMMA ReturnedStays ==
  ASSUME FacadeStep, ChainInv, ArrayInv, stateCount > 0
  PROVE  /\ UNCHANGED <<client, traversal, chain, lmc>>
         /\ call \in {"calculate", "none"} /\ call' \in {"calculate", "none"}
PROOF
<1>1. call \in {"calculate", "none"}
  BY DEF ArrayInv, ReturnedInv
<1>2. call' \in {"calculate", "none"}
  BY <1>1, CallChanges DEF FacadeStep
<1>3. UNCHANGED <<client, traversal>> /\ chain' = chain
  BY <1>1, TraversalSteps, ChainSteps DEF FacadeStep, Traverse, Throw, ReturnVerdict, TraversalStays
<1>4. UNCHANGED lmc
  BY <1>1, ArraySteps DEF FacadeStep, AddTransitions, ReturnChain, ArrayStays
<1> QED BY <1>1, <1>2, <1>3, <1>4
-----------------------------------------------------------------------------
(***************************************************************************)
(* A chain that was returned, in terms of the program: every entry of its  *)
(* array is that of an option.                                             *)
(***************************************************************************)
\* The entry t of the array is the one of the option o.
IsEntryOf(t, o) ==
  /\ t \in DOMAIN transitions
  /\ transitions[t].probability = o.weight * Unit
  /\ transitions[t].label = LabelAt(program, o.target)
  /\ transitions[t].state \in 0..Len(contents) - 1
  /\ contents[transitions[t].state + 1] = o.target
  /\ transitions[t] \in [probability : {o.weight * Unit}, label : {LabelAt(program, o.target)},
                         state : Nat]

\* The block of the source s has the options of its step.
IsBlockOf(s) ==
  /\ range[s].from \in Nat /\ range[s].elements = Len(OptionsOf(s))
  /\ \A k \in 1..Len(OptionsOf(s)) : IsEntryOf(range[s].from + k - 1, OptionsOf(s)[k])

LEMMA ReturnedChain ==
  ASSUME CallsInv, Traversed, ChainInv, ArrayInv, stateCount > 0
  PROVE  /\ stateCount = Len(contents) /\ DOMAIN range = StoredSources
         /\ \A s \in StoredSources : IsBlockOf(s)
         /\ \A t \in DOMAIN transitions : \E s \in StoredSources :
              \E k \in 1..Len(OptionsOf(s)) : t = range[s].from + k - 1
         /\ \A f \in Range(program.formulas) : CompilesOnState(f)
PROOF
<1>1. /\ pc[worker] = "idle" /\ handled = StoredSources /\ DOMAIN chain.from = StoredSources
      /\ stateCount = Len(contents) /\ DOMAIN range = StoredSources
      /\ DOMAIN transitions = 0..transitionCount - 1 /\ transitionCount \in Nat
      /\ \A f \in Range(program.formulas) : CompilesOnState(f)
  BY DEF ArrayInv, ReturnedInv, WorkerInv
<1>2. /\ \A s \in StoredSources : IsBlock(s)
      /\ \A t \in 0..transitionCount - 1 : \E s \in StoredSources : t \in Block(s)
      /\ Used = transitionCount
  BY <1>1 DEF ArrayInv, BlocksInv, Used
<1>3. ASSUME NEW s \in StoredSources
      PROVE  /\ IsBlockOf(s)
             /\ \A t \in Block(s) : \E k \in 1..Len(OptionsOf(s)) : t = range[s].from + k - 1
  <2>1. /\ range[s].from \in Nat /\ range[s].elements = Len(Given(s))
        /\ range[s].from + Len(Given(s)) <= transitionCount
        /\ Reads(range[s].from, s, Len(Given(s)))
    BY <1>2 DEF IsBlock
  <2>2. GivenIsStep(s)
    BY <1>1, GivenFacts
  <2>3. Len(Given(s)) = Len(OptionsOf(s)) /\ Len(Given(s)) \in Nat
    BY <2>2 DEF GivenIsStep
  <2>4. ASSUME NEW k \in 1..Len(OptionsOf(s))
        PROVE  IsEntryOf(range[s].from + k - 1, OptionsOf(s)[k])
    <3> DEFINE t == range[s].from + k - 1
               o == OptionsOf(s)[k]
               g == Given(s)[k]
    <3>1. t \in DOMAIN transitions
      BY <1>1, <2>1, <2>3
    <3>2. transitions[t] = Entry(g)
      BY <2>1, <2>3 DEF Reads
    <3>3. /\ g.targetStateIndex \in 0..Len(contents) - 1
          /\ contents[g.targetStateIndex + 1] = o.target
          /\ g.probability = o.weight * Unit
          /\ g.label = LabelAt(program, o.target)
      BY <2>2, <2>3 DEF GivenIsStep
    <3> HIDE DEF t, o, g
    <3>4. IsEntryOf(t, o)
      BY <3>1, <3>2, <3>3 DEF IsEntryOf, Entry
    <3> QED BY <3>4 DEF t, o
  <2>5. ASSUME NEW t \in Block(s)
        PROVE  \E k \in 1..Len(OptionsOf(s)) : t = range[s].from + k - 1
    <3>1. t - range[s].from + 1 \in 1..Len(OptionsOf(s))
          /\ t = range[s].from + (t - range[s].from + 1) - 1
      BY <2>1, <2>3 DEF Block
    <3> QED BY <3>1
  <2> QED BY <2>1, <2>3, <2>4, <2>5 DEF IsBlockOf
<1> QED BY <1>1, <1>2, <1>3

-----------------------------------------------------------------------------
(***************************************************************************)
(* The calculations: the vector has, for every stored state, what as many  *)
(* rounds give that state in the program.                                  *)
(***************************************************************************)
\* Where the label that a transition to the state has satisfies psi.
HoldSet ==
  {s \in ProgramStates :
     EvaluateOnLabel(IdentifiersOf(program.formulas), psi, LabelAt(program, s))}

After(n) == RoundsOf(program, HoldSet)[n]

IsRound(n, x) == \A k \in 0..Len(contents) - 1 : x[k] = After(n)[contents[k + 1]]

CheckInv ==
  /\ answers \in Seq(Int) /\ Len(answers) <= MaxBound + 1
  /\ \A b \in 1..Len(answers) : answers[b] = After(b)[program.reset]
  /\ Len(answers) > 0 => stateCount > 0
  /\ checking \in {"precalculate", "iterate", "checked"} =>
       /\ stateCount > 0 /\ Len(answers) <= MaxBound
       /\ formula = BoundedUnary("Finally", psi, Len(answers))
  /\ checking \in {"iterate", "checked"} \/ Len(answers) > 0 =>
       Compiles(IdentifiersOf(program.formulas), psi)
  /\ checking \in {"idle", "precalculate"} => i = 0
  /\ checking = "iterate" =>
       /\ i \in 0..Len(answers)
       /\ precalculations = [t \in DOMAIN transitions |-> Precalculated(t)]
       /\ IsRound(i, xold)
  /\ checking = "checked" => result = After(Len(answers) + 1)[program.reset]

LEMMA InitCheck == PemcInit => CheckInv
PROOF
<1> SUFFICES ASSUME PemcInit PROVE CheckInv
  OBVIOUS
<1>1. answers = <<>> /\ checking = "idle" /\ i = 0
  BY DEF PemcInit, CheckerIdle
<1>2. answers \in Seq(Int) /\ Len(answers) = 0 /\ MaxBound + 1 >= 0
  BY <1>1, PowerIs
<1> QED BY <1>1, <1>2 DEF CheckInv

\* The weighted sum over the block of a source is its round.
LEMMA WeightedSumIsRound ==
  ASSUME CallsInv, Traversed, ChainInv, ArrayInv, CheckInv, checking = "iterate",
         NEW s \in StoredSources
  PROVE  WeightedSum(s, xold) = After(i + 1)[SourceState(s)]
PROOF
<1> DEFINE x == After(i)
           step == OptionsOf(s)
           N == Len(step)
<1>1. /\ stateCount > 0 /\ formula = BoundedUnary("Finally", psi, Len(answers))
      /\ Len(answers) <= MaxBound /\ Len(answers) \in Nat
      /\ i \in 0..Len(answers)
      /\ precalculations = [t \in DOMAIN transitions |-> Precalculated(t)]
      /\ IsRound(i, xold)
  BY DEF CheckInv
<1>2. Phi = NoFormula /\ Psi = psi
  BY <1>1 DEF Phi, Psi, PhiUntilPsi, BoundedUnary
<1>3. /\ program \in Programs /\ SourceState(s) \in ProgramStates
      /\ step \in Seq(Options) /\ N \in Nat
      /\ \A k \in 1..N : step[k] \in Options
  <2>1. step \in Seq(Options)
    BY SourceStateTyped
  <2> QED BY <2>1, SourceStateTyped DEF CallsInv, ClientInv
<1>4. /\ i \in Nat /\ i \in 0..MaxBound /\ i \in 0..MaxBound + 1
  <2>1. i \in 0..Len(answers) /\ Len(answers) <= MaxBound /\ Len(answers) \in Nat
    BY <1>1
  <2>2. MaxBound \in Nat
    BY PowerIs
  <2> QED BY <2>1, <2>2
<1>5. IsExact(x, i)
  BY <1>3, <1>4, RoundsAreExact DEF After
<1>6. labelIdentifier = IdentifiersOf(program.formulas)
  BY DEF ChainInv, labelIdentifier
<1>7. IsBlockOf(s)
  BY <1>1, ReturnedChain
<1> HIDE DEF x, step, N
<1>8. ASSUME NEW k \in 1..N
      PROVE  Share(range[s].from + k - 1, xold) = OptionShare(step[k], HoldSet, x)
  <2> DEFINE t == range[s].from + k - 1
             o == step[k]
  <2>1. IsEntryOf(t, o) /\ o \in Options
    BY <1>3, <1>7 DEF IsBlockOf, step, N
  <2> HIDE DEF t, o
  <2>2. o.target \in ProgramStates
    BY <2>1 DEF Options
  <2>3. PsiHolds(t) <=> o.target \in HoldSet
    BY <1>2, <1>6, <2>1, <2>2 DEF PsiHolds, IsEntryOf, HoldSet
  <2>4. precalculations[t] = Precalculated(t)
    BY <1>1, <2>1 DEF IsEntryOf
  <2>5. ~PhiHolds(t)
    BY <1>2 DEF PhiHolds
  <2>6. xold[transitions[t].state] = x[o.target]
    BY <1>1, <2>1 DEF IsEntryOf, IsRound, x
  <2>7. CASE o.target \in HoldSet
    <3>1. precalculations[t] = "Satisfied"
      BY <2>3, <2>4, <2>7 DEF Precalculated
    <3> QED BY <2>1, <2>7, <3>1 DEF Share, IsEntryOf, OptionShare, t, o
  <2>8. CASE o.target \notin HoldSet
    <3>1. precalculations[t] \notin {"Satisfied", "Excluded"}
      BY <2>3, <2>4, <2>5, <2>8 DEF Precalculated
    <3>2. Share(t, xold) = Times(o.weight * Unit, x[o.target])
      BY <2>1, <2>6, <3>1 DEF Share, IsEntryOf
    <3>3. PICK v \in Nat : x[o.target] = Weight * (Power(MaxBound - i) * v)
      BY <1>4, <1>5, <2>1, <2>8, OptionShareIs
    <3>4. PICK w \in Nat, u \in Nat, W \in Nat \ {0}, d \in Nat :
            /\ w = o.weight /\ u = Unit /\ W = Weight /\ d = Power(MaxBound - i)
      <4>1. o.weight \in Nat
        BY <2>1, PowerIs DEF Options
      <4>2. MaxBound - i \in 0..MaxBound + 1
        BY <1>4, PowerIs
      <4> QED BY <4>1, <4>2, UnitIs, PowerIs
    <3>5. PICK m \in Nat : m = d * v
      BY <3>3, <3>4
    <3>6. One = W * u /\ W * u \in Nat \ {0}
      BY <3>4, UnitIs
    <3>7. (w * u) * (W * m) = (W * u) * (w * m)
      BY <3>4, <3>5
    <3>8. w * m \in Int
      BY <3>4, <3>5
    <3>9. Share(t, xold) = w * m
      <4>1. Share(t, xold) = ((w * u) * (W * m)) \div One
        BY <3>2, <3>3, <3>4, <3>5 DEF Times
      <4>2. PICK e \in Nat \ {0}, a \in Int : e = W * u /\ a = w * m
        BY <3>6, <3>8
      <4>3. (w * u) * (W * m) = e * a
        BY <3>7, <4>2
      <4>4. (e * a) \div e = a
        BY <4>2, MultipleDivides
      <4> QED BY <3>6, <4>1, <4>2, <4>3, <4>4
    <3>10. x[o.target] \div Weight = m
      BY <3>3, <3>4, <3>5, MultipleDivides
    <3>11. OptionShare(o, HoldSet, x) = w * m
      BY <2>8, <3>4, <3>10 DEF OptionShare
    <3> QED BY <3>9, <3>11 DEF t, o
  <2> QED BY <2>7, <2>8
<1>9. WeightedSum(s, xold) = RoundAt(program, SourceState(s), HoldSet, x)
  <2>1. range[s].elements = N /\ StepOf(program, SourceState(s)) = step
    BY <1>7 DEF IsBlockOf, step, N, OptionsOf
  <2>2. [k \in 1..range[s].elements |-> Share(range[s].from + k - 1, xold)]
          = [k \in 1..Len(StepOf(program, SourceState(s))) |->
               OptionShare(StepOf(program, SourceState(s))[k], HoldSet, x)]
    BY <1>8, <2>1 DEF N
  <2> QED BY <2>2 DEF WeightedSum, RoundAt
<1>10. After(i + 1)[SourceState(s)] = RoundAt(program, SourceState(s), HoldSet, x)
  BY <1>3, <1>4, RoundsAre DEF After, x
<1> QED BY <1>9, <1>10

\* The rounds read only the program, which stays.
LEMMA ClientStays ==
  ASSUME [PemcNext]_pemc PROVE UNCHANGED client
PROOF
<1>1. CASE Traverse \/ Throw \/ AddTransitions \/ ReturnVerdict
  BY <1>1 DEF Traverse, Throw, AddTransitions, ReturnVerdict
<1>2. CASE ReturnChain \/ CallThrows \/ Calculate \/ ReturnProbability
  BY <1>2 DEF ReturnChain, CallThrows, Calculate, ReturnProbability
<1>3. CASE UNCHANGED pemc
  BY <1>3 DEF pemc
<1> QED BY <1>1, <1>2, <1>3 DEF PemcNext

LEMMA RoundsStay ==
  ASSUME FacadeStep
  PROVE  /\ program' = program /\ psi' = psi
         /\ \A n : After(n)' = After(n)
         /\ contents' = contents => (IsRound(i, xold)' <=> IsRound(i', xold'))
         /\ (Compiles(IdentifiersOf(program.formulas), psi))'
              <=> Compiles(IdentifiersOf(program.formulas), psi)
PROOF
<1>1. program' = program /\ psi' = psi
  BY ClientStays DEF FacadeStep, client
<1>2. HoldSet' = HoldSet
  BY <1>1 DEF HoldSet
<1>3. After(i)' = After(i')
  BY <1>1, <1>2 DEF After
<1>4. ASSUME contents' = contents PROVE IsRound(i, xold)' <=> IsRound(i', xold')
  BY <1>3, <1>4 DEF IsRound
<1> QED BY <1>1, <1>2, <1>4 DEF After

\* What a calculation that runs looks at.
LEMMA CalculationFacts ==
  ASSUME FacadeStep, ChainInv, ArrayInv, CheckInv, Calculate
  PROVE  /\ stateCount > 0 /\ UNCHANGED <<vars, answers, client, traversal>>
         /\ Len(answers) \in Nat /\ Len(answers) <= MaxBound
         /\ labelIdentifier = IdentifiersOf(program.formulas)
         /\ IsRound(i, xold)' <=> IsRound(i', xold')
PROOF
<1>1. Len(answers) <= MaxBound /\ UNCHANGED <<client, traversal, answers>>
  BY DEF Calculate
<1>2. stateCount > 0 /\ UNCHANGED vars
  BY DEF Calculate, CheckInv, CalculateProbability, Precalculate, Iterate, Finish
<1>3. Len(answers) \in Nat
  BY DEF CheckInv
<1>4. labelIdentifier = IdentifiersOf(program.formulas)
  BY DEF labelIdentifier, ChainInv
<1>5. IsRound(i, xold)' <=> IsRound(i', xold')
  BY <1>1, RoundsStay DEF traversal
<1> QED BY <1>1, <1>2, <1>3, <1>4, <1>5

LEMMA CalculateKeepsCheck ==
  ASSUME FacadeStep, ChainInv, ArrayInv, CheckInv, Calculate
  PROVE  CheckInv'
PROOF
<1> DEFINE L == Len(answers)
           f == BoundedUnary("Finally", psi, L)
<1>1. /\ stateCount > 0 /\ stateCount' = stateCount /\ transitions' = transitions
      /\ answers' = answers /\ L \in Nat /\ L <= MaxBound /\ chain' = chain
      /\ labelIdentifier = IdentifiersOf(program.formulas)
      /\ IsRound(i, xold)' <=> IsRound(i', xold')
      /\ program' = program /\ psi' = psi /\ \A n : After(n)' = After(n)
      /\ (Compiles(IdentifiersOf(program.formulas), psi))'
           <=> Compiles(IdentifiersOf(program.formulas), psi)
  BY CalculationFacts, RoundsStay DEF vars, lmc
<1>2. PhiUntilPsi(f) = [phi |-> NoFormula, psi |-> psi, bound |-> L]
  BY DEF PhiUntilPsi, BoundedUnary
<1> HIDE DEF f
<1>3. CASE CalculateProbability(f)
  <2>1. L # NoBound
    BY <1>1 DEF NoBound
  <2>2. PhiUntilPsi(f).bound = L /\ PhiUntilPsi(f) # NoMatch
    BY <1>2, <2>1 DEF NoMatch
  <2>3. /\ checking' = "precalculate" /\ checking = "idle" /\ formula' = f /\ i' = i
    BY <1>3, <2>1, <2>2 DEF CalculateProbability
  <2> QED BY <1>1, <2>3 DEF CheckInv, f
<1>4. CASE Precalculate
  <2>1. /\ checking = "precalculate" /\ formula' = formula /\ i' = i /\ result' = result
        /\ formula = f /\ i = 0
    BY <1>4 DEF Precalculate, CheckInv, f
  <2>2. Psi = psi
    BY <1>2, <2>1 DEF Psi
  <2>3. CASE Compiles(labelIdentifier, Psi)
    <3>1. /\ checking' = "iterate"
          /\ precalculations' = [t \in DOMAIN transitions |-> Precalculated(t)]
          /\ xold' = [s \in States |-> 0]
      BY <1>4, <2>3 DEF Precalculate
    <3>2. Compiles(IdentifiersOf(program.formulas), psi)
      BY <1>1, <2>2, <2>3
    <3>3. \A t : Precalculated(t)' = Precalculated(t)
      BY <1>1, <2>1 DEF Precalculated, PsiHolds, PhiHolds, Psi, Phi, labelIdentifier
    <3>4. IsRound(0, xold')
      <4>1. stateCount = Len(contents) /\ contents \in Seq(ProgramStates)
        BY <1>1 DEF ArrayInv, ReturnedInv, FacadeStep, Traversed, StorageFacts
      <4>2. After(0) = [s \in ProgramStates |-> 0]
        BY RoundsAre DEF After, NothingYet, FacadeStep, CallsInv, ClientInv
      <4>3. ASSUME NEW k \in 0..Len(contents) - 1 PROVE xold'[k] = After(0)[contents[k + 1]]
        <5>1. k + 1 \in 1..Len(contents) /\ k \in States
          BY <4>1 DEF States
        <5>2. contents[k + 1] \in ProgramStates
          BY <4>1, <5>1
        <5> QED BY <3>1, <4>2, <5>1, <5>2
      <4> QED BY <4>3 DEF IsRound
    <3>5. IsRound(i, xold)'
      <4>1. i' = 0
        BY <2>1
      <4> QED BY <1>1, <3>4, <4>1
    <3>6. i' \in 0..L
      BY <1>1, <2>1
    <3> QED BY <1>1, <2>1, <3>1, <3>2, <3>3, <3>5, <3>6 DEF CheckInv, f
  <2>4. CASE ~Compiles(labelIdentifier, Psi)
    <3>1. checking' = "thrown"
      BY <1>4, <2>4 DEF Precalculate
    <3> QED BY <1>1, <2>1, <3>1 DEF CheckInv, f
  <2> QED BY <2>3, <2>4
<1>5. CASE Iterate
  <2>1. /\ checking = "iterate" /\ checking' = "iterate" /\ formula' = formula
        /\ precalculations' = precalculations /\ i' = i + 1 /\ i < Bound
        /\ xold' = [s \in States |-> WeightedSum(s, xold)]
        /\ formula = f /\ i \in 0..L
        /\ precalculations = [t \in DOMAIN transitions |-> Precalculated(t)]
        /\ Compiles(IdentifiersOf(program.formulas), psi)
    BY <1>5 DEF Iterate, CheckInv, f
  <2>2. Bound = L
    BY <1>2, <2>1 DEF Bound
  <2>3. i' \in 0..L
    BY <1>1, <2>1, <2>2
  <2>4. \A t : Precalculated(t)' = Precalculated(t)
    BY <1>1, <2>1 DEF Precalculated, PsiHolds, PhiHolds, Psi, Phi, labelIdentifier
  <2>5. IsRound(i + 1, xold')
    <3>1. stateCount = Len(contents) /\ Len(contents) \in Nat
      BY <1>1 DEF ArrayInv, ReturnedInv, FacadeStep, Traversed, StorageFacts
    <3>2. ASSUME NEW k \in 0..Len(contents) - 1
          PROVE  xold'[k] = After(i + 1)[contents[k + 1]]
      <4>1. k \in States /\ k \in StoredSources /\ SourceState(k) = contents[k + 1]
        BY <3>1 DEF States, StoredSources, SourceState, NoSource
      <4>2. WeightedSum(k, xold) = After(i + 1)[SourceState(k)]
        BY <2>1, <4>1, WeightedSumIsRound DEF FacadeStep
      <4> QED BY <2>1, <4>1, <4>2
    <3> QED BY <3>2 DEF IsRound
  <2>6. IsRound(i, xold)'
    <3>1. i' = i + 1
      BY <2>1
    <3> QED BY <1>1, <2>5, <3>1
  <2> QED BY <1>1, <2>1, <2>3, <2>4, <2>6 DEF CheckInv, f
<1>6. CASE Finish
  <2>1. /\ checking = "iterate" /\ checking' = "checked" /\ formula' = formula
        /\ i >= Bound /\ result' = WeightedSum(NoSource, xold)
        /\ formula = f /\ i \in 0..L
        /\ Compiles(IdentifiersOf(program.formulas), psi)
    BY <1>6 DEF Finish, CheckInv, f
  <2>2. i = L
    BY <1>1, <1>2, <2>1 DEF Bound
  <2>3. NoSource \in StoredSources /\ SourceState(NoSource) = program.reset
    BY DEF StoredSources, SourceState
  <2>4. result' = After(L + 1)[program.reset]
    BY <2>1, <2>2, <2>3, WeightedSumIsRound DEF FacadeStep
  <2> QED BY <1>1, <2>1, <2>4 DEF CheckInv, f
<1> QED BY <1>3, <1>4, <1>5, <1>6 DEF Calculate, f

LEMMA NextKeepsCheck ==
  ASSUME FacadeStep, ChainInv, ArrayInv, ArrayInv', CheckInv
  PROVE  CheckInv'
PROOF
<1>1. CASE Calculate
  BY <1>1, CalculateKeepsCheck
<1>2. CASE ReturnProbability
  <2>1. /\ checking = "checked" /\ checking' = "idle" /\ i' = 0
        /\ answers' = Append(answers, result) /\ stateCount' = stateCount
    BY <1>2 DEF ReturnProbability, vars, lmc
  <2>2. /\ answers \in Seq(Int) /\ Len(answers) \in Nat /\ Len(answers) <= MaxBound
        /\ stateCount > 0 /\ result = After(Len(answers) + 1)[program.reset]
        /\ \A b \in 1..Len(answers) : answers[b] = After(b)[program.reset]
        /\ Compiles(IdentifiersOf(program.formulas), psi)
    BY <2>1 DEF CheckInv
  <2>3. result \in Int
    <3>1. /\ program \in Programs /\ program.reset \in ProgramStates
          /\ Len(answers) + 1 \in 0..MaxBound + 1
      BY <2>2, ProgramFacts, PowerIs DEF FacadeStep, CallsInv, ClientInv
    <3>2. result \in 0..One /\ One \in Nat
      BY <2>2, <3>1, RoundsAreProbabilities, OneIs DEF After
    <3> QED BY <3>2
  <2>4. /\ answers' \in Seq(Int) /\ Len(answers') = Len(answers) + 1
        /\ answers'[Len(answers) + 1] = result
        /\ \A b \in 1..Len(answers) : answers'[b] = answers[b]
    BY <2>1, <2>2, <2>3
  <2>5. Len(answers') <= MaxBound + 1
    BY <2>2, <2>4, PowerIs
  <2>6. \A n : After(n)' = After(n)
    BY RoundsStay
  <2>7. ASSUME NEW b \in 1..Len(answers') PROVE answers'[b] = After(b)'[program'.reset]
    <3>1. b \in 1..Len(answers) \/ b = Len(answers) + 1
      BY <2>2, <2>4
    <3>2. answers'[b] = After(b)[program.reset]
      BY <2>2, <2>4, <3>1
    <3> QED BY <2>6, <3>2, RoundsStay
  <2> QED BY <2>1, <2>2, <2>4, <2>5, <2>7, RoundsStay DEF CheckInv
<1>3. CASE UNCHANGED <<checker, answers>>
  <2>1. /\ program' = program /\ psi' = psi /\ \A n : After(n)' = After(n)
        /\ (Compiles(IdentifiersOf(program.formulas), psi))'
             <=> Compiles(IdentifiersOf(program.formulas), psi)
    BY RoundsStay
  <2>2. UNCHANGED <<formula, checking, precalculations, xold, i, result, answers>>
    BY <1>3 DEF checker
  <2>3. CASE stateCount > 0
    <3>1. /\ stateCount' = stateCount /\ transitions' = transitions /\ contents' = contents
          /\ chain' = chain
      BY <2>3, ReturnedStays DEF traversal, lmc
    <3>2. IsRound(i, xold)' <=> IsRound(i, xold)
      BY <2>2, <3>1, RoundsStay
    <3>4. \A t : Precalculated(t)' = Precalculated(t)
      BY <2>2, <3>1 DEF Precalculated, PsiHolds, PhiHolds, Psi, Phi, labelIdentifier
    <3> QED BY <2>1, <2>2, <2>3, <3>1, <3>2, <3>4 DEF CheckInv
  <2>4. CASE ~(stateCount > 0)
    <3>1. /\ checking \notin {"precalculate", "iterate", "checked"} /\ Len(answers) = 0
      BY <2>4 DEF CheckInv
    <3> QED BY <2>1, <2>2, <3>1 DEF CheckInv
  <2> QED BY <2>3, <2>4
<1> QED BY <1>1, <1>2, <1>3, CheckerSteps DEF FacadeStep

\* What is stored and returned keeps to its domain.
LEMMA TypesAre ==
  ASSUME CallsInv, Traversed, CheckInv PROVE PemcTypeOK
PROOF
<1>1. ASSUME NEW b \in 1..Len(answers) PROVE answers[b] \in 0..One
  <2>1. /\ program \in Programs /\ program.reset \in ProgramStates
        /\ b \in 0..MaxBound + 1 /\ answers[b] = After(b)[program.reset]
    BY ProgramFacts, PowerIs DEF CallsInv, ClientInv, CheckInv
  <2> QED BY <2>1, RoundsAreProbabilities DEF After
<1> QED BY <1>1 DEF PemcTypeOK, CallsInv, Traversed, StorageFacts

-----------------------------------------------------------------------------
(***************************************************************************)
(* What a check returned is whether a state that satisfies psi can be      *)
(* reached; the client's next calls do not change it.                      *)
(***************************************************************************)
VerdictInv ==
  /\ verdict = "reached" => PsiReachable
  /\ verdict = "unreached" => ~PsiReachable

LEMMA InitVerdict == PemcInit => VerdictInv
PROOF BY DEF PemcInit, VerdictInv

LEMMA NextKeepsVerdict ==
  ASSUME FacadeStep, VerdictInv PROVE VerdictInv'
PROOF
<1>1. program' = program /\ psi' = psi
  BY ClientStays DEF FacadeStep, client
<1>2. PsiReachable' <=> PsiReachable
  BY <1>1 DEF PsiReachable, ReachableStates, IsClosedUnderSteps
<1>3. CASE ReturnVerdict
  <2>1. /\ call = "check" /\ status \in {"finished", "stopped", "thrown"}
        /\ verdict' = IF status = "thrown" THEN "exception"
                      ELSE IF reached THEN "reached" ELSE "unreached"
    BY <1>3 DEF ReturnVerdict, HasReturned
  <2>2. status \in {"finished", "stopped"} => (reached <=> PsiReachable)
    BY <2>1 DEF FacadeStep, Traversed
  <2> QED BY <1>2, <2>1, <2>2 DEF VerdictInv
<1>4. CASE verdict' = verdict
  BY <1>2, <1>4 DEF VerdictInv
<1>5. ReturnVerdict \/ verdict' = verdict
  <2>1. CASE Traverse \/ Throw \/ AddTransitions \/ ReturnChain
    BY <2>1 DEF Traverse, Throw, AddTransitions, ReturnChain
  <2>2. CASE CallThrows \/ Calculate \/ ReturnProbability \/ UNCHANGED pemc
    BY <2>2 DEF CallThrows, Calculate, ReturnProbability, pemc
  <2> QED BY <2>1, <2>2 DEF FacadeStep, PemcNext
<1> QED BY <1>3, <1>4, <1>5
-----------------------------------------------------------------------------
(***************************************************************************)
(* Programs that ask plainly: what is found on a label is what it means.   *)
(***************************************************************************)
LEMMA FormulasAre ==
  ASSUME NEW p \in Programs
  PROVE  /\ p.asked \subseteq FormulasOf(p)
         /\ \A f \in Range(p.formulas) : CompilesOnState(f) => f \in FormulasOf(p)
PROOF BY DEF FormulasOf

\* What an adapted formula means is the valuation of its identifier.
LEMMA AdaptedMeans ==
  ASSUME NEW U, StateFormulas(U), NEW valuation, Valued(U, valuation), NEW f \in U,
         f.kind = "adapted"
  PROVE  Means(f, valuation) = valuation[f.id]
PROOF
<1>1. PICK v : IsMeaning(v, U, valuation)
  BY MeaningExists
<1> QED BY <1>1, MeansIs DEF IsMeaning

LEMMA LastVisitedIs ==
  ASSUME NEW U, StateFormulas(U), NEW f \in U, \A g \in U : g.kind = "adapted"
  PROVE  LastVisited(f) = f
PROOF
<1> DEFINE P == Parts(f)
           last == CHOOSE v : v = [g \in P |->
                     IF g.kind = "adapted" THEN g
                     ELSE v[IF g.kind = "unary" THEN g.operand ELSE g.right]]
           itself == [g \in P |-> g]
<1>1. P \in SUBSET U /\ f \in P
  BY PartsAreClosed DEF IsClosed
<1>2. LastVisited(f) = last[f]
  BY DEF LastVisited
<1> HIDE DEF P
<1>3. itself = [g \in P |-> IF g.kind = "adapted" THEN g
                            ELSE itself[IF g.kind = "unary" THEN g.operand ELSE g.right]]
  BY <1>1
<1>4. last = [g \in P |-> IF g.kind = "adapted" THEN g
                          ELSE last[IF g.kind = "unary" THEN g.operand ELSE g.right]]
  BY <1>3
<1> HIDE DEF last
<1>5. last[f] = f
  BY <1>1, <1>4
<1> QED BY <1>2, <1>5

LEMMA ValuationsAre ==
  ASSUME NEW p \in Programs, AsksPlainly(p), NEW s \in ProgramStates
  PROVE  Valued(FormulasOf(p), Valuation(p, s))
PROOF
<1>1. p.valuation \in [ProgramStates -> [p.ids -> {"true", "false", "raises"}]]
  BY ProgramAssumption
<1> SUFFICES ASSUME NEW g \in FormulasOf(p), g.kind = "adapted"
             PROVE  Valuation(p, s)[g.id] \in BOOLEAN
  BY DEF Valued
<1>2. g.id \in p.ids
  BY DEF AsksPlainly
<1>3. p.valuation[s] \in [p.ids -> {"true", "false", "raises"}]
  BY <1>1
<1>4. Valuation(p, s)[g.id] = (p.valuation[s][g.id] = "true")
  BY <1>2, <1>3 DEF Valuation
<1> QED BY <1>4

\* The model class evaluates a formula to what it means.
LEMMA EvaluatesPlainly ==
  ASSUME NEW p \in Programs, AsksPlainly(p), NEW s \in ProgramStates, NEW f \in FormulasOf(p)
  PROVE  /\ Evaluates(p, f, s) = Means(f, Valuation(p, s))
         /\ EvaluateOnState(f, Valuation(p, s)) = Means(f, Valuation(p, s))
         /\ Means(f, Valuation(p, s)) \in BOOLEAN
PROOF
<1> DEFINE U == FormulasOf(p)
<1>1. StateFormulas(U) /\ Valued(U, Valuation(p, s))
  BY ValuationsAre DEF AsksPlainly
<1>2. /\ EvaluateOnState(f, Valuation(p, s)) = Means(f, Valuation(p, s))
      /\ Means(f, Valuation(p, s)) \in BOOLEAN
  BY <1>1, EvaluatesToMeaning
<1>3. CASE p.language = "test"
  BY <1>2, <1>3 DEF Evaluates
<1>4. CASE p.language # "test"
  <2>1. \A g \in U : g.kind = "adapted"
    BY <1>4 DEF AsksPlainly
  <2>2. LastVisited(f) = f /\ f.kind = "adapted"
    BY <1>1, <2>1, LastVisitedIs
  <2>3. Means(f, Valuation(p, s)) = Valuation(p, s)[f.id]
    BY <1>1, <2>2, AdaptedMeans
  <2> QED BY <1>2, <1>4, <2>2, <2>3 DEF Evaluates, LastAdapted
<1> QED BY <1>2, <1>3, <1>4

\* What the label of a transition to the state says of a formula.
LEMMA LabelsSayPlainly ==
  ASSUME NEW p \in Programs, AsksPlainly(p), NEW s \in ProgramStates,
         \A f \in Range(p.formulas) : CompilesOnState(f)
  PROVE  /\ LabelAt(p, s) \in Seq(BOOLEAN)
         /\ \A m \in 1..Len(p.formulas) :
              LabelAt(p, s)[m] = Means(p.formulas[m], Valuation(p, s))
         /\ \A f \in p.asked : Compiles(IdentifiersOf(p.formulas), f) =>
              EvaluateOnLabel(IdentifiersOf(p.formulas), f, LabelAt(p, s))
                = Means(f, Valuation(p, s))
PROOF
<1> DEFINE U == FormulasOf(p)
           valuation == Valuation(p, s)
<1>1. StateFormulas(U) /\ Unambiguous(U) /\ Valued(U, valuation)
  BY ValuationsAre DEF AsksPlainly
<1>2. /\ p.formulas \in Seq(U) /\ Len(p.formulas) \in Nat
      /\ \A m \in 1..Len(p.formulas) : p.formulas[m] \in U
  <2>1. Range(p.formulas) \subseteq U /\ p.formulas \in Seq(Range(p.formulas))
    BY FormulasAre, ProgramFacts
  <2> HIDE DEF U
  <2> QED BY <2>1
<1>3. p.asked \subseteq U
  BY FormulasAre
<1>4. ASSUME NEW m \in 1..Len(p.formulas)
      PROVE  /\ Evaluates(p, p.formulas[m], s) = Means(p.formulas[m], valuation)
             /\ EvaluateOnState(p.formulas[m], valuation) = Means(p.formulas[m], valuation)
             /\ Means(p.formulas[m], valuation) \in BOOLEAN
  BY <1>2, EvaluatesPlainly
<1> HIDE DEF U, valuation
<1>5. LabelAt(p, s) = [m \in 1..Len(p.formulas) |-> Means(p.formulas[m], valuation)]
  BY <1>4 DEF LabelAt
<1>6. LabelOf(p.formulas, valuation)
        = [m \in 1..Len(p.formulas) |-> Means(p.formulas[m], valuation)]
  BY <1>4 DEF LabelOf
<1>7. LabelAt(p, s) \in Seq(BOOLEAN)
  BY <1>2, <1>4, <1>5
<1>8. ASSUME NEW f \in p.asked, Compiles(IdentifiersOf(p.formulas), f)
      PROVE  EvaluateOnLabel(IdentifiersOf(p.formulas), f, LabelAt(p, s)) = Means(f, valuation)
  BY <1>1, <1>2, <1>3, <1>5, <1>6, <1>8, LabelsMeanWhatFormulasMean
<1> QED BY <1>5, <1>7, <1>8 DEF valuation
-----------------------------------------------------------------------------
(***************************************************************************)
(* The states that a program visits.                                       *)
(***************************************************************************)
\* Sets that grow until they stay.
IsGrowing(f, S) ==
  /\ f \in [Nat -> SUBSET S] /\ f[0] # {}
  /\ \A n \in Nat : /\ f[n] \subseteq f[n + 1]
                    /\ f[n + 1] = f[n] => f[n + 2] = f[n + 1]

LEMMA GrowsUntilItStays ==
  ASSUME NEW S, IsFiniteSet(S), NEW f, IsGrowing(f, S), NEW m \in Nat
  PROVE  f[m + 1] = f[m] \/ Cardinality(f[m]) >= m + 1
PROOF
<1> DEFINE N == {n \in Nat : f[n + 1] = f[n] \/ Cardinality(f[n]) >= n + 1}
<1>1. \A n \in Nat : /\ f[n] \in SUBSET S /\ IsFiniteSet(f[n]) /\ Cardinality(f[n]) \in Nat
                     /\ f[n] \subseteq f[n + 1]
                     /\ f[n + 1] = f[n] => f[n + 2] = f[n + 1]
  <2> TAKE n \in Nat
  <2>1. f[n] \in SUBSET S
    BY DEF IsGrowing
  <2> QED BY <2>1, FS_Subset, FS_CardinalityType DEF IsGrowing
<1>2. 0 \in N
  <2>1. f[0] # {} /\ IsFiniteSet(f[0]) /\ Cardinality(f[0]) \in Nat
    BY <1>1 DEF IsGrowing
  <2>2. Cardinality(f[0]) # 0
    BY <2>1, FS_EmptySet
  <2> QED BY <2>1, <2>2
<1>3. ASSUME NEW n \in N PROVE n + 1 \in N
  <2>1. n \in Nat /\ n + 1 \in Nat /\ (n + 1) + 1 = n + 2
    OBVIOUS
  <2>2. CASE f[n + 1] = f[n]
    BY <1>1, <2>1, <2>2
  <2>3. CASE f[n + 1] # f[n]
    <3>1. Cardinality(f[n]) >= n + 1
      BY <2>3
    <3>2. /\ f[n] \subseteq f[n + 1] /\ IsFiniteSet(f[n + 1]) /\ Cardinality(f[n]) \in Nat
          /\ Cardinality(f[n + 1]) \in Nat
      BY <1>1, <2>1
    <3>3. Cardinality(f[n]) < Cardinality(f[n + 1])
      BY <2>3, <3>2, FS_Subset
    <3> QED BY <2>1, <3>1, <3>2, <3>3
  <2> QED BY <2>2, <2>3
<1> HIDE DEF N
<1>4. N = Nat
  <2>1. N \in SUBSET Nat
    BY DEF N
  <2> QED BY <1>2, <1>3, <2>1, AllByInduction
<1> QED BY <1>4 DEF N

LEMMA TargetsAre ==
  ASSUME NEW p \in Programs, NEW s \in ProgramStates
  PROVE  /\ TargetsOf(p, s) \in SUBSET ProgramStates /\ TargetsOf(p, s) # {}
         /\ TargetsOf(p, s) = {o.target : o \in Range(StepOf(p, s))}
PROOF
<1>1. /\ StepOf(p, s) \in Seq(Options) /\ Len(StepOf(p, s)) \in Nat \ {0}
      /\ \A k \in 1..Len(StepOf(p, s)) : StepOf(p, s)[k].target \in ProgramStates
  BY StepFacts
<1>2. DOMAIN StepOf(p, s) = 1..Len(StepOf(p, s)) /\ 1 \in 1..Len(StepOf(p, s))
  BY <1>1
<1>3. TargetsOf(p, s) = {o.target : o \in Range(StepOf(p, s))}
  BY <1>2 DEF TargetsOf, Range
<1> QED BY <1>1, <1>2, <1>3 DEF TargetsOf

\* What is reachable is closed, and in every closed set.
LEMMA ReachableIsLeast ==
  ASSUME program \in Programs
  PROVE  /\ ReachableStates \in SUBSET ProgramStates /\ IsClosedUnderSteps(ReachableStates)
         /\ \A set \in SUBSET ProgramStates : IsClosedUnderSteps(set) => ReachableStates \subseteq set
PROOF
<1>1. program.reset \in ProgramStates
  BY ProgramFacts
<1>2. \A s \in ProgramStates : TargetsOf(program, s) \in SUBSET ProgramStates
  BY TargetsAre
<1>3. IsClosedUnderSteps(ReachableStates)
  <2>1. TargetsOf(program, program.reset) \subseteq ReachableStates
    BY <1>1, <1>2 DEF ReachableStates, IsClosedUnderSteps
  <2>2. ASSUME NEW s \in ReachableStates, NEW t \in TargetsOf(program, s)
        PROVE  t \in ReachableStates
    <3>1. s \in ProgramStates /\ t \in ProgramStates
      BY <1>2 DEF ReachableStates
    <3>2. ASSUME NEW set \in SUBSET ProgramStates, IsClosedUnderSteps(set) PROVE t \in set
      <4>1. s \in set
        BY <3>2 DEF ReachableStates
      <4> QED BY <3>2, <4>1 DEF IsClosedUnderSteps
    <3> QED BY <3>1, <3>2 DEF ReachableStates
  <2> QED BY <2>1, <2>2 DEF IsClosedUnderSteps
<1> QED BY <1>3 DEF ReachableStates

LEMMA VisitedIs ==
  ASSUME program \in Programs PROVE Visited = ReachableStates
PROOF
<1> DEFINE T(s) == TargetsOf(program, s)
           more(set) == set \cup UNION {T(s) : s \in set}
           More == [set \in SUBSET ProgramStates |-> more(set)]
           K == Cardinality(ProgramStates)
           given(s) == {o.target : o \in Range(StepOf(program, s))}
           moreGiven(set) == set \cup UNION {given(s) : s \in set}
           after == CHOOSE v : v = [n \in Nat |-> IF n = 0 THEN given(program.reset)
                                                  ELSE moreGiven(v[n - 1])]
<1>1. /\ program.reset \in ProgramStates
      /\ \A s \in ProgramStates : /\ T(s) \in SUBSET ProgramStates /\ T(s) # {}
                                  /\ given(s) = T(s)
  BY ProgramFacts, TargetsAre
<1>2. Visited = after[K]
  BY DEF Visited
<1> HIDE DEF T, given
<1>3. \A set \in SUBSET ProgramStates : moreGiven(set) = more(set)
  BY <1>1
<1>4. More \in [SUBSET ProgramStates -> SUBSET ProgramStates]
  BY <1>1
<1>5. PICK f \in [Nat -> SUBSET ProgramStates] : IsChainOf(f, T(program.reset), More)
  <2> HIDE DEF More
  <2> QED BY <1>1, <1>4, ChainExists
<1>6. /\ f[0] = T(program.reset)
      /\ \A n \in Nat : f[n] \in SUBSET ProgramStates /\ f[n + 1] = more(f[n])
  BY <1>5 DEF IsChainOf
<1>7. f = [n \in Nat |-> IF n = 0 THEN given(program.reset) ELSE moreGiven(f[n - 1])]
  <2>1. ASSUME NEW n \in Nat, n # 0 PROVE f[n] = moreGiven(f[n - 1])
    <3>1. n - 1 \in Nat /\ (n - 1) + 1 = n
      BY <2>1
    <3>2. f[(n - 1) + 1] = more(f[n - 1]) /\ f[n - 1] \in SUBSET ProgramStates
      BY <1>6, <3>1
    <3> HIDE DEF more, moreGiven
    <3> QED BY <1>3, <3>1, <3>2
  <2>2. \A n \in Nat : f[n] = IF n = 0 THEN given(program.reset) ELSE moreGiven(f[n - 1])
    <3> HIDE DEF more, moreGiven
    <3> QED BY <1>1, <1>6, <2>1
  <2> HIDE DEF more, moreGiven
  <2> QED BY <1>5, <2>2
<1>8. after = [n \in Nat |-> IF n = 0 THEN given(program.reset) ELSE moreGiven(after[n - 1])]
  <2> HIDE DEF moreGiven
  <2> QED BY <1>7
<1> HIDE DEF after, More
<1>9. DEFINE N == {n \in Nat : /\ f[0] \subseteq f[n] /\ f[n] \subseteq ReachableStates
                               /\ after[n] = f[n]}
<1>10. 0 \in N
  <2>1. f[0] \subseteq ReachableStates
    BY <1>6, ReachableIsLeast DEF IsClosedUnderSteps, T
  <2>2. after[0] = f[0]
    BY <1>1, <1>6, <1>8
  <2> QED BY <2>1, <2>2
<1>11. ASSUME NEW n \in N PROVE n + 1 \in N
  <2>1. /\ n \in Nat /\ f[0] \subseteq f[n] /\ f[n] \subseteq ReachableStates /\ after[n] = f[n]
        /\ f[n + 1] = more(f[n]) /\ n + 1 \in Nat /\ n + 1 # 0 /\ (n + 1) - 1 = n
        /\ f[n] \in SUBSET ProgramStates
    BY <1>6
  <2>2. f[0] \subseteq f[n + 1]
    BY <2>1
  <2>3. f[n + 1] \subseteq ReachableStates
    BY <2>1, ReachableIsLeast DEF IsClosedUnderSteps, T
  <2>4. after[n + 1] = f[n + 1]
    <3>1. after[n + 1] = moreGiven(after[n])
      BY <1>8, <2>1
    <3> QED BY <1>3, <2>1, <3>1
  <2> QED BY <2>1, <2>2, <2>3, <2>4
<1> HIDE DEF N
<1>12. N = Nat
  <2>1. N \in SUBSET Nat
    BY DEF N
  <2> QED BY <1>10, <1>11, <2>1, AllByInduction
<1>13. /\ IsFiniteSet(ProgramStates) /\ K \in Nat
  BY ConstantFacts, FS_CardinalityType
<1>14. IsGrowing(f, ProgramStates)
  <2>1. f[0] # {}
    BY <1>1, <1>6
  <2>2. ASSUME NEW n \in Nat
        PROVE  f[n] \subseteq f[n + 1] /\ (f[n + 1] = f[n] => f[n + 2] = f[n + 1])
    <3>1. f[n + 1] = more(f[n])
      BY <1>6
    <3>2. n + 1 \in Nat /\ (n + 1) + 1 = n + 2
      OBVIOUS
    <3>3. f[n + 2] = more(f[n + 1])
      BY <1>6, <3>2
    <3> QED BY <3>1, <3>3
  <2> QED BY <1>5, <2>1, <2>2 DEF IsGrowing
<1>15. f[K + 1] = f[K]
  <2>1. f[K] \in SUBSET ProgramStates
    BY <1>6, <1>13
  <2>2. Cardinality(f[K]) <= K /\ Cardinality(f[K]) \in Nat
    BY <1>13, <2>1, FS_Subset, FS_CardinalityType
  <2>3. ~(Cardinality(f[K]) >= K + 1)
    BY <1>13, <2>2
  <2> HIDE DEF K
  <2> QED BY <1>13, <1>14, <2>3, GrowsUntilItStays
<1> HIDE DEF K
<1>16. IsClosedUnderSteps(f[K])
  <2>1. f[0] \subseteq f[K] /\ f[K] = more(f[K])
    BY <1>6, <1>12, <1>13, <1>15 DEF N
  <2> QED BY <1>6, <2>1 DEF IsClosedUnderSteps, T
<1>17. f[K] = ReachableStates /\ after[K] = f[K]
  <2>1. f[K] \subseteq ReachableStates /\ after[K] = f[K]
    BY <1>12, <1>13 DEF N
  <2>2. ReachableStates \subseteq f[K]
    BY <1>6, <1>13, <1>16, ReachableIsLeast
  <2> QED BY <2>1, <2>2
<1> QED BY <1>2, <1>17

-----------------------------------------------------------------------------
(***************************************************************************)
(* What the rounds say of the states that can be reached.                  *)
(***************************************************************************)
\* Where nothing satisfies psi, every round has nothing.
LEMMA NothingWithin ==
  ASSUME program \in Programs, NEW G, G \cap ReachableStates = {},
         NEW b \in 0..MaxBound + 1
  PROVE  RoundsOf(program, G)[b][program.reset] = 0
PROOF
<1> DEFINE R == RoundsOf(program, G)
           V == ReachableStates
           W == V \cup {program.reset}
           N == {n \in Nat : n <= MaxBound + 1 => \A s \in W : R[n][s] = 0}
<1>1. /\ program.reset \in ProgramStates /\ V \in SUBSET ProgramStates /\ IsClosedUnderSteps(V)
  BY ProgramFacts, ReachableIsLeast
<1>2. R \in [Nat -> [ProgramStates -> Nat]] /\ R[0] = [s \in ProgramStates |-> 0]
  BY RoundsAre DEF NothingYet
<1>3. \A n \in 0..MaxBound : \A s \in ProgramStates :
        R[n + 1][s] > 0 <=> \E t \in TargetsOf(program, s) : t \in G \/ R[n][t] > 0
  BY RoundsArePositive
<1> HIDE DEF R, V
<1>4. 0 \in N
  BY <1>1, <1>2
<1>5. ASSUME NEW n \in N PROVE n + 1 \in N
  <2> SUFFICES ASSUME n + 1 <= MaxBound + 1, NEW s \in W PROVE R[n + 1][s] = 0
    OBVIOUS
  <2>1. n \in Nat /\ n \in 0..MaxBound /\ \A t \in W : R[n][t] = 0
    BY PowerIs
  <2>2. TargetsOf(program, s) \subseteq V /\ s \in ProgramStates
    BY <1>1 DEF IsClosedUnderSteps
  <2>3. \A t \in TargetsOf(program, s) : t \notin G /\ R[n][t] = 0
    BY <2>1, <2>2 DEF V
  <2>4. ~(R[n + 1][s] > 0)
    BY <1>3, <2>1, <2>2, <2>3
  <2>5. R[n + 1][s] \in Nat
    BY <1>2, <2>1, <2>2
  <2> QED BY <2>4, <2>5
<1> HIDE DEF N
<1>6. N = Nat
  <2>1. N \in SUBSET Nat
    BY DEF N
  <2> QED BY <1>4, <1>5, <2>1, AllByInduction
<1> QED BY <1>6, PowerIs DEF N, R

\* Where something does, as many rounds as there are states have something.
LEMMA SomethingWithin ==
  ASSUME program \in Programs, NEW G, G \cap ReachableStates # {},
         NEW b \in 1..MaxBound + 1, b >= Cardinality(ReachableStates)
  PROVE  RoundsOf(program, G)[b][program.reset] > 0
PROOF
<1> DEFINE R == RoundsOf(program, G)
           V == ReachableStates
           T(s) == TargetsOf(program, s)
           lead(X) == (G \cap V) \cup {s \in V : T(s) \cap X # {}}
           Lead == [X \in SUBSET V |-> lead(X)]
           m == b - 1
<1>1. /\ program.reset \in ProgramStates /\ V \in SUBSET ProgramStates
      /\ T(program.reset) \subseteq V /\ \A s \in V : T(s) \subseteq V
      /\ T(program.reset) # {}
  BY ProgramFacts, ReachableIsLeast, TargetsAre DEF IsClosedUnderSteps
<1>2. R \in [Nat -> [ProgramStates -> Nat]] /\ R[0] = [s \in ProgramStates |-> 0]
  BY RoundsAre DEF NothingYet
<1>3. \A n \in 0..MaxBound : \A s \in ProgramStates :
        R[n + 1][s] > 0 <=> \E t \in T(s) : t \in G \/ R[n][t] > 0
  BY RoundsArePositive
<1>4. \A D \in SUBSET V : T(program.reset) \subseteq D /\ (\A s \in D : T(s) \subseteq D) => V \subseteq D
  BY <1>1, ReachableIsLeast DEF IsClosedUnderSteps
<1>5. /\ m \in Nat /\ m \in 0..MaxBound /\ m + 1 = b
  BY PowerIs
<1>6. IsFiniteSet(V) /\ Cardinality(V) \in Nat
  BY <1>1, ConstantFacts, FS_Subset, FS_CardinalityType
<1>7. b >= Cardinality(V) /\ G \cap V # {}
  OBVIOUS
<1> HIDE DEF R, V, T, m
<1>8. G \cap V \in SUBSET V /\ Lead \in [SUBSET V -> SUBSET V]
  OBVIOUS
<1>9. PICK C \in [Nat -> SUBSET V] : IsChainOf(C, G \cap V, Lead)
  <2> HIDE DEF Lead
  <2> QED BY <1>8, ChainExists
<1>10. C[0] = G \cap V /\ \A n \in Nat : C[n] \in SUBSET V /\ C[n + 1] = lead(C[n])
  BY <1>9 DEF IsChainOf
<1> HIDE DEF Lead
<1> DEFINE N == {n \in Nat :
                   /\ G \cap V \subseteq C[n] /\ C[n] \subseteq C[n + 1]
                   /\ n <= MaxBound + 1 => \A s \in V : s \in C[n] <=> s \in G \/ R[n][s] > 0}
<1>11. 0 \in N
  <2>1. C[0] \subseteq C[0 + 1]
    BY <1>10
  <2>2. \A s \in V : s \in C[0] <=> s \in G \/ R[0][s] > 0
    BY <1>1, <1>2, <1>10
  <2> QED BY <1>10, <2>1, <2>2
<1>12. ASSUME NEW n \in N PROVE n + 1 \in N
  <2>1. /\ n \in Nat /\ n + 1 \in Nat
        /\ C[n + 1] = lead(C[n]) /\ C[(n + 1) + 1] = lead(C[n + 1]) /\ C[n] \subseteq C[n + 1]
        /\ C[n] \in SUBSET V
    BY <1>10
  <2>2. G \cap V \subseteq C[n + 1] /\ C[n + 1] \subseteq C[(n + 1) + 1]
    BY <2>1
  <2>3. ASSUME n + 1 <= MaxBound + 1, NEW s \in V
        PROVE  s \in C[n + 1] <=> s \in G \/ R[n + 1][s] > 0
    <3>1. n \in 0..MaxBound /\ \A t \in V : t \in C[n] <=> t \in G \/ R[n][t] > 0
      BY <2>1, <2>3, PowerIs
    <3>2. s \in ProgramStates /\ T(s) \subseteq V
      BY <1>1
    <3>3. R[n + 1][s] > 0 <=> \E t \in T(s) : t \in C[n]
      BY <1>3, <3>1, <3>2
    <3> QED BY <2>1, <3>3
  <2> QED BY <2>1, <2>2, <2>3
<1> HIDE DEF N
<1>13. N = Nat
  <2>1. N \in SUBSET Nat
    BY DEF N
  <2> QED BY <1>11, <1>12, <2>1, AllByInduction
<1>14. IsGrowing(C, V)
  <2>1. ASSUME NEW n \in Nat
        PROVE  C[n] \subseteq C[n + 1] /\ (C[n + 1] = C[n] => C[n + 2] = C[n + 1])
    <3>1. n + 1 \in Nat /\ (n + 1) + 1 = n + 2
      OBVIOUS
    <3>2. C[n + 1] = lead(C[n]) /\ C[n + 2] = lead(C[n + 1])
      BY <1>10, <3>1
    <3>3. C[n] \subseteq C[n + 1]
      BY <1>13 DEF N
    <3> QED BY <3>2, <3>3
  <2> QED BY <1>7, <1>9, <1>10, <2>1 DEF IsGrowing
<1>15. C[m + 1] = C[m] \/ C[m] = V
  <2>1. CASE Cardinality(C[m]) >= m + 1
    <3>1. C[m] \in SUBSET V
      BY <1>5, <1>10
    <3>2. /\ Cardinality(C[m]) <= Cardinality(V) /\ Cardinality(C[m]) \in Nat
          /\ Cardinality(V) = Cardinality(C[m]) => V = C[m]
      BY <1>6, <3>1, FS_Subset, FS_CardinalityType
    <3> QED BY <1>5, <1>6, <1>7, <2>1, <3>2
  <2> QED BY <1>5, <1>6, <1>14, <2>1, GrowsUntilItStays
<1>16. /\ C[m] \in SUBSET V /\ G \cap V \subseteq C[m] /\ C[m + 1] = lead(C[m])
       /\ \A s \in V : s \in C[m] <=> s \in G \/ R[m][s] > 0
  <2>1. m <= MaxBound + 1
    BY <1>5, PowerIs
  <2> QED BY <1>5, <1>10, <1>13, <2>1 DEF N
<1>17. T(program.reset) \cap C[m] # {}
  <2> SUFFICES ASSUME T(program.reset) \cap C[m] = {} PROVE FALSE
    OBVIOUS
  <2>1. C[m] # V
    BY <1>1
  <2>2. C[m] = lead(C[m])
    BY <1>15, <1>16, <2>1
  <2>3. T(program.reset) \subseteq V \ C[m]
    BY <1>1
  <2>4. \A s \in V \ C[m] : T(s) \subseteq V \ C[m]
    BY <1>1, <2>2
  <2>5. V \subseteq V \ C[m]
    BY <1>4, <2>3, <2>4
  <2> QED BY <1>7, <1>16, <2>5
<1>18. \E t \in T(program.reset) : t \in G \/ R[m][t] > 0
  BY <1>1, <1>16, <1>17
<1>19. R[m + 1][program.reset] > 0
  BY <1>1, <1>3, <1>5, <1>18
<1> QED BY <1>5, <1>19 DEF R

\* The recursion on the program counts the same rounds.
LEMMA ProbabilityIsRound ==
  ASSUME program \in Programs, NEW G, \A s \in ProgramStates : s \in G <=> Meant(psi, s),
         NEW b \in Nat
  PROVE  ProbabilityWithin(b) = RoundsOf(program, G)[b][program.reset]
PROOF
<1> DEFINE R == RoundsOf(program, G)
           given(o, x) ==
             o.weight * (IF Meant(psi, o.target) THEN Unit ELSE x[o.target] \div Weight)
           round(x, s) == SumOf([k \in 1..Len(StepOf(program, s)) |->
                                   given(StepOf(program, s)[k], x)])
           within == CHOOSE v : v = [n \in 0..b |->
                       [s \in ProgramStates |-> IF n = 0 THEN 0 ELSE round(v[n - 1], s)]]
<1>1. ProbabilityWithin(b) = within[b][program.reset]
  BY DEF ProbabilityWithin
<1>2. ASSUME NEW s \in ProgramStates, NEW x
      PROVE  round(x, s) = RoundAt(program, s, G, x)
  <2>1. ASSUME NEW k \in 1..Len(StepOf(program, s))
        PROVE  given(StepOf(program, s)[k], x) = OptionShare(StepOf(program, s)[k], G, x)
    <3>1. StepOf(program, s)[k].target \in ProgramStates
      BY StepFacts
    <3> QED BY <3>1 DEF OptionShare
  <2> HIDE DEF given
  <2>2. [k \in 1..Len(StepOf(program, s)) |-> given(StepOf(program, s)[k], x)]
          = [k \in 1..Len(StepOf(program, s)) |-> OptionShare(StepOf(program, s)[k], G, x)]
    BY <2>1
  <2> QED BY <2>2 DEF RoundAt
<1> HIDE DEF round
<1> DEFINE r == [n \in 0..b |-> R[n]]
<1>3. /\ R \in [Nat -> [ProgramStates -> Nat]] /\ R[0] = [s \in ProgramStates |-> 0]
      /\ \A n \in Nat : \A s \in ProgramStates :
           R[n + 1][s] = RoundAt(program, s, G, R[n])
  BY RoundsAre DEF NothingYet
<1> HIDE DEF R
<1>4. ASSUME NEW n \in 1..b
      PROVE  R[n] = [s \in ProgramStates |-> round(R[n - 1], s)]
  <2>1. n \in Nat /\ n - 1 \in Nat /\ (n - 1) + 1 = n
    OBVIOUS
  <2>2. \A s \in ProgramStates : R[n][s] = round(R[n - 1], s)
    BY <1>2, <1>3, <2>1
  <2>3. R[n] \in [ProgramStates -> Nat]
    BY <1>3, <2>1
  <2> QED BY <2>2, <2>3
<1>5. r = [n \in 0..b |-> [s \in ProgramStates |-> IF n = 0 THEN 0 ELSE round(r[n - 1], s)]]
  <2>1. ASSUME NEW n \in 0..b
        PROVE  r[n] = [s \in ProgramStates |-> IF n = 0 THEN 0 ELSE round(r[n - 1], s)]
    <3>1. CASE n = 0
      BY <1>3, <3>1
    <3>2. CASE n # 0
      <4>1. n \in 1..b /\ n - 1 \in 0..b
        BY <3>2
      <4> QED BY <1>4, <3>2, <4>1
    <3> QED BY <3>1, <3>2
  <2> QED BY <2>1
<1>6. within = [n \in 0..b |->
                  [s \in ProgramStates |-> IF n = 0 THEN 0 ELSE round(within[n - 1], s)]]
  <2> HIDE DEF r
  <2> QED BY <1>5
<1> HIDE DEF within
<1>7. GoTogether(within, r, b)
  <2>1. within[0] = r[0]
    <3>1. 0 \in 0..b
      OBVIOUS
    <3>2. within[0] = [s \in ProgramStates |-> 0]
      BY <1>6, <3>1
    <3> QED BY <1>3, <3>1, <3>2
  <2>2. ASSUME NEW n \in 1..b, within[n - 1] = r[n - 1] PROVE within[n] = r[n]
    <3>1. n \in 0..b /\ n - 1 \in 0..b /\ n # 0
      OBVIOUS
    <3>2. within[n] = [s \in ProgramStates |-> round(within[n - 1], s)]
      BY <1>6, <3>1
    <3>3. within[n - 1] = R[n - 1]
      BY <2>2, <3>1
    <3> QED BY <1>4, <3>1, <3>2, <3>3
  <2> QED BY <2>1, <2>2 DEF GoTogether
<1>8. within[b] = R[b]
  <2>1. b \in 0..b
    OBVIOUS
  <2>2. within[b] = r[b]
    <3> HIDE DEF r
    <3> QED BY <1>7, <2>1, RecursionIsUnique
  <2> QED BY <2>1, <2>2
<1> QED BY <1>1, <1>8 DEF R

-----------------------------------------------------------------------------
(***************************************************************************)
(* What the invariants say of a program that asks plainly.                 *)
(***************************************************************************)
\* What is stored when a chain is returned is what the program visits.
LEMMA StoredIsVisited ==
  ASSUME CallsInv, Traversed, ChainInv, ArrayInv, stateCount > 0
  PROVE  IsInjective(contents) /\ Range(contents) = Visited
PROOF
<1>1. /\ contents \in Seq(ProgramStates) /\ Len(contents) \in Nat
      /\ \A a, b \in 1..Len(contents) : contents[a] = contents[b] => a = b
      /\ \A n \in 1..Len(contents) : contents[n] \in ReachableStates
  BY DEF Traversed, StorageFacts
<1>2. DOMAIN contents = 1..Len(contents)
  BY <1>1
<1>3. IsInjective(contents)
  BY <1>1, <1>2 DEF IsInjective
<1>4. /\ Range(contents) \in SUBSET ProgramStates /\ Range(contents) \subseteq ReachableStates
      /\ \A s \in Range(contents) : \E n \in 0..Len(contents) - 1 : s = contents[n + 1]
  <2>1. ASSUME NEW s \in Range(contents)
        PROVE  /\ s \in ProgramStates /\ s \in ReachableStates
               /\ \E n \in 0..Len(contents) - 1 : s = contents[n + 1]
    <3>1. PICK m \in 1..Len(contents) : s = contents[m]
      BY <1>2 DEF Range
    <3>2. m - 1 \in 0..Len(contents) - 1 /\ (m - 1) + 1 = m
      BY <1>1
    <3> QED BY <1>1, <3>1, <3>2
  <2> QED BY <2>1
<1>5. ASSUME NEW n \in StoredSources
      PROVE  TargetsOf(program, SourceState(n)) \subseteq Range(contents)
  <2>1. IsBlockOf(n)
    BY ReturnedChain
  <2>2. ASSUME NEW k \in 1..Len(OptionsOf(n)) PROVE OptionsOf(n)[k].target \in Range(contents)
    <3>1. PICK t : IsEntryOf(t, OptionsOf(n)[k])
      BY <2>1 DEF IsBlockOf
    <3>2. PICK j \in 0..Len(contents) - 1 : contents[j + 1] = OptionsOf(n)[k].target
      BY <3>1 DEF IsEntryOf
    <3>3. j + 1 \in DOMAIN contents
      BY <1>1, <1>2
    <3> QED BY <3>2, <3>3 DEF Range
  <2> QED BY <2>2 DEF TargetsOf, OptionsOf
<1>6. IsClosedUnderSteps(Range(contents))
  <2>1. NoSource \in StoredSources /\ SourceState(NoSource) = program.reset
    BY DEF StoredSources, SourceState
  <2>2. \A n \in 0..Len(contents) - 1 : n \in StoredSources /\ SourceState(n) = contents[n + 1]
    BY <1>1 DEF StoredSources, SourceState, NoSource
  <2> QED BY <1>4, <1>5, <2>1, <2>2 DEF IsClosedUnderSteps
<1>7. program \in Programs
  BY DEF CallsInv, ClientInv
<1>8. Range(contents) = ReachableStates
  BY <1>4, <1>6, <1>7, ReachableIsLeast
<1> QED BY <1>3, <1>7, <1>8, VisitedIs

LEMMA ChainValidates ==
  ASSUME CallsInv, Traversed, ChainInv, ArrayInv, AsksPlainly(program), stateCount > 0
  PROVE  Validates
PROOF
<1>1. /\ stateCount = Len(contents) /\ DOMAIN range = StoredSources /\ Len(contents) \in Nat
      /\ \A s \in StoredSources : IsBlockOf(s)
      /\ \A t \in DOMAIN transitions : \E s \in StoredSources :
           \E k \in 1..Len(OptionsOf(s)) : t = range[s].from + k - 1
      /\ \A f \in Range(program.formulas) : CompilesOnState(f)
  BY ReturnedChain DEF Traversed, StorageFacts
<1>2. program \in Programs
  BY DEF CallsInv, ClientInv
<1>3. \A s \in StoredSources :
        /\ SourceState(s) \in ProgramStates /\ OptionsOf(s) = StepOf(program, SourceState(s))
        /\ OptionsOf(s) \in Seq(Options) /\ Len(OptionsOf(s)) \in Nat \ {0}
  BY SourceStateTyped DEF OptionsOf
<1>4. PICK u \in Nat \ {0}, W \in Nat \ {0} : u = Unit /\ W = Weight /\ One = W * u
  BY UnitIs, PowerIs
<1>5. ASSUME NEW s \in StoredSources
      PROVE  range[s].from # -1 /\ range[s].elements > 0 /\ IsOne(Sum(s))
  <2>1. /\ range[s].from \in Nat /\ range[s].elements = Len(OptionsOf(s))
        /\ \A k \in 1..Len(OptionsOf(s)) : IsEntryOf(range[s].from + k - 1, OptionsOf(s)[k])
    BY <1>1 DEF IsBlockOf
  <2> DEFINE step == OptionsOf(s)
             N == Len(step)
             p == [k \in 1..N |-> step[k].weight * Unit]
  <2>2. /\ N \in Nat \ {0} /\ SumOf(WeightsOf(step)) = Weight
        /\ WeightsOf(step) = [k \in 1..N |-> step[k].weight]
        /\ \A k \in 1..N : step[k].weight \in Nat
    <3>1. \A k \in 1..N : step[k].weight \in 1..Weight
      BY <1>2, <1>3, StepFacts
    <3> QED BY <1>2, <1>3, <3>1, StepFacts, PowerIs DEF WeightsOf
  <2>3. Sum(s) = SumOf(p)
    <3>1. range[s].elements = N
      BY <2>1
    <3>2. \A k \in 1..N : TransitionsOf(s)[k].probability = step[k].weight * Unit
      BY <2>1, <3>1 DEF TransitionsOf, IsEntryOf
    <3>3. [k \in 1..range[s].elements |-> TransitionsOf(s)[k].probability] = p
      BY <3>1, <3>2
    <3> QED BY <3>3 DEF Sum
  <2> HIDE DEF step, N
  <2>4. /\ p \in Seq(Int) /\ WeightsOf(step) \in Seq(Int) /\ Len(p) = Len(WeightsOf(step))
        /\ \A k \in 1..Len(WeightsOf(step)) : p[k] = u * WeightsOf(step)[k]
    <3>1. ASSUME NEW k \in 1..N PROVE p[k] \in Int /\ p[k] = u * WeightsOf(step)[k]
      <4>1. PICK w \in Nat : w = step[k].weight
        BY <2>2
      <4> QED BY <1>4, <2>2, <4>1
    <3> HIDE DEF p
    <3>2. DOMAIN p = 1..N
      BY DEF p
    <3>3. p \in Seq(Int) /\ Len(p) = N
      BY <2>2, <3>1 DEF p
    <3>4. WeightsOf(step) \in Seq(Int) /\ Len(WeightsOf(step)) = N
      BY <2>2
    <3> QED BY <3>1, <3>3, <3>4
  <2>5. SumOf(p) = u * W
    <3>1. PICK q \in Seq(Int) : q = WeightsOf(step)
      BY <2>4
    <3> HIDE DEF p
    <3>2. SumOf(p) = u * SumOf(q)
      BY <1>4, <2>4, <3>1, SumOfScaled
    <3>3. SumOf(q) = W
      BY <1>4, <2>2, <3>1
    <3> QED BY <3>2, <3>3
  <2>6. u * W = W * u
    BY <1>4
  <2> QED BY <1>4, <2>1, <2>2, <2>3, <2>5, <2>6 DEF IsOne, step, N
<1>6. ASSUME NEW t \in DOMAIN transitions
      PROVE  /\ transitions[t] # NoEntry /\ transitions[t].state \in 0..stateCount - 1
             /\ IsValid(transitions[t].probability)
  <2>0. PICK s \in StoredSources :
          \E k \in 1..Len(OptionsOf(s)) : t = range[s].from + k - 1
    BY <1>1
  <2>1. PICK k \in 1..Len(OptionsOf(s)) : t = range[s].from + k - 1
    BY <2>0
  <2>2. PICK o \in Options : IsEntryOf(t, o)
    <3>1. IsEntryOf(t, OptionsOf(s)[k])
      BY <1>1, <2>1 DEF IsBlockOf
    <3>2. OptionsOf(s)[k] \in Options
      BY <1>3
    <3> QED BY <3>1, <3>2
  <2>3. PICK w \in 1..W : w = o.weight
    BY <1>4 DEF Options
  <2>4. w * u \in Nat /\ 0 < w * u /\ w * u <= W * u
    BY <1>4, <2>3
  <2>5. LabelAt(program, o.target) \in Seq(BOOLEAN)
    BY <1>1, <1>2, LabelsSayPlainly DEF Options
  <2>6. transitions[t] \in [probability : Nat, label : Seq(BOOLEAN), state : Nat]
    BY <1>4, <2>2, <2>3, <2>4, <2>5 DEF IsEntryOf
  <2>7. transitions[t] # NoEntry
    BY <2>6, ArrayAssumption
  <2>8. transitions[t].probability = w * u /\ transitions[t].state \in 0..stateCount - 1
    BY <1>1, <1>4, <2>2, <2>3 DEF IsEntryOf
  <2> QED BY <1>4, <2>4, <2>7, <2>8 DEF IsValid
<1>7. \A s \in 0..stateCount - 1 : s \in StoredSources
  BY <1>1 DEF StoredSources
<1> QED BY <1>1, <1>5, <1>6, <1>7 DEF Validates

LEMMA ChainIsTheProgram ==
  ASSUME CallsInv, Traversed, ChainInv, ArrayInv, AsksPlainly(program)
  PROVE  ChainIsProgram
PROOF
<1> SUFFICES ASSUME stateCount > 0
             PROVE  /\ IsInjective(contents) /\ Range(contents) = Visited
                    /\ stateCount = Len(contents)
                    /\ \A n \in DOMAIN range :
                         LET step == StepOf(program, IF n = NoSource THEN program.reset
                                                     ELSE contents[n + 1])
                         IN  /\ range[n].elements = Len(step)
                             /\ \A k \in 1..Len(step) :
                                  LET entry == TransitionsOf(n)[k]
                                  IN  /\ contents[entry.state + 1] = step[k].target
                                      /\ entry.probability = step[k].weight * Unit
                                      /\ \A m \in 1..Len(program.formulas) :
                                           entry.label[m]
                                             = Meant(program.formulas[m], step[k].target)
                    /\ Validates
  BY DEF ChainIsProgram
<1>1. /\ stateCount = Len(contents) /\ DOMAIN range = StoredSources
      /\ \A s \in StoredSources : IsBlockOf(s)
      /\ \A f \in Range(program.formulas) : CompilesOnState(f)
      /\ program \in Programs
  BY ReturnedChain DEF CallsInv, ClientInv
<1>2. ASSUME NEW n \in StoredSources, NEW k \in 1..Len(OptionsOf(n))
      PROVE  /\ contents[TransitionsOf(n)[k].state + 1] = OptionsOf(n)[k].target
             /\ TransitionsOf(n)[k].probability = OptionsOf(n)[k].weight * Unit
             /\ \A m \in 1..Len(program.formulas) :
                  TransitionsOf(n)[k].label[m]
                    = Meant(program.formulas[m], OptionsOf(n)[k].target)
  <2>1. /\ IsEntryOf(range[n].from + k - 1, OptionsOf(n)[k])
        /\ range[n].elements = Len(OptionsOf(n))
    BY <1>1 DEF IsBlockOf
  <2>2. TransitionsOf(n)[k] = transitions[range[n].from + k - 1]
    BY <2>1 DEF TransitionsOf
  <2>3. OptionsOf(n)[k].target \in ProgramStates
    BY <1>1, SourceStateTyped, StepFacts DEF OptionsOf
  <2>4. \A m \in 1..Len(program.formulas) :
          LabelAt(program, OptionsOf(n)[k].target)[m]
            = Meant(program.formulas[m], OptionsOf(n)[k].target)
    BY <1>1, <2>3, LabelsSayPlainly DEF Meant
  <2> QED BY <2>1, <2>2, <2>4 DEF IsEntryOf
<1>3. ASSUME NEW n \in StoredSources
      PROVE  /\ OptionsOf(n) = StepOf(program, IF n = NoSource THEN program.reset
                                              ELSE contents[n + 1])
             /\ range[n].elements = Len(OptionsOf(n))
  BY <1>1 DEF OptionsOf, SourceState, IsBlockOf
<1> QED BY <1>1, <1>2, <1>3, StoredIsVisited, ChainValidates

\* The label satisfies psi where psi holds.
LEMMA HoldSetIs ==
  ASSUME CallsInv, Traversed, ChainInv, ArrayInv, AsksPlainly(program), stateCount > 0,
         Compiles(IdentifiersOf(program.formulas), psi)
  PROVE  \A s \in ProgramStates : s \in HoldSet <=> Meant(psi, s)
PROOF
<1>1. /\ program \in Programs /\ psi \in program.asked
      /\ \A f \in Range(program.formulas) : CompilesOnState(f)
  BY ReturnedChain DEF CallsInv, ClientInv
<1> SUFFICES ASSUME NEW s \in ProgramStates PROVE s \in HoldSet <=> Meant(psi, s)
  OBVIOUS
<1>2. EvaluateOnLabel(IdentifiersOf(program.formulas), psi, LabelAt(program, s))
        = Means(psi, Valuation(program, s))
  BY <1>1, LabelsSayPlainly
<1> QED BY <1>2 DEF HoldSet, Meant

LEMMA AnswersAreTheirs ==
  ASSUME CallsInv, Traversed, ChainInv, ArrayInv, CheckInv, AsksPlainly(program)
  PROVE  AnswersAreProbabilities
PROOF
<1> SUFFICES ASSUME NEW b \in 1..Len(answers) PROVE answers[b] = ProbabilityWithin(b)
  BY DEF AnswersAreProbabilities
<1>1. /\ Len(answers) > 0 /\ b \in Nat
      /\ answers[b] = RoundsOf(program, HoldSet)[b][program.reset]
  BY DEF CheckInv, After
<1>2. \A s \in ProgramStates : s \in HoldSet <=> Meant(psi, s)
  BY <1>1, HoldSetIs DEF CheckInv
<1> QED BY <1>1, <1>2, ProbabilityIsRound DEF CallsInv, ClientInv

LEMMA VerdictsDoAgree ==
  ASSUME CallsInv, Traversed, ChainInv, ArrayInv, CheckInv, VerdictInv, AsksPlainly(program)
  PROVE  VerdictsAgree
PROOF
<1> SUFFICES ASSUME NEW b \in 1..Len(answers)
             PROVE  /\ verdict = "reached" /\ b >= Cardinality(Visited) => answers[b] > 0
                    /\ verdict = "unreached" => answers[b] = 0
  BY DEF VerdictsAgree
<1>1. /\ Len(answers) > 0 /\ b \in 1..MaxBound + 1 /\ b \in 0..MaxBound + 1
      /\ answers[b] = RoundsOf(program, HoldSet)[b][program.reset]
      /\ program \in Programs /\ psi \in program.asked
  BY PowerIs DEF CheckInv, After, CallsInv, ClientInv
<1>2. \A s \in ProgramStates : s \in HoldSet <=> Meant(psi, s)
  BY <1>1, HoldSetIs DEF CheckInv
<1>3. \A s \in ProgramStates : Evaluates(program, psi, s) = Meant(psi, s)
  BY <1>1, EvaluatesPlainly, FormulasAre DEF Meant
<1>4. Visited = ReachableStates /\ ReachableStates \in SUBSET ProgramStates
  BY <1>1, VisitedIs, ReachableIsLeast
<1>5. PsiReachable <=> HoldSet \cap ReachableStates # {}
  BY <1>2, <1>3, <1>4 DEF PsiReachable
<1>6. ASSUME verdict = "reached", b >= Cardinality(Visited) PROVE answers[b] > 0
  <2>1. HoldSet \cap ReachableStates # {}
    BY <1>5, <1>6 DEF VerdictInv
  <2> QED BY <1>1, <1>4, <1>6, <2>1, SomethingWithin
<1>7. ASSUME verdict = "unreached" PROVE answers[b] = 0
  <2>1. HoldSet \cap ReachableStates = {}
    BY <1>5, <1>7 DEF VerdictInv
  <2> QED BY <1>1, <2>1, NothingWithin
<1> QED BY <1>6, <1>7
-----------------------------------------------------------------------------
(***************************************************************************)
(* The traversal is GenericTraverser, with the programs as its models.     *)
(***************************************************************************)
TraversedTransitions == [target : ProgramStates, label : BOOLEAN]

TraversedModels ==
  {m \in [initial : Seq(TraversedTransitions),
          next : [ProgramStates -> Seq(TraversedTransitions)],
          createStutteringState : BOOLEAN, room : 1..MaximalStates] :
     ~m.createStutteringState}

Tr == INSTANCE GenericTraverserProofs
  WITH States <- ProgramStates, Stuttering <- NoState, Models <- TraversedModels,
       handled <- expanded, model <- TraversedModel

LEMMA TraversalAssumption == Tr!ModelAssumption
PROOF
<1> SUFFICES ASSUME NEW m \in TraversedModels
             PROVE  /\ m.initial \in Seq(Tr!ModelTransitions)
                    /\ m.next \in [ProgramStates -> Seq(Tr!ModelTransitions)]
                    /\ m.createStutteringState \in BOOLEAN
                    /\ \A tr \in Tr!Range(m.initial)
                                  \cup UNION {Tr!Range(m.next[s]) : s \in ProgramStates} :
                         tr.target # NoState
                    /\ m.room \in 1..MaximalStates
  BY ConstantFacts DEF Tr!ModelAssumption
<1>1. /\ m.initial \in Seq(TraversedTransitions)
      /\ m.next \in [ProgramStates -> Seq(TraversedTransitions)]
      /\ m.createStutteringState \in BOOLEAN /\ m.room \in 1..MaximalStates
  BY DEF TraversedModels
<1>2. TraversedTransitions \subseteq Tr!ModelTransitions
  BY DEF TraversedTransitions, Tr!ModelTransitions
<1>3. ASSUME NEW ts \in Seq(TraversedTransitions)
      PROVE  /\ ts \in Seq(Tr!ModelTransitions)
             /\ \A tr \in Tr!Range(ts) : tr.target # NoState
  <2>1. ts \in Seq(Tr!ModelTransitions)
    BY <1>2
  <2>2. \A k \in 1..Len(ts) : ts[k] \in TraversedTransitions
    OBVIOUS
  <2>3. Tr!Range(ts) = {ts[k] : k \in 1..Len(ts)}
    BY DEF Tr!Range
  <2> QED BY <2>1, <2>2, <2>3, ConstantFacts DEF TraversedTransitions
<1>4. m.next \in [ProgramStates -> Seq(Tr!ModelTransitions)]
  BY <1>1, <1>3
<1> QED BY <1>1, <1>3, <1>4

\* What the traversal is given of a state.
LEMMA TransitionsFacts ==
  ASSUME NEW p \in Programs, NEW s \in ProgramStates
  PROVE  /\ TransitionsTo(p, s) \in Seq(TraversedTransitions)
         /\ Len(TransitionsTo(p, s)) = Len(StepOf(p, s))
         /\ \A k \in 1..Len(StepOf(p, s)) :
              TransitionsTo(p, s)[k].target = StepOf(p, s)[k].target
PROOF
<1> DEFINE step == StepOf(p, s)
           ts == TransitionsTo(p, s)
<1>1. /\ Len(step) \in Nat
      /\ \A k \in 1..Len(step) : step[k].target \in ProgramStates
  BY StepFacts
<1>2. ts = [k \in 1..Len(step) |->
              [target |-> step[k].target,
               label  |-> call = "check" /\ Evaluates(p, psi, step[k].target)]]
  BY DEF TransitionsTo
<1> HIDE DEF ts, step
<1>3. \A k \in 1..Len(step) : ts[k] \in TraversedTransitions /\ ts[k].target = step[k].target
  BY <1>1, <1>2 DEF TraversedTransitions
<1>4. DOMAIN ts = 1..Len(step) /\ ts \in [1..Len(step) -> TraversedTransitions]
  BY <1>2, <1>3
<1> QED BY <1>1, <1>3, <1>4 DEF ts, step

LEMMA TraversedModelTyped ==
  ASSUME ClientInv
  PROVE  /\ TraversedModel \in TraversedModels
         /\ TraversedModel.room = conf.states /\ conf.states \in 1..MaximalStates
         /\ TraversedModel.createStutteringState = FALSE
         /\ TraversedModel.initial = TransitionsTo(program, program.reset)
         /\ \A s \in ProgramStates : TraversedModel.next[s] = TransitionsTo(program, s)
PROOF
<1>1. /\ program \in Programs /\ conf.states \in 1..MaximalStates
      /\ program.reset \in ProgramStates
  BY ProgramAssumption DEF ClientInv
<1>2. \A s \in ProgramStates : TransitionsTo(program, s) \in Seq(TraversedTransitions)
  BY <1>1, TransitionsFacts
<1> QED BY <1>1, <1>2 DEF TraversedModel, TraversedModels

LEMMA NextModelTyped ==
  ASSUME ClientInv, UNCHANGED client
  PROVE  TraversedModel' \in TraversedModels
PROOF
<1> DEFINE ts(s) == TransitionsTo(program, s)'
<1>1. /\ program \in Programs /\ conf.states \in 1..MaximalStates
      /\ program.reset \in ProgramStates /\ program' = program /\ conf' = conf
  BY ProgramAssumption DEF ClientInv, client
<1>2. ASSUME NEW s \in ProgramStates
      PROVE  ts(s) \in Seq(TraversedTransitions)
  <2> DEFINE step == StepOf(program, s)
  <2>1. Len(step) \in Nat /\ \A k \in 1..Len(step) : step[k].target \in ProgramStates
    BY <1>1, StepFacts
  <2>2. ts(s) = [k \in 1..Len(step) |->
                  [target |-> step[k].target,
                   label  |-> call' = "check" /\ Evaluates(program, psi', step[k].target)]]
    BY <1>1 DEF TransitionsTo
  <2> HIDE DEF ts, step
  <2>3. ts(s) \in [1..Len(step) -> TraversedTransitions]
    BY <2>1, <2>2 DEF TraversedTransitions
  <2> QED BY <2>1, <2>3
<1>3. TraversedModel' = [initial |-> ts(program.reset), next |-> [s \in ProgramStates |-> ts(s)],
                         createStutteringState |-> FALSE, room |-> conf.states]
  BY <1>1 DEF TraversedModel
<1> HIDE DEF ts
<1> QED BY <1>1, <1>2, <1>3 DEF TraversedModels

\* The facade's traversal takes the steps of the traversal that is proved about.
LEMMA SameOperations ==
  /\ Traverser!Path!EmptyTracker = Tr!Path!EmptyTracker
  /\ \A t : Traverser!Path!WithFrame(t) = Tr!Path!WithFrame(t)
  /\ \A t, n : Traverser!Path!WithStateIndex(t, n) = Tr!Path!WithStateIndex(t, n)
  /\ \A t : Traverser!Path!RefusesEntry(t) = Tr!Path!RefusesEntry(t)
  /\ \A t : Traverser!Path!Settled(t) = Tr!Path!Settled(t)
  /\ \A t : Traverser!Path!Topmost(t) = Tr!Path!Topmost(t)
  /\ Traverser!NoSource = NoSource /\ Tr!NoSource = NoSource
PROOF
<1>1. /\ Traverser!Path!NoFrame = Tr!Path!NoFrame
      /\ \A a, b : Traverser!Path!Frame(a, b) = Tr!Path!Frame(a, b)
      /\ \A f : Traverser!Path!End(f) = Tr!Path!End(f)
      /\ \A f : Traverser!Path!LiveFrames(f) = Tr!Path!LiveFrames(f)
      /\ \A f : Traverser!Path!Last(f) = Tr!Path!Last(f)
      /\ \A f : Traverser!Path!Max(f) = Tr!Path!Max(f)
  BY DEF Traverser!Path!NoFrame, Tr!Path!NoFrame, Traverser!Path!Frame, Tr!Path!Frame,
         Traverser!Path!End, Tr!Path!End, Traverser!Path!LiveFrames, Tr!Path!LiveFrames,
         Traverser!Path!Last, Tr!Path!Last, Traverser!Path!Max, Tr!Path!Max
<1>2. Traverser!Path!EmptyTracker = Tr!Path!EmptyTracker
  BY <1>1 DEF Traverser!Path!EmptyTracker, Tr!Path!EmptyTracker
<1>3. \A t : Traverser!Path!WithFrame(t) = Tr!Path!WithFrame(t)
  BY <1>1 DEF Traverser!Path!WithFrame, Tr!Path!WithFrame
<1>4. \A t, n : Traverser!Path!WithStateIndex(t, n) = Tr!Path!WithStateIndex(t, n)
  BY <1>1 DEF Traverser!Path!WithStateIndex, Tr!Path!WithStateIndex
<1>5. \A t : Traverser!Path!RefusesEntry(t) = Tr!Path!RefusesEntry(t)
  BY <1>1 DEF Traverser!Path!RefusesEntry, Tr!Path!RefusesEntry
<1>6. \A t : Traverser!Path!Settled(t) = Tr!Path!Settled(t)
  BY <1>1, Zenon DEF Traverser!Path!Settled, Tr!Path!Settled
<1>7. \A t : Traverser!Path!Topmost(t) = Tr!Path!Topmost(t)
  BY <1>1 DEF Traverser!Path!Topmost, Tr!Path!Topmost
<1>8. Traverser!NoSource = NoSource /\ Tr!NoSource = NoSource
  BY DEF Traverser!NoSource, Tr!NoSource, NoSource
<1> QED BY <1>2, <1>3, <1>4, <1>5, <1>6, <1>7, <1>8

LEMMA SameWork ==
  \A storage, pt, ts : Traverser!Worked(storage, pt, ts) = Tr!Worked(storage, pt, ts)
PROOF
<1>1. \A s, t, ts : Traverser!Begin(s, t, ts) = Tr!Begin(s, t, ts)
  BY SameOperations, Zenon DEF Traverser!Begin, Tr!Begin
<1>2. \A w, s : Traverser!AddKnown(w, s) = Tr!AddKnown(w, s)
  BY DEF Traverser!AddKnown, Tr!AddKnown
<1>3. \A w, s : Traverser!AddNew(w, s) = Tr!AddNew(w, s)
  BY SameOperations, Zenon DEF Traverser!AddNew, Tr!AddNew
<1>4. \A w, tr : Traverser!AddTarget(w, tr) = Tr!AddTarget(w, tr)
  BY <1>2, <1>3 DEF Traverser!AddTarget, Tr!AddTarget, Traverser!Range, Tr!Range
<1> QED BY <1>1, <1>4, Zenon DEF Traverser!Worked, Tr!Worked

LEMMA SameSteps == Traverser!Worker => Tr!Worker
PROOF
<1>1. \A s, ts, storage, pt :
        Traverser!HandleTransitions(s, ts, storage, pt)
          => Tr!HandleTransitions(s, ts, storage, pt)
  <2>1. \A ts : Traverser!Hit(ts) <=> Tr!Hit(ts)
    BY DEF Traverser!Hit, Tr!Hit, Traverser!Range, Tr!Range
  <2> QED BY <2>1, SameWork DEF Traverser!HandleTransitions, Tr!HandleTransitions
<1>2. Traverser!Settled = Tr!Settled /\ Traverser!ClearedStorage = Tr!ClearedStorage
  BY SameOperations DEF Traverser!Settled, Tr!Settled,
                        Traverser!ClearedStorage, Tr!ClearedStorage
<1>3. Traverser!Start => Tr!Start
  BY <1>1, <1>2, SameOperations DEF Traverser!Start, Tr!Start
<1>4. Traverser!Finish => Tr!Finish
  BY <1>2 DEF Traverser!Finish, Tr!Finish
<1>5. Traverser!Stop => Tr!Stop
  BY <1>2 DEF Traverser!Stop, Tr!Stop
<1>6. Traverser!Expand => Tr!Expand
  BY <1>1, <1>2, SameOperations DEF Traverser!Expand, Tr!Expand
<1> QED BY <1>3, <1>4, <1>5, <1>6 DEF Traverser!Worker, Tr!Worker

\* The model of the traversal is the same one until the next call.
LEMMA ModelStays ==
  ASSUME UNCHANGED client, call' = call \/ (call # "check" /\ call' # "check")
  PROVE  TraversedModel' = TraversedModel
PROOF
<1>1. program' = program /\ conf' = conf /\ psi' = psi
  BY DEF client
<1>2. (call' = "check") <=> (call = "check")
  OBVIOUS
<1>3. \A s : TransitionsTo(program, s)' = TransitionsTo(program, s)
  BY <1>1, <1>2 DEF TransitionsTo
<1> QED BY <1>1, <1>3, Zenon DEF TraversedModel

LEMMA NextKeepsTraversal ==
  ASSUME CallsInv, CallsInv', Tr!TraverserInv, [PemcNext]_pemc
  PROVE  Tr!TraverserInv' \/ Tr!Init'
PROOF
<1>1. CASE Traverse
  <2>1. TraversedModel' = TraversedModel
    BY <1>1, ModelStays DEF Traverse
  <2>2. Tr!Worker
    BY <1>1, SameSteps DEF Traverse
  <2>3. [Tr!Next]_(Tr!vars)
    BY <2>2 DEF Tr!Next
  <2> QED BY <2>3, Tr!NextKeepsTraverserInv, TraversalAssumption
<1>2. CASE Throw
  <2>1. TraversedModel' = TraversedModel
    BY <1>2, ModelStays DEF Throw
  <2>2. status' = "thrown" /\ UNCHANGED <<contents, tracker, expanded, reached, canceled>>
    BY <1>2 DEF Throw
  <2>3. status # "created" => Tr!HasStuttering(TraversedModel, contents)
    BY DEF Tr!TraverserInv
  <2>4. Tr!HasStuttering(TraversedModel, contents)
    <3>1. CASE status = "created"
      <4>1. Len(contents) = 0 /\ TraversedModel.createStutteringState = FALSE
        BY <3>1, TraversedModelTyped, Zenon DEF Tr!TraverserInv, CallsInv
      <4> QED BY <4>1 DEF Tr!HasStuttering
    <3> QED BY <2>3, <3>1
  <2> QED BY <2>1, <2>2, <2>4 DEF Tr!TraverserInv, Tr!Running
<1>3. CASE ReturnVerdict
  <2>1. /\ status' = "created" /\ contents' = <<>> /\ expanded' = {}
        /\ tracker' = Tr!Path!EmptyTracker /\ reached' = FALSE /\ canceled' = FALSE
    BY <1>3, SameOperations DEF ReturnVerdict
  <2>2. TraversedModel' \in TraversedModels
    <3>1. ClientInv /\ UNCHANGED client
      BY <1>3 DEF CallsInv, ReturnVerdict
    <3> QED BY <3>1, NextModelTyped
  <2>3. Tr!Path!EmptyTracker' = Tr!Path!EmptyTracker
    BY DEF Tr!Path!EmptyTracker, Tr!Path!NoFrame
  <2> QED BY <2>1, <2>2, <2>3 DEF Tr!Init
<1>4. CASE TraversalStays
  <2>1. TraversedModel' = TraversedModel
    BY <1>4, ModelStays DEF TraversalStays
  <2>2. UNCHANGED <<status, contents, tracker, expanded, reached, canceled>>
    BY <1>4 DEF TraversalStays, traversal
  <2>3. [Tr!Next]_(Tr!vars)
    BY <2>1, <2>2 DEF Tr!vars
  <2> QED BY <2>3, Tr!NextKeepsTraverserInv, TraversalAssumption
<1> QED BY <1>1, <1>2, <1>3, <1>4, TraversalSteps

LEMMA InitIsTraversal == PemcInit => Tr!Init
PROOF
<1> SUFFICES ASSUME PemcInit PROVE Tr!Init
  OBVIOUS
<1>1. TraversedModel \in TraversedModels
  BY InitCalls, TraversedModelTyped DEF CallsInv
<1> QED BY <1>1, SameOperations DEF PemcInit, Tr!Init

\* Each call's traversal keeps to the invariant of GenericTraverser's.
THEOREM TraversalInductive == PemcSpec => [](CallsInv /\ Tr!TraverserInv)
PROOF
<1>1. Tr!Init => Tr!TraverserInv
  BY Tr!InitIsTraverserInv, TraversalAssumption
<1>2. PemcInit => CallsInv /\ Tr!Init
  BY InitCalls, InitIsTraversal
<1>3. CallsInv /\ [PemcNext]_pemc => CallsInv'
  BY NextKeepsCalls
<1>4. CallsInv /\ CallsInv' /\ Tr!TraverserInv /\ [PemcNext]_pemc
        => Tr!TraverserInv' \/ Tr!Init'
  BY NextKeepsTraversal
<1> QED BY <1>1, <1>2, <1>3, <1>4, PTL DEF PemcSpec
-----------------------------------------------------------------------------
(***************************************************************************)
(* What the traversal promises, from its invariant.                        *)
(***************************************************************************)
\* The facade's token is canceled by the modifier of the check and by nobody
\* else, and only a canceled traversal stops.
TokenInv == canceled = reached /\ (status = "stopped" => canceled)

LEMMA InitToken == PemcInit => TokenInv
PROOF BY Zenon DEF PemcInit, TokenInv

LEMMA NextKeepsToken == CallsInv /\ TokenInv /\ [PemcNext]_pemc => TokenInv'
PROOF
<1> SUFFICES ASSUME CallsInv, TokenInv, [PemcNext]_pemc PROVE TokenInv'
  OBVIOUS
<1>1. CASE Traverse
  <2>1. CASE Traverser!Start \/ Traverser!Expand
    <3>1. PICK s, ts, storage, pt : Traverser!HandleTransitions(s, ts, storage, pt)
      BY <2>1 DEF Traverser!Start, Traverser!Expand
    <3>2. /\ status' \in {"thrown", "traversing"}
          /\ \/ reached' = reached /\ canceled' = canceled
             \/ /\ reached' = (reached \/ Traverser!Hit(ts))
                /\ canceled' = (canceled \/ Traverser!Hit(ts))
      BY <3>1 DEF Traverser!HandleTransitions
    <3> QED BY <3>2 DEF TokenInv
  <2>2. CASE Traverser!Finish \/ Traverser!Stop
    BY <2>2 DEF Traverser!Finish, Traverser!Stop, TokenInv
  <2> QED BY <1>1, <2>1, <2>2 DEF Traverse, Traverser!Worker
<1>2. CASE Throw
  BY <1>2 DEF Throw, TokenInv
<1>3. CASE ReturnVerdict
  BY <1>3, Zenon DEF ReturnVerdict, TokenInv
<1>4. CASE TraversalStays
  BY <1>4 DEF TraversalStays, traversal, TokenInv
<1> QED BY <1>1, <1>2, <1>3, <1>4, TraversalSteps

\* The model that is traversed has the program's steps.
LEMMA TraversedTargets ==
  ASSUME CallsInv
  PROVE  /\ Tr!Targets(TraversedModel.initial) = TargetsOf(program, program.reset)
         /\ \A s \in ProgramStates :
              Tr!Targets(TraversedModel.next[s]) = TargetsOf(program, s)
PROOF
<1>1. ASSUME NEW s \in ProgramStates
      PROVE  Tr!Targets(TransitionsTo(program, s)) = TargetsOf(program, s)
  <2> DEFINE ts == TransitionsTo(program, s)
             step == StepOf(program, s)
  <2>1. /\ ts \in Seq(TraversedTransitions) /\ Len(ts) = Len(step)
        /\ \A k \in 1..Len(step) : ts[k].target = step[k].target
        /\ \A k \in 1..Len(step) : step[k].target \in ProgramStates
    BY TransitionsFacts, StepFacts DEF CallsInv, ClientInv
  <2> HIDE DEF ts, step
  <2>2. Tr!Range(ts) = {ts[k] : k \in 1..Len(step)}
    BY <2>1 DEF Tr!Range
  <2>3. Tr!Targets(ts) = {step[k].target : k \in 1..Len(step)}
    BY <2>1, <2>2, ConstantFacts DEF Tr!Targets
  <2> QED BY <2>3 DEF ts, step, TargetsOf
<1>2. program.reset \in ProgramStates
  BY ProgramFacts DEF CallsInv, ClientInv
<1> QED BY <1>1, <1>2, TraversedModelTyped DEF CallsInv

LEMMA TraversedIsReachable ==
  ASSUME CallsInv PROVE Tr!Reachable = ReachableStates
PROOF
<1>1. ASSUME NEW set \in SUBSET ProgramStates
      PROVE  Tr!ClosedUnderNext(set) <=> IsClosedUnderSteps(set)
  <2>1. \A s \in set : s \in ProgramStates
    OBVIOUS
  <2> QED BY <2>1, TraversedTargets DEF Tr!ClosedUnderNext, IsClosedUnderSteps
<1> QED BY <1>1 DEF Tr!Reachable, ReachableStates

\* What the modifiers are given of a source.
LEMMA GivenByTraversal ==
  ASSUME CallsInv, Tr!TraverserInv, NEW h \in expanded
  PROVE  IsGiven(h)
PROOF
<1> DEFINE F == Tr!FromOf(TraversedModel, contents, h.source)
<1>1. /\ contents \in Seq(ProgramStates)
      /\ Tr!StateIndexesOf(contents) = 0..Len(contents) - 1
  BY TraversedModelTyped, TraversalAssumption, Tr!OnlyStatesAreStored, Zenon DEF CallsInv
<1>2. /\ h.source = NoSource \/ h.source \in 0..Len(contents) - 1
      /\ Tr!Answers(h.targets, contents, F, Len(F))
  BY <1>1, SameOperations DEF Tr!TraverserInv, Tr!HandledOk
<1>3. h.source \in StoredSources
  BY <1>2 DEF StoredSources
<1>4. /\ SourceState(h.source) \in ProgramStates
      /\ F = TransitionsTo(program, SourceState(h.source))
  <2>1. CASE h.source = NoSource
    <3>1. program.reset \in ProgramStates
      BY ProgramFacts DEF CallsInv, ClientInv
    <3> QED BY <2>1, <3>1, TraversedModelTyped, SameOperations
            DEF Tr!FromOf, SourceState, CallsInv
  <2>2. CASE h.source # NoSource
    <3>1. h.source + 1 \in 1..Len(contents)
      BY <1>1, <1>2, <2>2
    <3>2. contents[h.source + 1] \in ProgramStates
      BY <1>1, <3>1
    <3> QED BY <2>2, <3>2, TraversedModelTyped, SameOperations
            DEF Tr!FromOf, SourceState, CallsInv
  <2> QED BY <2>1, <2>2
<1> HIDE DEF F
<1>5. /\ Len(F) = Len(OptionsOf(h.source)) /\ Len(F) \in Nat
      /\ \A k \in 1..Len(F) : F[k].target = OptionsOf(h.source)[k].target
  BY <1>4, TransitionsFacts, StepFacts DEF OptionsOf, CallsInv, ClientInv
<1>6. /\ h.targets \in Seq(Nat) /\ Len(h.targets) = Len(F)
      /\ \A k \in 1..Len(F) : /\ h.targets[k] + 1 \in 1..Len(contents)
                              /\ contents[h.targets[k] + 1] = F[k].target
  BY <1>2 DEF Tr!Answers
<1>7. \A k \in 1..Len(F) : h.targets[k] \in 0..Len(contents) - 1
  BY <1>1, <1>6
<1> QED BY <1>3, <1>5, <1>6, <1>7 DEF IsGiven

\* A label of the check is the formula's value in a reachable state.
LEMMA LabelsFound ==
  ASSUME CallsInv, call = "check"
  PROVE  Tr!LabelReachable <=> PsiReachable
PROOF
<1> DEFINE reach == ReachableStates
           from(s) == TransitionsTo(program, s)
           holds(s) == Evaluates(program, psi, s)
           found(s) == \E t \in TargetsOf(program, s) : holds(t)
<1>1. /\ program \in Programs /\ program.reset \in ProgramStates
      /\ reach \in SUBSET ProgramStates /\ IsClosedUnderSteps(reach)
      /\ \A set \in SUBSET ProgramStates : IsClosedUnderSteps(set) => reach \subseteq set
  BY ProgramFacts, ReachableIsLeast DEF CallsInv, ClientInv
<1>2. ASSUME NEW s \in ProgramStates
      PROVE  (\E tr \in Tr!Range(from(s)) : tr.label) <=> found(s)
  <2> DEFINE ts == TransitionsTo(program, s)
             step == StepOf(program, s)
  <2>1. /\ ts \in Seq(TraversedTransitions) /\ Len(ts) = Len(step)
    BY <1>1, TransitionsFacts
  <2>2. ts = [k \in 1..Len(step) |->
                [target |-> step[k].target, label |-> call = "check" /\ holds(step[k].target)]]
    BY DEF TransitionsTo
  <2> HIDE DEF ts, step, holds
  <2>3. Tr!Range(ts) = {ts[k] : k \in 1..Len(step)}
    BY <2>1 DEF Tr!Range
  <2>4. \A k \in 1..Len(step) : ts[k].label <=> holds(step[k].target)
    BY <2>2, Zenon
  <2>5. (\E tr \in Tr!Range(ts) : tr.label) <=> \E k \in 1..Len(step) : holds(step[k].target)
    BY <2>3, <2>4
  <2>6. found(s) <=> \E k \in 1..Len(step) : holds(step[k].target)
    BY DEF TargetsOf, step
  <2> QED BY <2>5, <2>6 DEF ts
\* A reachable state is the target of a transition from one, or of a first one.
<1>3. reach = TargetsOf(program, program.reset)
                \cup UNION {TargetsOf(program, s) : s \in reach}
  <2> DEFINE S == TargetsOf(program, program.reset)
                    \cup UNION {TargetsOf(program, s) : s \in reach}
  <2> HIDE DEF reach
  <2>1. S \subseteq reach
    BY <1>1 DEF IsClosedUnderSteps
  <2>2. S \in SUBSET ProgramStates /\ IsClosedUnderSteps(S)
    BY <1>1, <2>1 DEF IsClosedUnderSteps
  <2> QED BY <1>1, <2>1, <2>2
<1>4. PsiReachable <=> found(program.reset) \/ \E s \in reach : found(s)
  <2>1. PsiReachable <=> \E s \in reach : holds(s)
    BY DEF PsiReachable
  <2> HIDE DEF reach, holds
  <2> QED BY <1>3, <2>1
<1>5. Tr!LabelReachable <=>
        (\E tr \in Tr!Range(from(program.reset)) : tr.label)
          \/ \E s \in reach : \E tr \in Tr!Range(from(s)) : tr.label
  <2>1. /\ TraversedModel.initial = from(program.reset)
        /\ \A s \in reach : TraversedModel.next[s] = from(s)
    BY <1>1, TraversedModelTyped DEF CallsInv
  <2>2. Tr!Reachable = reach
    BY TraversedIsReachable
  <2> HIDE DEF reach, from
  <2> QED BY <2>1, <2>2 DEF Tr!LabelReachable
<1> HIDE DEF reach, from, found
<1> QED BY <1>1, <1>2, <1>4, <1>5

LEMMA TraversalPromises ==
  CallsInv /\ Tr!TraverserInv /\ TokenInv => Traversed
PROOF
<1> SUFFICES ASSUME CallsInv, Tr!TraverserInv, TokenInv PROVE Traversed
  OBVIOUS
<1>1. /\ contents \in Seq(ProgramStates) /\ Len(contents) \in Nat
      /\ Tr!StateIndexesOf(contents) = 0..Len(contents) - 1
  <2>1. /\ contents \in Seq(ProgramStates)
        /\ Tr!StateIndexesOf(contents) = 0..Len(contents) - 1
    BY TraversedModelTyped, TraversalAssumption, Tr!OnlyStatesAreStored, Zenon DEF CallsInv
  <2> QED BY <2>1
<1>2. /\ Len(contents) <= conf.states
      /\ \A a, b \in 1..Len(contents) : contents[a] = contents[b] => a = b
      /\ status \in {"created", "traversing", "finished", "stopped", "thrown"}
      /\ \A g, h \in expanded : g.source = h.source => g = h
      /\ status = "created" => expanded = {}
  BY TraversedModelTyped
     DEF CallsInv, Tr!TraverserInv, Tr!Distinct, Tr!Running, Tr!HandledOk
<1>3. \A h \in expanded : IsGiven(h)
  BY GivenByTraversal
<1>4. ASSUME status = "finished" PROVE {h.source : h \in expanded} = StoredSources
  <2>1. /\ Tr!Expanded = 0..Len(contents) - 1
        /\ \E h \in expanded : h.source = NoSource
    BY <1>1, <1>4, TraversalAssumption, Tr!FinishedHasExpandedAll, SameOperations
  <2>2. Tr!Expanded = {h.source : h \in expanded} \ {NoSource}
    BY SameOperations DEF Tr!Expanded
  <2> QED BY <2>1, <2>2 DEF StoredSources
<1>5. \A n \in 1..Len(contents) : contents[n] \in ReachableStates
  <2> SUFFICES ASSUME NEW n \in 1..Len(contents) PROVE contents[n] \in ReachableStates
    OBVIOUS
  <2>1. n - 1 \in Tr!StateIndexesOf(contents) /\ (n - 1) + 1 = n
    BY <1>1
  <2>2. contents[(n - 1) + 1] \in Tr!Reachable
    BY <2>1, TraversalAssumption, Tr!StoredIsReachable
  <2> QED BY <2>1, <2>2, TraversedIsReachable
<1>6. ASSUME call = "check", status \in {"finished", "stopped"}
      PROVE  reached <=> PsiReachable
  <2>1. Tr!ReachabilityIsCorrect
    BY TraversalAssumption, Tr!InvMeansCorrect
  <2>2. reached \in BOOLEAN
    BY DEF Tr!TraverserInv
  <2>3. reached <=> Tr!LabelReachable
    <3>1. CASE status = "finished"
      BY <2>1, <2>2, <3>1 DEF Tr!ReachabilityIsCorrect, Tr!LabelReachable
    <3>2. CASE status = "stopped"
      BY <2>1, <2>2, <3>2 DEF Tr!ReachabilityIsCorrect, TokenInv
    <3> QED BY <1>6, <3>1, <3>2
  <2> QED BY <1>6, <2>3, LabelsFound
<1> QED BY <1>1, <1>2, <1>3, <1>4, <1>5, <1>6 DEF Traversed, StorageFacts

\* A step of the facade is one of which the lemmas above speak.
LEMMA StepsAreFacadeSteps ==
  /\ [PemcNext]_pemc
  /\ CallsInv /\ CallsInv' /\ Tr!TraverserInv /\ Traversed /\ Traversed'
  => FacadeStep
PROOF
<1> SUFFICES ASSUME [PemcNext]_pemc, CallsInv, CallsInv', Tr!TraverserInv,
                    Traversed, Traversed'
             PROVE  FacadeStep
  OBVIOUS
<1>1. ASSUME Traverse PROVE Extends /\ status \in {"created", "traversing"}
  <2>1. Tr!Worker
    BY <1>1, SameSteps DEF Traverse
  <2>2. TraversedModel' = TraversedModel
    BY <1>1, ModelStays DEF Traverse
  <2>3. [Tr!Next]_(Tr!vars)
    BY <2>1 DEF Tr!Next
  <2>4. Tr!Grows
    BY <2>3, TraversalAssumption, Tr!NextGrows
  <2>5. Extends
    BY <2>4 DEF Tr!Grows, Extends
  <2>6. status \in {"created", "traversing"}
    BY <2>1 DEF Tr!Worker, Tr!Start, Tr!Finish, Tr!Stop, Tr!Expand
  <2> QED BY <2>5, <2>6
<1> QED BY <1>1 DEF FacadeStep

-----------------------------------------------------------------------------
(***************************************************************************)
(* The theorems of the facade.                                             *)
(***************************************************************************)
FacadeInv ==
  CallsInv /\ Traversed /\ ChainInv /\ ArrayInv /\ CheckInv /\ VerdictInv

\* From the calls and the traversal to the chain, its array, the calculations
\* on it and the verdict: each keeps to its part of the invariant.
THEOREM FacadeInductive == PemcSpec => []FacadeInv
PROOF
<1>1. PemcInit => CallsInv /\ TokenInv
  BY InitCalls, InitToken
<1>2. CallsInv /\ TokenInv /\ [PemcNext]_pemc => TokenInv'
  BY NextKeepsToken
<1>3. PemcSpec => [](CallsInv /\ Tr!TraverserInv /\ TokenInv)
  BY <1>1, <1>2, TraversalInductive, PTL DEF PemcSpec
<1>4. PemcSpec => [](CallsInv /\ Tr!TraverserInv /\ Traversed)
  BY <1>3, TraversalPromises, PTL
<1>5. PemcInit => ChainInv /\ ArrayInv /\ CheckInv /\ VerdictInv
  BY InitChain, InitArray, InitCheck, InitVerdict
<1>6. FacadeStep /\ ChainInv => ChainInv'
  BY NextKeepsChain
<1>7. FacadeStep /\ ChainInv /\ ChainInv' /\ ArrayInv => ArrayInv'
  BY NextKeepsArray
<1>8. FacadeStep /\ ChainInv /\ ArrayInv /\ ArrayInv' /\ CheckInv => CheckInv'
  BY NextKeepsCheck
<1>9. FacadeStep /\ VerdictInv => VerdictInv'
  BY NextKeepsVerdict
<1>10. PemcSpec => [](ChainInv /\ ArrayInv /\ CheckInv /\ VerdictInv)
  BY <1>4, StepsAreFacadeSteps, <1>5, <1>6, <1>7, <1>8, <1>9, PTL DEF PemcSpec
<1> QED BY <1>4, <1>10, PTL DEF FacadeInv

\* No call of a client leaves the storage, the statuses or an answer outside of
\* its domain, whatever its program, its formulas and its capacities.
THEOREM PemcTypeCorrect == PemcSpec => []PemcTypeOK
PROOF
<1>1. FacadeInv => PemcTypeOK
  BY TypesAre DEF FacadeInv
<1> QED BY <1>1, FacadeInductive, PTL

AllAskPlainly == \A p \in Programs : AsksPlainly(p)

\* A chain that buildLmcFromExecutableModel returns is the program: nothing is
\* missing from it, nothing is in it twice and nothing else is.
THEOREM ChainIsProgramHolds == AllAskPlainly => (PemcSpec => []ChainIsProgram)
PROOF
<1> SUFFICES ASSUME AllAskPlainly PROVE PemcSpec => []ChainIsProgram
  OBVIOUS
<1>1. FacadeInv => ChainIsProgram
  <2> SUFFICES ASSUME FacadeInv PROVE ChainIsProgram
    OBVIOUS
  <2>1. AsksPlainly(program)
    BY DEF AllAskPlainly, FacadeInv, CallsInv, ClientInv
  <2> QED BY <2>1, ChainIsTheProgram DEF FacadeInv
<1> QED BY <1>1, FacadeInductive, PTL

\* What the calculation returns for a bound is the probability that the program
\* satisfies psi within bound + 1 of its steps.
THEOREM AnswersAreProbabilitiesHolds ==
  AllAskPlainly => (PemcSpec => []AnswersAreProbabilities)
PROOF
<1> SUFFICES ASSUME AllAskPlainly PROVE PemcSpec => []AnswersAreProbabilities
  OBVIOUS
<1>1. FacadeInv => AnswersAreProbabilities
  <2> SUFFICES ASSUME FacadeInv PROVE AnswersAreProbabilities
    OBVIOUS
  <2>1. AsksPlainly(program)
    BY DEF AllAskPlainly, FacadeInv, CallsInv, ClientInv
  <2> QED BY <2>1, AnswersAreTheirs DEF FacadeInv
<1> QED BY <1>1, FacadeInductive, PTL

\* What checkReachabilityInExecutableModel answers and the probabilities that
\* the built chain has agree.
THEOREM VerdictsAgreeHolds == AllAskPlainly => (PemcSpec => []VerdictsAgree)
PROOF
<1> SUFFICES ASSUME AllAskPlainly PROVE PemcSpec => []VerdictsAgree
  OBVIOUS
<1>1. FacadeInv => VerdictsAgree
  <2> SUFFICES ASSUME FacadeInv PROVE VerdictsAgree
    OBVIOUS
  <2>1. AsksPlainly(program)
    BY DEF AllAskPlainly, FacadeInv, CallsInv, ClientInv
  <2> QED BY <2>1, VerdictsDoAgree DEF FacadeInv
<1> QED BY <1>1, FacadeInductive, PTL
=============================================================================
