------------------------ MODULE ModelExecutorProofs ------------------------
(***************************************************************************)
(* The choice resolver makes the executor run a step once for every        *)
(* combination of its choices, in lexicographic order, for any steps, and  *)
(* the probabilities it hands out are the products along these paths.      *)
(***************************************************************************)
EXTENDS ModelExecutor, SumsProofs

Entries == [probability : 0..One, currentOption : Nat, noOfOptions : Nat]

\* The options taken by the entries of a stack.
PickedPath(stack) == [k \in 1..Len(stack) |-> stack[k].currentOption]

\* Choices that the step asks for one after the other: after the first n - 1 of
\* them it asks for the n-th one, which is among its options.
Legal(s, p) ==
  \A n \in 1..Len(p) : /\ ~Ends(s, SubSeq(p, 1, n - 1))
                       /\ p[n] < Len(s[SubSeq(p, 1, n - 1)])

\* An entry remembers how many options the step offered.
Fits(s, stack) ==
  /\ Legal(s, PickedPath(stack))
  /\ \A n \in 1..Len(stack) :
       stack[n].noOfOptions = Len(s[SubSeq(PickedPath(stack), 1, n - 1)])

TypeInv ==
  /\ withProbabilities \in BOOLEAN
  /\ phase \in {"idle", "prepare", "step", "calculated", "thrown"}
  /\ step \in Steps
  /\ choiceStack \in Seq(Entries)
  /\ choiceDepth \in -1..Len(choiceStack) - 1
  /\ firstExecutionOfMacroStep \in BOOLEAN
  /\ probabilities \in Seq(0..One)
  /\ path \in Seq(Nat) /\ Len(path) <= MaxDepth
  /\ transitions \in Seq(Seq(Nat))
  /\ savedStates \in Nat /\ Len(transitions) <= SuccessorCapacity
  /\ phase # "thrown" => savedStates = Len(transitions)
  /\ phase = "thrown" => savedStates = SuccessorCapacity + 1

\* Where a run of the step is on the stack.
DepthInv ==
  /\ firstExecutionOfMacroStep => phase = "prepare" /\ transitions = <<>>
  /\ phase \in {"idle", "calculated"} \/ firstExecutionOfMacroStep =>
       choiceStack = <<>> /\ choiceDepth = -1
  /\ phase = "step" => path = SubSeq(PickedPath(choiceStack), 1, choiceDepth + 1)
  /\ phase = "prepare" =>
       /\ choiceDepth = Len(choiceStack) - 1
       /\ ~firstExecutionOfMacroStep => Ends(step, PickedPath(choiceStack))

\* The transitions are those of the paths before the current one.
OrderInv ==
  /\ \A k \in 1..Len(transitions) : transitions[k] \in Leaves(step)
  /\ \A m, n \in 1..Len(transitions) :
       m < n => LexicallyBefore(transitions[m], transitions[n])
  /\ phase = "step" => \A p \in Leaves(step) :
       p \in Range(transitions) <=> LexicallyBefore(p, PickedPath(choiceStack))
  /\ phase = "prepare" /\ ~firstExecutionOfMacroStep => \A p \in Leaves(step) :
       p \in Range(transitions) <=>
         LexicallyBefore(p, PickedPath(choiceStack)) \/ p = PickedPath(choiceStack)
  /\ phase = "calculated" => Range(transitions) = Leaves(step)

IInv == TypeInv /\ Fits(step, choiceStack) /\ DepthInv /\ OrderInv

\* Two sequences are the same up to their n-th elements.
SameBefore(p, q, n) ==
  n <= Len(p) /\ n <= Len(q) /\ \A i \in 1..n - 1 : p[i] = q[i]

-----------------------------------------------------------------------------
(***************************************************************************)
(* Numbers and sequences.                                                  *)
(***************************************************************************)
\* A set of numbers up to n that is not empty has a largest one.
LEMMA MaxIsLargest ==
  ASSUME NEW n \in Nat, NEW S \in SUBSET (1..n), S # {}
  PROVE  Max(S) \in S /\ \A y \in S : Max(S) >= y
PROOF
<1> DEFINE T == {n - x : x \in S}
<1>1. T \subseteq Nat /\ T # {}
  <2>1. \A x \in S : n - x \in Nat
    OBVIOUS
  <2>2. PICK x \in S : TRUE
    OBVIOUS
  <2>3. n - x \in T
    OBVIOUS
  <2> QED BY <2>1, <2>3
<1>2. PICK m \in T : \A y \in T : m <= y
  <2> HIDE DEF T
  <2> QED BY <1>1, LeastExists
<1>3. PICK x \in S : m = n - x
  OBVIOUS
<1>4. \A y \in S : x >= y
  <2> SUFFICES ASSUME NEW y \in S PROVE x >= y
    OBVIOUS
  <2>1. n - y \in T
    OBVIOUS
  <2> HIDE DEF T
  <2>2. m <= n - y
    BY <1>2, <2>1
  <2> QED BY <1>3, <2>2
<1> QED BY <1>4 DEF Max

\* The first n elements of a sequence.
LEMMA Prefix ==
  ASSUME NEW S, NEW p \in Seq(S), NEW n \in 0..Len(p)
  PROVE  /\ SubSeq(p, 1, n) \in Seq(S)
         /\ Len(SubSeq(p, 1, n)) = n
         /\ \A i \in 1..n : SubSeq(p, 1, n)[i] = p[i]
PROOF
<1>1. \A i \in 1..n : p[i] \in S
  BY ElementOfSeq
<1> QED BY <1>1, SubSeqProperties

LEMMA SamePrefix ==
  ASSUME NEW p \in Seq(Nat), NEW q \in Seq(Nat), NEW n \in Nat, n <= Len(p), n <= Len(q)
  PROVE  SubSeq(p, 1, n) = SubSeq(q, 1, n) <=> \A i \in 1..n : p[i] = q[i]
PROOF
<1>1. /\ SubSeq(p, 1, n) \in Seq(Nat) /\ Len(SubSeq(p, 1, n)) = n
      /\ \A i \in 1..n : SubSeq(p, 1, n)[i] = p[i]
  BY Prefix
<1>2. /\ SubSeq(q, 1, n) \in Seq(Nat) /\ Len(SubSeq(q, 1, n)) = n
      /\ \A i \in 1..n : SubSeq(q, 1, n)[i] = q[i]
  BY Prefix
<1>3. CASE \A i \in 1..n : p[i] = q[i]
  BY <1>1, <1>2, <1>3, SeqEqual
<1>4. CASE SubSeq(p, 1, n) = SubSeq(q, 1, n)
  BY <1>1, <1>2, <1>4
<1> QED BY <1>3, <1>4

LEMMA SameBeforePrefix ==
  ASSUME NEW p \in Seq(Nat), NEW q \in Seq(Nat), NEW n \in Nat \ {0},
         n <= Len(p), n <= Len(q)
  PROVE  SameBefore(p, q, n) <=> SubSeq(p, 1, n - 1) = SubSeq(q, 1, n - 1)
PROOF
<1>1. n - 1 \in Nat /\ n - 1 <= Len(p) /\ n - 1 <= Len(q)
  BY LenProperties
<1> QED BY <1>1, SamePrefix DEF SameBefore

\* The lexicographic order by elements.
LEMMA BeforeByElements ==
  ASSUME NEW p \in Seq(Nat), NEW q \in Seq(Nat)
  PROVE  LexicallyBefore(p, q) <=>
           \E n \in Nat \ {0} : SameBefore(p, q, n) /\ p[n] < q[n]
PROOF
<1>1. ASSUME NEW n \in Nat \ {0}
      PROVE  SameBefore(p, q, n) <=>
               n \in 1..Len(p) \cap 1..Len(q) /\ SubSeq(p, 1, n - 1) = SubSeq(q, 1, n - 1)
  <2>1. n \in 1..Len(p) \cap 1..Len(q) <=> n <= Len(p) /\ n <= Len(q)
    BY LenProperties
  <2> QED BY <2>1, SameBeforePrefix DEF SameBefore
<1>2. \A n \in 1..Len(p) \cap 1..Len(q) : n \in Nat \ {0}
  BY LenProperties
<1> QED BY <1>1, <1>2 DEF LexicallyBefore

\* Two sequences of which neither continues the other differ somewhere first.
LEMMA FirstDifference ==
  ASSUME NEW p \in Seq(Nat), NEW q \in Seq(Nat), p # q,
         ~(Len(p) < Len(q) /\ SubSeq(q, 1, Len(p)) = p),
         ~(Len(q) < Len(p) /\ SubSeq(p, 1, Len(q)) = q)
  PROVE  \E n \in Nat \ {0} : /\ SameBefore(p, q, n)
                              /\ p[n] # q[n]
PROOF
<1> DEFINE D == {n \in Nat \ {0} : n <= Len(p) /\ n <= Len(q) /\ p[n] # q[n]}
<1>1. D # {}
  <2> SUFFICES ASSUME D = {} PROVE FALSE
    OBVIOUS
  <2>1. \A i \in 1..Len(p) : i <= Len(q) => p[i] = q[i]
    <3> SUFFICES ASSUME NEW i \in 1..Len(p), i <= Len(q), p[i] # q[i] PROVE FALSE
      OBVIOUS
    <3>1. i \in D
      OBVIOUS
    <3> QED BY <3>1
  <2>2. CASE Len(p) = Len(q)
    BY <2>1, <2>2, SeqEqual
  <2>3. CASE Len(p) < Len(q)
    <3>1. SubSeq(p, 1, Len(p)) = SubSeq(q, 1, Len(p))
      BY <2>1, <2>3, SamePrefix
    <3> QED BY <2>3, <3>1, SubSeqFull
  <2>4. CASE Len(q) < Len(p)
    <3>1. SubSeq(p, 1, Len(q)) = SubSeq(q, 1, Len(q))
      BY <2>1, <2>4, SamePrefix
    <3> QED BY <2>4, <3>1, SubSeqFull
  <2> QED BY <2>2, <2>3, <2>4
<1>2. PICK n \in D : \A m \in D : n <= m
  <2>1. D \subseteq Nat
    OBVIOUS
  <2> HIDE DEF D
  <2> QED BY <1>1, <2>1, LeastExists
<1>3. \A i \in 1..n - 1 : i \notin D
  <2> HIDE DEF D
  <2>1. n \in Nat
    BY DEF D
  <2> QED BY <1>2, <2>1
<1>4. /\ n \in Nat \ {0} /\ n <= Len(p) /\ n <= Len(q) /\ p[n] # q[n]
  OBVIOUS
<1>5. \A i \in 1..n - 1 : p[i] = q[i]
  <2> SUFFICES ASSUME NEW i \in 1..n - 1, p[i] # q[i] PROVE FALSE
    OBVIOUS
  <2>1. i \in Nat \ {0} /\ i <= Len(p) /\ i <= Len(q)
    BY <1>4
  <2>2. i \in D
    BY <2>1
  <2> QED BY <1>3, <2>2
<1> QED BY <1>4, <1>5 DEF SameBefore

-----------------------------------------------------------------------------
(***************************************************************************)
(* The units.                                                              *)
(***************************************************************************)
Power(n) == Weight ^ n

LEMMA PowerIs ==
  /\ One = Power(MaxDepth)
  /\ \A n \in 0..MaxDepth : Power(n) \in Nat \ {0}
  /\ \A n \in 0..MaxDepth - 1 : Power(n + 1) = Weight * Power(n)
PROOF
<1>1. Power(0) = 1 /\ \A n \in 0..MaxDepth - 1 : Power(n + 1) = Weight * Power(n)
  BY PowerAssumption DEF Power
<1>2. ASSUME NEW m \in 0..MaxDepth, Power(m) \notin Nat \ {0} PROVE FALSE
  <2> DEFINE bad == {n \in 0..MaxDepth : Power(n) \notin Nat \ {0}}
  <2>1. PICK n \in bad : \A k \in bad : n <= k
    <3>1. bad \in SUBSET Nat /\ bad # {}
      BY <1>2
    <3> HIDE DEF bad
    <3> QED BY <3>1, LeastExists
  <2>2. n \in 0..MaxDepth /\ Power(n) \notin Nat \ {0} /\ MaxDepth \in Nat
    BY ResolverAssumption
  <2>3. n # 0
    BY <1>1, <2>2
  <2>4. n - 1 \in 0..MaxDepth - 1 /\ n - 1 \in 0..MaxDepth /\ (n - 1) + 1 = n
    BY <2>2, <2>3
  <2>5. Power(n - 1) \in Nat \ {0}
    <3>1. n - 1 \notin bad
      <4> HIDE DEF bad
      <4> QED BY <2>1, <2>2, <2>4
    <3> QED BY <2>4, <3>1
  <2>6. Power(n) = Weight * Power(n - 1)
    BY <1>1, <2>4
  <2> QED BY <2>2, <2>5, <2>6, ResolverAssumption
<1>3. One = Power(MaxDepth)
  BY DEF One, Power
<1> QED BY <1>1, <1>2, <1>3

LEMMA OneIsPositive == One \in Nat \ {0}
PROOF
BY PowerIs, ResolverAssumption

-----------------------------------------------------------------------------
(***************************************************************************)
(* Choices, steps and their complete paths.                                *)
(***************************************************************************)
LEMMA ChoicesTyped ==
  ASSUME NEW stack \in Seq(Entries)
  PROVE  /\ PickedPath(stack) \in Seq(Nat)
         /\ Len(PickedPath(stack)) = Len(stack)
         /\ \A k \in 1..Len(stack) :
              /\ stack[k] \in Entries
              /\ PickedPath(stack)[k] = stack[k].currentOption
PROOF
<1>1. \A k \in 1..Len(stack) : stack[k] \in Entries /\ stack[k].currentOption \in Nat
  <2> TAKE k \in 1..Len(stack)
  <2>1. stack[k] \in Entries
    BY ElementOfSeq
  <2> QED BY <2>1 DEF Entries
<1> QED BY <1>1 DEF PickedPath

\* Where a step does not end it offers at least one option.
LEMMA StepTyped ==
  ASSUME NEW s \in Steps, NEW p, ~Ends(s, p)
  PROVE  /\ p \in DOMAIN s /\ p \in Seq(Nat) /\ Len(p) < MaxDepth
         /\ s[p] \in Seq(0..Weight) /\ Len(s[p]) \in Nat \ {0}
PROOF
<1>1. p \in DOMAIN s /\ s[p] # <<>>
  BY DEF Ends
<1>2. p \in Seq(Nat) /\ s[p] \in Seq(0..Weight) /\ Len(p) < MaxDepth
  BY <1>1, ExecutorAssumption
<1>3. Len(s[p]) # 0
  BY <1>1, <1>2, EmptySeq
<1> QED BY <1>1, <1>2, <1>3

\* A complete path is a sequence of legal choices after which the step ends.
LEMMA LeavesAreLegal ==
  ASSUME NEW s \in Steps, NEW p \in Leaves(s)
  PROVE  p \in Seq(Nat) /\ Legal(s, p) /\ Ends(s, p)
PROOF
<1>1. /\ p = <<>> \/ \E q \in DOMAIN s : \E k \in 0..Len(s[q]) - 1 : p = Append(q, k)
      /\ \A n \in 1..Len(p) : ~Ends(s, SubSeq(p, 1, n - 1))
                              /\ p[n] < Len(s[SubSeq(p, 1, n - 1)])
      /\ Ends(s, p)
  BY DEF Leaves
<1>2. p \in Seq(Nat)
  <2>1. CASE p = <<>>
    BY <2>1
  <2>2. ASSUME NEW q \in DOMAIN s, NEW k \in 0..Len(s[q]) - 1, p = Append(q, k)
        PROVE  p \in Seq(Nat)
    <3>1. q \in Seq(Nat) /\ s[q] \in Seq(0..Weight)
      BY ExecutorAssumption
    <3>2. k \in Nat
      BY <3>1
    <3> QED BY <2>2, <3>1, <3>2, AppendProperties
  <2> QED BY <1>1, <2>1, <2>2
<1> QED BY <1>1, <1>2 DEF Legal

LEMMA LegalAreLeaves ==
  ASSUME NEW s \in Steps, NEW p \in Seq(Nat), Legal(s, p), Ends(s, p)
  PROVE  p \in Leaves(s)
PROOF
<1>1. p = <<>> \/ \E q \in DOMAIN s : \E k \in 0..Len(s[q]) - 1 : p = Append(q, k)
  <2> SUFFICES ASSUME p # <<>>
               PROVE  \E q \in DOMAIN s : \E k \in 0..Len(s[q]) - 1 : p = Append(q, k)
    OBVIOUS
  <2>1. Len(p) \in Nat \ {0}
    BY EmptySeq
  <2> DEFINE q == SubSeq(p, 1, Len(p) - 1)
  <2>2. ~Ends(s, q) /\ p[Len(p)] < Len(s[q])
    BY <2>1 DEF Legal
  <2>3. q \in DOMAIN s /\ Len(s[q]) \in Nat
    BY <2>2, StepTyped
  <2>4. p[Len(p)] \in 0..Len(s[q]) - 1
    <3>1. p[Len(p)] \in Nat
      BY <2>1, ElementOfSeq
    <3> QED BY <2>2, <2>3, <3>1
  <2>5. p = Append(q, p[Len(p)])
    <3>1. /\ q \in Seq(Nat) /\ Len(q) = Len(p) - 1
          /\ \A i \in 1..Len(p) - 1 : q[i] = p[i]
      <4>1. Len(p) - 1 \in 0..Len(p)
        BY <2>1
      <4> QED BY <4>1, Prefix
    <3>2. p[Len(p)] \in Nat
      BY <2>1, ElementOfSeq
    <3> HIDE DEF q
    <3>3. /\ Append(q, p[Len(p)]) \in Seq(Nat)
          /\ Len(Append(q, p[Len(p)])) = Len(p)
          /\ \A i \in 1..Len(p) : Append(q, p[Len(p)])[i] = p[i]
      BY <2>1, <3>1, <3>2, AppendProperties
    <3> QED BY <3>3, SeqEqual
  <2> QED BY <2>3, <2>4, <2>5
<1> QED BY <1>1 DEF Leaves, Legal

\* No legal choices go on after a complete path.
LEMMA NothingAfterEnd ==
  ASSUME NEW s \in Steps, NEW p \in Seq(Nat), Ends(s, p),
         NEW q \in Seq(Nat), Legal(s, q)
  PROVE  ~(Len(p) < Len(q) /\ SubSeq(q, 1, Len(p)) = p)
PROOF
<1> SUFFICES ASSUME Len(p) < Len(q), SubSeq(q, 1, Len(p)) = p PROVE FALSE
  OBVIOUS
<1>1. Len(p) + 1 \in 1..Len(q) /\ (Len(p) + 1) - 1 = Len(p)
  OBVIOUS
<1>2. ~Ends(s, SubSeq(q, 1, (Len(p) + 1) - 1))
  BY <1>1 DEF Legal
<1> QED BY <1>1, <1>2

\* Two complete paths differ first at a choice.
LEMMA PathsBranch ==
  ASSUME NEW s \in Steps,
         NEW p \in Seq(Nat), Legal(s, p), Ends(s, p),
         NEW q \in Seq(Nat), Legal(s, q), Ends(s, q), p # q
  PROVE  \E n \in Nat \ {0} : SameBefore(p, q, n) /\ p[n] # q[n]
PROOF
BY NothingAfterEnd, FirstDifference

-----------------------------------------------------------------------------
(***************************************************************************)
(* Turning the last choice that has an option left.                        *)
(***************************************************************************)
LEMMA TurnedEntry ==
  ASSUME NEW e \in Entries
  PROVE  /\ [e EXCEPT !.currentOption = @ + 1] \in Entries
         /\ [e EXCEPT !.currentOption = @ + 1].noOfOptions = e.noOfOptions
         /\ [e EXCEPT !.currentOption = @ + 1].currentOption = e.currentOption + 1
PROOF
BY DEF Entries

LEMMA WeighedEntry ==
  ASSUME NEW e \in Entries, NEW q \in 0..One
  PROVE  /\ [e EXCEPT !.probability = q] \in Entries
         /\ [e EXCEPT !.probability = q].noOfOptions = e.noOfOptions
         /\ [e EXCEPT !.probability = q].currentOption = e.currentOption
PROOF
BY DEF Entries

LEMMA TurnedIs ==
  ASSUME choiceStack \in Seq(Entries)
  PROVE  \/ /\ Turned = <<>>
            /\ \A l \in 1..Len(choiceStack) : ~HasNextOption(choiceStack[l])
         \/ \E k \in 1..Len(choiceStack) :
              /\ HasNextOption(choiceStack[k])
              /\ \A l \in k + 1..Len(choiceStack) : ~HasNextOption(choiceStack[l])
              /\ Turned \in Seq(Entries) /\ Len(Turned) = k
              /\ \A i \in 1..k : Turned[i].noOfOptions = choiceStack[i].noOfOptions
              /\ \A i \in 1..k - 1 : PickedPath(Turned)[i] = PickedPath(choiceStack)[i]
              /\ PickedPath(Turned)[k] = PickedPath(choiceStack)[k] + 1
PROOF
<1> DEFINE open == {l \in 1..Len(choiceStack) : HasNextOption(choiceStack[l])}
<1>1. CASE open = {}
  BY <1>1 DEF Turned
<1>2. CASE open # {}
  <2>1. PICK k \in 1..Len(choiceStack) :
          /\ k = Max(open) /\ HasNextOption(choiceStack[k])
          /\ \A l \in open : k >= l
    <3>1. open \in SUBSET (1..Len(choiceStack)) /\ Len(choiceStack) \in Nat
      BY LenProperties
    <3>2. Max(open) \in open /\ \A l \in open : Max(open) >= l
      <4> HIDE DEF open
      <4> QED BY <1>2, <3>1, MaxIsLargest
    <3> QED BY <3>2
  <2>2. \A l \in k + 1..Len(choiceStack) : ~HasNextOption(choiceStack[l])
    <3> SUFFICES ASSUME NEW l \in k + 1..Len(choiceStack), HasNextOption(choiceStack[l])
                 PROVE  FALSE
      OBVIOUS
    <3>1. l \in 1..Len(choiceStack) /\ ~(k >= l)
      BY LenProperties
    <3> QED BY <2>1, <3>1
  <2> DEFINE low == SubSeq(choiceStack, 1, k)
             entry == [choiceStack[k] EXCEPT !.currentOption = @ + 1]
  <2>3. /\ low \in Seq(Entries) /\ Len(low) = k
        /\ \A i \in 1..k : low[i] = choiceStack[i] /\ choiceStack[i] \in Entries
    BY Prefix, ElementOfSeq
  <2>4. /\ entry \in Entries /\ entry.noOfOptions = choiceStack[k].noOfOptions
        /\ entry.currentOption = choiceStack[k].currentOption + 1
    <3>1. choiceStack[k] \in Entries
      BY <2>3
    <3> QED BY <3>1, TurnedEntry
  <2>5. Turned = [low EXCEPT ![k] = entry]
    <3>1. Turned = [low EXCEPT ![k].currentOption = @ + 1]
      BY <1>2, <2>1 DEF Turned
    <3>2. low[k] = choiceStack[k]
      BY <2>3
    <3> HIDE DEF low
    <3> QED BY <3>1, <3>2
  <2> HIDE DEF low, entry
  <2>6. /\ Turned \in Seq(Entries) /\ Len(Turned) = k
        /\ Turned[k] = entry /\ \A i \in 1..k - 1 : Turned[i] = choiceStack[i]
    BY <2>3, <2>4, <2>5, ExceptSeq
  <2>7. \A i \in 1..k : Turned[i].noOfOptions = choiceStack[i].noOfOptions
    BY <2>4, <2>6
  <2>8. /\ \A i \in 1..k : PickedPath(Turned)[i] = Turned[i].currentOption
        /\ \A i \in 1..k : PickedPath(choiceStack)[i] = choiceStack[i].currentOption
    <3>1. \A i \in 1..k : i \in 1..Len(choiceStack)
      BY LenProperties
    <3> QED BY <2>6, <3>1, ChoicesTyped
  <2>9. /\ \A i \in 1..k - 1 : PickedPath(Turned)[i] = PickedPath(choiceStack)[i]
        /\ PickedPath(Turned)[k] = PickedPath(choiceStack)[k] + 1
    BY <2>4, <2>6, <2>8
  <2> QED BY <2>1, <2>2, <2>6, <2>7, <2>9
<1> QED BY <1>1, <1>2

\* The choices that are turned are legal: an option that was left is taken.
LEMMA TurnedFits ==
  ASSUME NEW s \in Steps, choiceStack \in Seq(Entries), Fits(s, choiceStack)
  PROVE  Turned \in Seq(Entries) /\ Fits(s, Turned)
PROOF
<1>1. CASE Turned = <<>>
  BY <1>1 DEF Fits, Legal, PickedPath
<1>2. ASSUME NEW k \in 1..Len(choiceStack),
             HasNextOption(choiceStack[k]),
             Turned \in Seq(Entries), Len(Turned) = k,
             \A i \in 1..k : Turned[i].noOfOptions = choiceStack[i].noOfOptions,
             \A i \in 1..k - 1 : PickedPath(Turned)[i] = PickedPath(choiceStack)[i],
             PickedPath(Turned)[k] = PickedPath(choiceStack)[k] + 1
      PROVE  Fits(s, Turned)
  <2>1. /\ PickedPath(choiceStack) \in Seq(Nat) /\ Len(PickedPath(choiceStack)) = Len(choiceStack)
        /\ PickedPath(Turned) \in Seq(Nat) /\ Len(PickedPath(Turned)) = k
    BY <1>2, ChoicesTyped
  <2>2. ASSUME NEW n \in 1..k
        PROVE  /\ ~Ends(s, SubSeq(PickedPath(Turned), 1, n - 1))
               /\ PickedPath(Turned)[n] < Len(s[SubSeq(PickedPath(Turned), 1, n - 1)])
               /\ Turned[n].noOfOptions = Len(s[SubSeq(PickedPath(Turned), 1, n - 1)])
    <3> DEFINE q == SubSeq(PickedPath(choiceStack), 1, n - 1)
    <3>1. SubSeq(PickedPath(Turned), 1, n - 1) = q
      <4>1. /\ n - 1 \in Nat /\ n - 1 <= k /\ n - 1 <= Len(choiceStack)
            /\ \A i \in 1..n - 1 : i \in 1..k - 1
        OBVIOUS
      <4> QED BY <1>2, <2>1, <4>1, SamePrefix
    <3>2. /\ ~Ends(s, q) /\ PickedPath(choiceStack)[n] < Len(s[q])
          /\ choiceStack[n].noOfOptions = Len(s[q])
      BY <2>1 DEF Fits, Legal
    <3>3. PickedPath(Turned)[n] < Len(s[q])
      <4>1. CASE n < k
        BY <1>2, <3>2, <4>1
      <4>2. CASE n = k
        <5>1. PickedPath(choiceStack)[k] = choiceStack[k].currentOption
          BY ChoicesTyped
        <5>2. choiceStack[k].currentOption \in Nat /\ Len(s[q]) \in Nat
          BY <3>2, StepTyped, ChoicesTyped DEF Entries
        <5> QED BY <1>2, <3>2, <4>2, <5>1, <5>2 DEF HasNextOption
      <4> QED BY <4>1, <4>2
    <3> QED BY <1>2, <3>1, <3>2, <3>3
  <2> QED BY <1>2, <2>1, <2>2 DEF Fits, Legal
<1> QED BY <1>1, <1>2, TurnedIs

\* Where a complete path leaves a stack above which no option is left, it
\* comes earlier.
LEMMA BranchesEarlier ==
  ASSUME NEW s \in Steps, NEW stack \in Seq(Entries), Fits(s, stack),
         NEW p \in Leaves(s), NEW n \in 1..Len(stack),
         SameBefore(p, PickedPath(stack), n), p[n] # PickedPath(stack)[n], ~HasNextOption(stack[n])
  PROVE  p[n] < PickedPath(stack)[n]
PROOF
<1>1. p \in Seq(Nat) /\ Legal(s, p) /\ n \in 1..Len(p)
  BY LeavesAreLegal DEF SameBefore
<1>2. p[n] \in Nat /\ p[n] < Len(s[SubSeq(p, 1, n - 1)])
  BY <1>1, ElementOfSeq DEF Legal
<1>3. /\ PickedPath(stack) \in Seq(Nat) /\ Len(PickedPath(stack)) = Len(stack)
      /\ PickedPath(stack)[n] = stack[n].currentOption /\ stack[n] \in Entries
  BY ChoicesTyped
<1>4. stack[n].noOfOptions = Len(s[SubSeq(p, 1, n - 1)])
  <2>1. SubSeq(p, 1, n - 1) = SubSeq(PickedPath(stack), 1, n - 1)
    BY <1>1, <1>3, SameBeforePrefix DEF SameBefore
  <2> QED BY <2>1 DEF Fits
<1>5. stack[n].currentOption \in Nat /\ stack[n].noOfOptions \in Nat
  BY <1>3 DEF Entries
<1> QED BY <1>2, <1>3, <1>4, <1>5 DEF HasNextOption

\* No option is left: every complete path was run.
LEMMA NothingLeft ==
  ASSUME NEW s \in Steps, NEW stack \in Seq(Entries), Fits(s, stack),
         Ends(s, PickedPath(stack)), \A l \in 1..Len(stack) : ~HasNextOption(stack[l]),
         NEW p \in Leaves(s)
  PROVE  LexicallyBefore(p, PickedPath(stack)) \/ p = PickedPath(stack)
PROOF
<1> SUFFICES ASSUME p # PickedPath(stack) PROVE LexicallyBefore(p, PickedPath(stack))
  OBVIOUS
<1>1. /\ p \in Seq(Nat) /\ Legal(s, p) /\ Ends(s, p)
      /\ PickedPath(stack) \in Seq(Nat) /\ Len(PickedPath(stack)) = Len(stack)
      /\ Legal(s, PickedPath(stack))
  BY LeavesAreLegal, ChoicesTyped DEF Fits
<1>2. PICK n \in Nat \ {0} : SameBefore(p, PickedPath(stack), n) /\ p[n] # PickedPath(stack)[n]
  BY <1>1, PathsBranch
<1>3. p[n] < PickedPath(stack)[n]
  <2>1. n \in 1..Len(stack)
    BY <1>1, <1>2 DEF SameBefore
  <2> QED BY <1>2, <2>1, BranchesEarlier
<1> QED BY <1>1, <1>2, <1>3, BeforeByElements

\* The complete paths before the turned choices are those before the old ones,
\* and the old ones themselves.
LEMMA NothingBetween ==
  ASSUME NEW s \in Steps, choiceStack \in Seq(Entries), Fits(s, choiceStack),
         Ends(s, PickedPath(choiceStack)), Turned # <<>>, NEW p \in Leaves(s)
  PROVE  LexicallyBefore(p, PickedPath(Turned)) <=>
           LexicallyBefore(p, PickedPath(choiceStack)) \/ p = PickedPath(choiceStack)
PROOF
<1>0. PICK c : c = PickedPath(choiceStack)
  OBVIOUS
<1>1. PICK k \in 1..Len(choiceStack) :
        /\ \A l \in k + 1..Len(choiceStack) : ~HasNextOption(choiceStack[l])
        /\ Turned \in Seq(Entries) /\ Len(Turned) = k
        /\ \A i \in 1..k - 1 : PickedPath(Turned)[i] = c[i]
        /\ PickedPath(Turned)[k] = c[k] + 1
  BY <1>0, TurnedIs
<1>2. PICK d \in Seq(Nat) : d = PickedPath(Turned) /\ Len(d) = k
  BY <1>1, ChoicesTyped
<1>3. /\ p \in Seq(Nat) /\ Legal(s, p) /\ Ends(s, p)
      /\ c \in Seq(Nat) /\ Len(c) = Len(choiceStack) /\ Legal(s, c) /\ Ends(s, c)
  BY <1>0, LeavesAreLegal, ChoicesTyped DEF Fits
<1>4. c[k] \in Nat /\ k \in Nat \ {0} /\ Len(choiceStack) \in Nat /\ Len(p) \in Nat
  BY <1>3, ElementOfSeq
<1>5. ASSUME p = c PROVE LexicallyBefore(p, d)
  <2>1. SameBefore(p, d, k) /\ p[k] < d[k]
    BY <1>1, <1>2, <1>3, <1>4, <1>5 DEF SameBefore
  <2> QED BY <1>2, <1>3, <1>4, <2>1, BeforeByElements
<1>6. ASSUME LexicallyBefore(p, c) PROVE LexicallyBefore(p, d)
  <2>1. PICK n \in Nat \ {0} : SameBefore(p, c, n) /\ p[n] < c[n]
    BY <1>3, <1>6, BeforeByElements
  <2>2. CASE n < k
    <3>1. SameBefore(p, d, n) /\ p[n] < d[n]
      BY <1>1, <1>2, <1>3, <1>4, <2>1, <2>2 DEF SameBefore
    <3> QED BY <1>2, <1>3, <3>1, BeforeByElements
  <2>3. CASE n >= k
    <3>1. SameBefore(p, d, k)
      <4>1. k <= Len(p) /\ k <= Len(d)
        BY <1>2, <1>4, <2>1, <2>3 DEF SameBefore
      <4>2. \A i \in 1..k - 1 : p[i] = c[i]
        BY <1>4, <2>1, <2>3 DEF SameBefore
      <4> QED BY <1>1, <1>2, <4>1, <4>2 DEF SameBefore
    <3>2. p[k] < d[k]
      <4>1. p[k] \in Nat
        BY <1>3, <1>4, <3>1, ElementOfSeq DEF SameBefore
      <4>2. CASE n = k
        BY <1>1, <1>2, <1>4, <2>1, <4>1, <4>2
      <4>3. CASE n > k
        <5>1. p[k] = c[k]
          BY <1>4, <2>1, <4>3 DEF SameBefore
        <5> QED BY <1>1, <1>2, <1>4, <5>1
      <4> QED BY <1>4, <2>3, <4>2, <4>3
    <3> QED BY <1>2, <1>3, <1>4, <3>1, <3>2, BeforeByElements
  <2> QED BY <1>4, <2>2, <2>3
<1>7. ASSUME LexicallyBefore(p, d), p # c PROVE LexicallyBefore(p, c)
  <2>1. PICK n \in Nat \ {0} : SameBefore(p, d, n) /\ p[n] < d[n]
    BY <1>2, <1>3, <1>7, BeforeByElements
  <2>2. n <= k /\ SameBefore(p, c, n)
    BY <1>1, <1>2, <1>3, <1>4, <2>1 DEF SameBefore
  <2>3. CASE p[n] < c[n]
    BY <1>3, <2>2, <2>3, BeforeByElements
  <2>4. CASE ~(p[n] < c[n])
    <3>1. p[n] \in Nat /\ c[n] \in Nat
      BY <1>3, <2>2, ElementOfSeq DEF SameBefore
    <3>2. n = k
      <4> SUFFICES ASSUME n < k PROVE FALSE
        BY <1>4, <2>2
      <4>1. d[n] = c[n]
        BY <1>1, <1>2, <1>4
      <4> QED BY <2>1, <2>4, <4>1
    <3>3. p[k] = c[k]
      BY <1>1, <1>2, <1>4, <2>1, <2>4, <3>1, <3>2
    <3>4. PICK m \in Nat \ {0} : SameBefore(p, c, m) /\ p[m] # c[m]
      BY <1>3, <1>7, PathsBranch
    <3>5. m \in k + 1..Len(choiceStack)
      <4>1. m <= Len(choiceStack)
        BY <1>3, <3>4 DEF SameBefore
      <4>2. ~(m < k)
        BY <1>4, <2>2, <3>2, <3>4 DEF SameBefore
      <4>3. m # k
        BY <3>3, <3>4
      <4> QED BY <1>4, <4>1, <4>2, <4>3
    <3>6. p[m] < c[m]
      <4>1. ~HasNextOption(choiceStack[m]) /\ m \in 1..Len(choiceStack)
        BY <1>1, <1>4, <3>5
      <4> QED BY <1>0, <3>4, <4>1, BranchesEarlier
    <3> QED BY <1>3, <3>4, <3>6, BeforeByElements
  <2> QED BY <2>3, <2>4
<1> QED BY <1>0, <1>2, <1>5, <1>6, <1>7

-----------------------------------------------------------------------------
(***************************************************************************)
(* Probabilities, and what a run of the step does with the stack.          *)
(***************************************************************************)
LEMMA TimesTyped ==
  ASSUME NEW weight \in 0..Weight, NEW q \in 0..One
  PROVE  Times(weight, q) \in 0..One
PROOF
<1>1. /\ Weight \in Nat \ {0} /\ One \in Nat /\ weight \in Nat /\ q \in Nat
      /\ weight <= Weight /\ q <= One
  BY ResolverAssumption, OneIsPositive
<1> HIDE DEF One
<1>2. PICK r \in Int : r = weight * q
  BY <1>1
<1>3. 0 <= r /\ r <= Weight * q
  BY <1>1, <1>2
<1>4. r \div Weight \in 0..q
  <2>1. PICK d \in Int, m \in 0..Weight - 1 : d = r \div Weight /\ r = Weight * d + m
    BY <1>1, <1>2
  <2>2. d <= q
    <3> SUFFICES ASSUME d >= q + 1 PROVE FALSE
      BY <1>1, <2>1
    <3>1. Weight * d >= Weight * (q + 1)
      BY <1>1, <2>1
    <3>2. Weight * (q + 1) = Weight * q + Weight
      BY <1>1
    <3> QED BY <1>1, <1>3, <2>1, <3>1, <3>2
  <2>3. d >= 0
    <3> SUFFICES ASSUME d <= -1 PROVE FALSE
      BY <2>1
    <3>1. Weight * d <= -Weight
      BY <1>1, <2>1
    <3> QED BY <1>1, <1>3, <2>1, <3>1
  <2> QED BY <1>1, <2>1, <2>2, <2>3
<1> QED BY <1>1, <1>2, <1>4 DEF Times

LEMMA PreviousTyped ==
  ASSUME TypeInv
  PROVE  PreviousProbability \in 0..One
PROOF
<1>1. One \in 0..One
  <2> HIDE DEF One
  <2> QED BY OneIsPositive
<1>2. ASSUME choiceDepth >= 0, Len(choiceStack) >= choiceDepth + 1
      PROVE  choiceStack[choiceDepth + 1].probability \in 0..One
  <2>1. choiceDepth + 1 \in 1..Len(choiceStack)
    BY <1>2 DEF TypeInv
  <2>2. choiceStack[choiceDepth + 1] \in Entries
    BY <2>1, ElementOfSeq DEF TypeInv
  <2> QED BY <2>2 DEF Entries
<1> QED BY <1>1, <1>2 DEF PreviousProbability

\* A stack with other probabilities stands for the same choices.
LEMMA SameChoices ==
  ASSUME NEW s \in Steps, NEW stack \in Seq(Entries), Fits(s, stack),
         NEW other \in Seq(Entries), Len(other) = Len(stack),
         \A k \in 1..Len(stack) : /\ other[k].currentOption = stack[k].currentOption
                                  /\ other[k].noOfOptions = stack[k].noOfOptions
  PROVE  PickedPath(other) = PickedPath(stack) /\ Fits(s, other)
PROOF
<1>1. PickedPath(other) = PickedPath(stack)
  BY DEF PickedPath
<1> QED BY <1>1 DEF Fits

\* While the run replays, its path is a part of the stack's choices.
LEMMA RunOnStack ==
  ASSUME TypeInv, Fits(step, choiceStack), DepthInv, phase = "step"
  PROVE  /\ PickedPath(choiceStack) \in Seq(Nat)
         /\ Len(PickedPath(choiceStack)) = Len(choiceStack)
         /\ choiceDepth + 1 \in 0..Len(choiceStack)
         /\ ~firstExecutionOfMacroStep
         /\ choiceDepth + 1 < Len(choiceStack) =>
              /\ ~Ends(step, path)
              /\ ReplayedOption = PickedPath(choiceStack)[choiceDepth + 2]
              /\ ReplayedOption < Len(step[path])
         /\ choiceDepth + 1 >= Len(choiceStack) => path = PickedPath(choiceStack)
PROOF
<1>1. /\ PickedPath(choiceStack) \in Seq(Nat)
      /\ Len(PickedPath(choiceStack)) = Len(choiceStack)
      /\ \A k \in 1..Len(choiceStack) :
           PickedPath(choiceStack)[k] = choiceStack[k].currentOption
  BY ChoicesTyped DEF TypeInv
<1>2. choiceDepth + 1 \in 0..Len(choiceStack) /\ choiceDepth \in Int /\ Len(choiceStack) \in Nat
  BY DEF TypeInv
<1>3. ~firstExecutionOfMacroStep
  BY DEF DepthInv
<1>4. path = SubSeq(PickedPath(choiceStack), 1, choiceDepth + 1)
  BY DEF DepthInv
<1>5. ASSUME choiceDepth + 1 < Len(choiceStack)
      PROVE  /\ ~Ends(step, path)
             /\ ReplayedOption = PickedPath(choiceStack)[choiceDepth + 2]
             /\ ReplayedOption < Len(step[path])
  <2>1. /\ choiceDepth + 2 \in 1..Len(choiceStack)
        /\ (choiceDepth + 2) - 1 = choiceDepth + 1
    BY <1>2, <1>5
  <2>2. ReplayedOption = PickedPath(choiceStack)[choiceDepth + 2]
    BY <1>1, <2>1 DEF ReplayedOption
  <2>3. PICK n \in 1..Len(choiceStack) : n = choiceDepth + 2 /\ n - 1 = choiceDepth + 1
    BY <2>1
  <2>4. /\ ~Ends(step, SubSeq(PickedPath(choiceStack), 1, n - 1))
        /\ PickedPath(choiceStack)[n] < Len(step[SubSeq(PickedPath(choiceStack), 1, n - 1)])
    BY <1>1 DEF Fits, Legal
  <2> QED BY <1>4, <2>2, <2>3, <2>4
<1>6. ASSUME choiceDepth + 1 >= Len(choiceStack)
      PROVE  path = PickedPath(choiceStack)
  <2>1. choiceDepth + 1 = Len(PickedPath(choiceStack))
    BY <1>1, <1>2, <1>6
  <2> QED BY <1>1, <1>4, <2>1, SubSeqFull
<1> QED BY <1>1, <1>2, <1>3, <1>5, <1>6

-----------------------------------------------------------------------------
(***************************************************************************)
(* The actions.                                                            *)
(***************************************************************************)
LEMMA NoChoices ==
  ASSUME NEW s
  PROVE  /\ <<>> \in Seq(Entries) /\ PickedPath(<<>>) = <<>> /\ Fits(s, <<>>)
         /\ <<>> \in Seq(0..One) /\ <<>> \in Seq(Nat) /\ <<>> \in Seq(Seq(Nat))
         /\ Len(<<>>) = 0 /\ MaxDepth \in Nat /\ SuccessorCapacity \in Nat
         /\ \A p : ~LexicallyBefore(p, <<>>)
PROOF
<1>1. /\ <<>> \in Seq(0..One) /\ <<>> \in Seq(Nat) /\ <<>> \in Seq(Seq(Nat))
      /\ <<>> \in Seq(Entries) /\ Len(<<>>) = 0
  BY EmptySeq
<1>2. PickedPath(<<>>) = <<>> /\ Fits(s, <<>>)
  BY DEF PickedPath, Fits, Legal
<1>3. \A p : ~LexicallyBefore(p, <<>>)
  BY DEF LexicallyBefore
<1>4. MaxDepth \in Nat /\ SuccessorCapacity \in Nat
  BY ResolverAssumption, ExecutorAssumption
<1> QED BY <1>1, <1>2, <1>3, <1>4

LEMMA InitIInv == Init => IInv
PROOF
<1> SUFFICES ASSUME Init PROVE IInv
  OBVIOUS
<1> USE DEF Init, ResolverInit
<1>1. TypeInv
  <2>1. choiceDepth \in -1..Len(choiceStack) - 1
    BY NoChoices
  <2>2. Len(path) <= MaxDepth /\ Len(transitions) <= SuccessorCapacity
    BY NoChoices
  <2> QED BY <2>1, <2>2, NoChoices DEF TypeInv
<1>2. Fits(step, choiceStack)
  BY NoChoices
<1>3. DepthInv
  BY DEF DepthInv
<1>4. OrderInv
  BY DEF OrderInv
<1> QED BY <1>1, <1>2, <1>3, <1>4 DEF IInv

LEMMA CalculateKeeps ==
  ASSUME IInv, Calculate
  PROVE  IInv'
PROOF
<1>1. /\ phase' = "prepare" /\ choiceStack' = <<>> /\ choiceDepth' = -1
      /\ firstExecutionOfMacroStep' = TRUE /\ transitions' = <<>> /\ step' \in Steps
      /\ savedStates' = 0 /\ probabilities' = <<>> /\ path' = path
      /\ withProbabilities' = withProbabilities
  BY DEF Calculate, BeginMacroStepExecution, IInv, DepthInv
<1>2. TypeInv'
  BY <1>1, NoChoices DEF IInv, TypeInv
<1>3. Fits(step, choiceStack)'
  BY <1>1, NoChoices DEF Fits, Legal, PickedPath
<1>4. DepthInv'
  BY <1>1 DEF DepthInv
<1>5. OrderInv'
  BY <1>1 DEF OrderInv
<1> QED BY <1>2, <1>3, <1>4, <1>5 DEF IInv

LEMMA FirstPathKeeps ==
  ASSUME IInv, FirstPath
  PROVE  IInv'
PROOF
<1>1. /\ phase' = "step" /\ choiceStack = <<>> /\ choiceStack' = <<>> /\ choiceDepth' = -1
      /\ firstExecutionOfMacroStep' = FALSE /\ transitions = <<>> /\ transitions' = <<>>
      /\ step' = step /\ savedStates' = savedStates /\ probabilities' = probabilities
      /\ path' = <<>> /\ withProbabilities' = withProbabilities /\ phase = "prepare"
  BY DEF FirstPath, PrepareFirstPath, IInv, DepthInv
<1>2. TypeInv'
  <2>1. choiceDepth' \in -1..Len(choiceStack') - 1
    BY <1>1, NoChoices
  <2>2. Len(path') <= MaxDepth /\ path' \in Seq(Nat)
    BY <1>1, NoChoices
  <2> QED BY <1>1, <2>1, <2>2 DEF IInv, TypeInv
<1>3. Fits(step, choiceStack)'
  BY <1>1 DEF Fits, Legal, PickedPath, IInv
<1>4. DepthInv'
  <2>1. SubSeq(<<>>, 1, 0) = <<>>
    BY SubSeqEmpty
  <2>2. path' = SubSeq(PickedPath(choiceStack)', 1, choiceDepth' + 1)
    BY <1>1, <2>1, NoChoices DEF PickedPath
  <2> QED BY <1>1, <2>2 DEF DepthInv
<1>5. OrderInv'
  <2>1. PickedPath(choiceStack)' = <<>>
    BY <1>1 DEF PickedPath
  <2> QED BY <1>1, <2>1, NoChoices DEF OrderInv, Range
<1> QED BY <1>2, <1>3, <1>4, <1>5 DEF IInv

LEMMA AnotherPathKeeps ==
  ASSUME IInv, AnotherPath
  PROVE  IInv'
PROOF
<1>1. /\ phase = "prepare" /\ phase' = IF Turned # <<>> THEN "step" ELSE "calculated"
      /\ choiceStack' = Turned /\ choiceDepth' = -1
      /\ ~firstExecutionOfMacroStep /\ firstExecutionOfMacroStep' = firstExecutionOfMacroStep
      /\ transitions' = transitions /\ step' = step /\ savedStates' = savedStates
      /\ probabilities' = probabilities /\ path' = <<>>
      /\ withProbabilities' = withProbabilities
  BY DEF AnotherPath, PrepareAnotherPath
<1>2. /\ choiceStack \in Seq(Entries) /\ step \in Steps /\ Fits(step, choiceStack)
      /\ Ends(step, PickedPath(choiceStack))
      /\ \A p \in Leaves(step) : p \in Range(transitions) <=>
           LexicallyBefore(p, PickedPath(choiceStack)) \/ p = PickedPath(choiceStack)
      /\ \A k \in 1..Len(transitions) : transitions[k] \in Leaves(step)
  BY <1>1 DEF IInv, TypeInv, DepthInv, OrderInv
<1>3. Turned \in Seq(Entries) /\ Fits(step, Turned)
  BY <1>2, TurnedFits
<1>4. TypeInv'
  <2>1. choiceDepth' \in -1..Len(choiceStack') - 1
    BY <1>1, <1>3
  <2> QED BY <1>1, <1>3, <2>1, NoChoices DEF IInv, TypeInv
<1>5. Fits(step, choiceStack)'
  BY <1>1, <1>3 DEF Fits, Legal, PickedPath, Ends
<1>6. DepthInv'
  <2>1. SubSeq(PickedPath(Turned), 1, 0) = <<>>
    BY SubSeqEmpty
  <2>2. path' = SubSeq(PickedPath(choiceStack)', 1, choiceDepth' + 1)
    BY <1>1, <2>1 DEF PickedPath
  <2> QED BY <1>1, <2>2 DEF DepthInv
<1>7. OrderInv'
  <2>1. Leaves(step)' = Leaves(step) /\ Range(transitions)' = Range(transitions)
        /\ PickedPath(choiceStack)' = PickedPath(Turned)
    BY <1>1 DEF Leaves, Ends, Range, PickedPath
  <2>2. CASE Turned # <<>>
    <3>1. \A p \in Leaves(step) :
            p \in Range(transitions) <=> LexicallyBefore(p, PickedPath(Turned))
      BY <1>2, <2>2, NothingBetween
    <3> QED BY <1>1, <2>1, <2>2, <3>1 DEF IInv, OrderInv, LexicallyBefore
  <2>3. CASE Turned = <<>>
    <3>1. \A l \in 1..Len(choiceStack) : ~HasNextOption(choiceStack[l])
      BY <1>2, <2>3, TurnedIs
    <3>2. Range(transitions) = Leaves(step)
      <4>1. Leaves(step) \subseteq Range(transitions)
        BY <1>2, <3>1, NothingLeft
      <4>2. Range(transitions) \subseteq Leaves(step)
        BY <1>2 DEF Range, IInv, TypeInv
      <4> QED BY <4>1, <4>2
    <3> QED BY <1>1, <2>1, <2>3, <3>2 DEF IInv, OrderInv, LexicallyBefore
  <2> QED BY <2>2, <2>3
<1> QED BY <1>4, <1>5, <1>6, <1>7 DEF IInv

\* What Replay and Explore leave alone.
LEMMA ChoosingKeeps ==
  ASSUME IInv, phase = "step", Replay \/ Explore
  PROVE  /\ phase' = phase /\ step' = step /\ savedStates' = savedStates
         /\ transitions' = transitions /\ probabilities' = probabilities
         /\ withProbabilities' = withProbabilities
         /\ firstExecutionOfMacroStep' = firstExecutionOfMacroStep
         /\ Leaves(step)' = Leaves(step)
PROOF
BY DEF Replay, Explore, ChooseAgain, ChooseFirst, Leaves, Ends

\* The order speaks of the stack's choices.
LEMMA SameOrder ==
  ASSUME OrderInv, phase = "step", phase' = "step", step' = step, transitions' = transitions,
         \A p \in Leaves(step) : LexicallyBefore(p, PickedPath(choiceStack)')
                                 <=> LexicallyBefore(p, PickedPath(choiceStack))
  PROVE  OrderInv'
PROOF
<1>1. Leaves(step)' = Leaves(step) /\ Range(transitions)' = Range(transitions)
  BY DEF Leaves, Ends, Range
<1>2. \A p : LexicallyBefore(p, PickedPath(choiceStack))'
              <=> LexicallyBefore(p, PickedPath(choiceStack)')
  BY DEF LexicallyBefore
<1>3. \A m, n \in 1..Len(transitions) :
        m < n => LexicallyBefore(transitions[m], transitions[n])'
  BY DEF OrderInv, LexicallyBefore
<1>4. \A p \in Leaves(step) :
        p \in Range(transitions) <=> LexicallyBefore(p, PickedPath(choiceStack))'
  BY <1>2 DEF OrderInv
<1> QED BY <1>1, <1>3, <1>4 DEF OrderInv

LEMMA ReplayKeeps ==
  ASSUME IInv, Replay
  PROVE  IInv'
PROOF
<1>1. /\ phase = "step" /\ ~Ends(step, path) /\ choiceDepth + 1 < Len(choiceStack)
      /\ choiceDepth' = choiceDepth + 1
      /\ path' = Append(path, ReplayedOption)
  BY DEF Replay, ChooseAgain
<1>2. /\ phase' = phase /\ step' = step /\ savedStates' = savedStates
      /\ transitions' = transitions /\ probabilities' = probabilities
      /\ withProbabilities' = withProbabilities
      /\ firstExecutionOfMacroStep' = firstExecutionOfMacroStep
  BY <1>1, ChoosingKeeps
<1>3. /\ choiceStack \in Seq(Entries) /\ step \in Steps /\ Fits(step, choiceStack)
      /\ path \in Seq(Nat)
  BY DEF IInv, TypeInv
<1>4. PICK c \in Seq(Nat), n \in 1..Len(choiceStack) :
        /\ c = PickedPath(choiceStack) /\ Len(c) = Len(choiceStack)
        /\ n = choiceDepth + 2
        /\ ReplayedOption = c[n] /\ ReplayedOption < Len(step[path])
  <2>1. choiceDepth + 2 \in 1..Len(choiceStack)
    BY <1>1 DEF IInv, TypeInv
  <2> QED BY <1>1, <2>1, RunOnStack DEF IInv
<1>5. PICK option \in Nat : option = ReplayedOption /\ option = c[n]
  BY <1>4, ElementOfSeq
<1>6. step[path][option + 1] \in 0..Weight
  <2>1. step[path] \in Seq(0..Weight) /\ option + 1 \in 1..Len(step[path])
    BY <1>1, <1>3, <1>4, <1>5, StepTyped
  <2> QED BY <2>1, ElementOfSeq
<1>7. /\ choiceStack' \in Seq(Entries) /\ Len(choiceStack') = Len(choiceStack)
      /\ \A k \in 1..Len(choiceStack) :
           /\ choiceStack'[k].currentOption = choiceStack[k].currentOption
           /\ choiceStack'[k].noOfOptions = choiceStack[k].noOfOptions
  <2>1. CASE n # Len(choiceStack)
    <3>1. choiceStack' = choiceStack
      BY <1>4, <2>1 DEF Replay, ChooseAgain
    <3> QED BY <1>3, <3>1
  <2>2. CASE n = Len(choiceStack)
    <3>1. PICK q \in 0..One : q = Times(step[path][option + 1], PreviousProbability)
      BY <1>6, PreviousTyped, TimesTyped DEF IInv
    <3>2. choiceStack' = [choiceStack EXCEPT ![n].probability = q]
      BY <1>4, <1>5, <2>2, <3>1 DEF Replay, ChooseAgain
    <3>3. choiceStack[n] \in Entries
      BY <1>3, <1>4, ElementOfSeq
    <3>4. PICK e \in Entries : /\ e = [choiceStack[n] EXCEPT !.probability = q]
                               /\ e.currentOption = choiceStack[n].currentOption
                               /\ e.noOfOptions = choiceStack[n].noOfOptions
      BY <3>1, <3>3, WeighedEntry
    <3>5. choiceStack' = [choiceStack EXCEPT ![n] = e]
      BY <3>2, <3>4
    <3> QED BY <1>3, <1>4, <3>4, <3>5, ExceptSeq
  <2> QED BY <2>1, <2>2
<1>8. PickedPath(choiceStack)' = c /\ Fits(step, choiceStack)'
  <2>1. PickedPath(choiceStack') = c /\ Fits(step, choiceStack')
    BY <1>3, <1>4, <1>7, SameChoices
  <2> QED BY <1>2, <2>1 DEF Fits, Legal, PickedPath, Ends
<1>9. path' = SubSeq(c, 1, choiceDepth' + 1) /\ path' \in Seq(Nat) /\ Len(path') <= MaxDepth
  <2>1. /\ path = SubSeq(c, 1, n - 1) /\ choiceDepth' + 1 = n
    BY <1>1, <1>4 DEF IInv, DepthInv, TypeInv
  <2>2. /\ n - 1 \in 0..Len(c) /\ n \in 0..Len(c)
    BY <1>4
  <2>3. /\ Len(path) = n - 1 /\ \A i \in 1..n - 1 : path[i] = c[i]
    BY <2>1, <2>2, Prefix
  <2>4. /\ path' \in Seq(Nat) /\ Len(path') = n
        /\ \A i \in 1..n : path'[i] = c[i]
    BY <1>1, <1>3, <1>5, <2>2, <2>3, AppendProperties
  <2>5. /\ SubSeq(c, 1, n) \in Seq(Nat) /\ Len(SubSeq(c, 1, n)) = n
        /\ \A i \in 1..n : SubSeq(c, 1, n)[i] = c[i]
    BY <2>2, Prefix
  <2>6. path' = SubSeq(c, 1, n)
    BY <2>4, <2>5, SeqEqual
  <2>7. n <= MaxDepth
    BY <1>1, <1>3, <2>2, <2>3, StepTyped, ResolverAssumption
  <2> QED BY <2>1, <2>4, <2>6, <2>7
<1>10. TypeInv'
  <2>1. choiceDepth' \in -1..Len(choiceStack') - 1
    BY <1>1, <1>7 DEF IInv, TypeInv
  <2> QED BY <1>1, <1>2, <1>7, <1>9, <2>1 DEF IInv, TypeInv
<1>11. DepthInv'
  BY <1>1, <1>2, <1>8, <1>9 DEF IInv, DepthInv
<1>12. OrderInv'
  BY <1>1, <1>2, <1>4, <1>8, SameOrder DEF IInv
<1> QED BY <1>8, <1>10, <1>11, <1>12 DEF IInv

LEMMA ExploreKeeps ==
  ASSUME IInv, Explore
  PROVE  IInv'
PROOF
<1>1. /\ phase = "step" /\ ~Ends(step, path) /\ choiceDepth + 1 >= Len(choiceStack)
      /\ choiceDepth' = choiceDepth + 1
      /\ path' = Append(path, 0)
  BY DEF Explore, ChooseFirst
<1>2. /\ phase' = phase /\ step' = step /\ savedStates' = savedStates
      /\ transitions' = transitions /\ probabilities' = probabilities
      /\ withProbabilities' = withProbabilities
      /\ firstExecutionOfMacroStep' = firstExecutionOfMacroStep
  BY <1>1, ChoosingKeeps
<1>3. /\ choiceStack \in Seq(Entries) /\ step \in Steps /\ Fits(step, choiceStack)
      /\ path \in Seq(Nat) /\ Len(choiceStack) \in Nat
  BY LenProperties DEF IInv, TypeInv
<1>4. /\ path = PickedPath(choiceStack) /\ Len(path) = Len(choiceStack)
      /\ choiceDepth + 1 = Len(choiceStack)
  BY <1>1, <1>3, RunOnStack DEF IInv
<1>5. /\ step[path] \in Seq(0..Weight) /\ Len(step[path]) \in Nat \ {0}
      /\ Len(path) < MaxDepth
  BY <1>1, <1>3, StepTyped
<1>6. PICK q \in 0..One : q = Times(step[path][1], PreviousProbability)
  <2>1. step[path][1] \in 0..Weight
    <3>1. 1 \in 1..Len(step[path])
      BY <1>5
    <3> QED BY <1>5, <3>1, ElementOfSeq
  <2> QED BY <2>1, PreviousTyped, TimesTyped DEF IInv
<1>7. PICK e \in Entries : /\ e.currentOption = 0 /\ e.noOfOptions = Len(step[path])
                           /\ choiceStack' = Append(choiceStack, e)
  <2>1. [probability |-> q, currentOption |-> 0, noOfOptions |-> Len(step[path])] \in Entries
    BY <1>5, <1>6 DEF Entries
  <2> QED BY <1>6, <2>1 DEF Explore, ChooseFirst
<1>8. /\ choiceStack' \in Seq(Entries) /\ Len(choiceStack') = Len(choiceStack) + 1
      /\ \A k \in 1..Len(choiceStack) : choiceStack'[k] = choiceStack[k]
      /\ choiceStack'[Len(choiceStack) + 1] = e
  BY <1>3, <1>7, AppendProperties
<1>9. /\ path' \in Seq(Nat) /\ Len(path') = Len(choiceStack) + 1
      /\ \A k \in 1..Len(choiceStack) : path'[k] = path[k]
      /\ path'[Len(choiceStack) + 1] = 0
  BY <1>1, <1>3, <1>4, AppendProperties
<1>10. PickedPath(choiceStack') = path'
  <2>1. /\ PickedPath(choiceStack') \in Seq(Nat)
        /\ Len(PickedPath(choiceStack')) = Len(choiceStack) + 1
        /\ \A k \in 1..Len(choiceStack) + 1 :
             PickedPath(choiceStack')[k] = choiceStack'[k].currentOption
    BY <1>8, ChoicesTyped
  <2>2. \A k \in 1..Len(choiceStack) : path[k] = choiceStack[k].currentOption
    BY <1>3, <1>4, ChoicesTyped
  <2>3. \A k \in 1..Len(choiceStack) + 1 : PickedPath(choiceStack')[k] = path'[k]
    <3> TAKE k \in 1..Len(choiceStack) + 1
    <3>1. CASE k \in 1..Len(choiceStack)
      BY <1>8, <1>9, <2>1, <2>2, <3>1
    <3>2. CASE k = Len(choiceStack) + 1
      BY <1>7, <1>8, <1>9, <2>1, <3>2
    <3> QED BY <1>3, <3>1, <3>2
  <2> QED BY <1>9, <2>1, <2>3, SeqEqual
<1>11. Fits(step, choiceStack')
  <2>1. ASSUME NEW n \in 1..Len(choiceStack) + 1
        PROVE  /\ ~Ends(step, SubSeq(path', 1, n - 1))
               /\ path'[n] < Len(step[SubSeq(path', 1, n - 1)])
               /\ choiceStack'[n].noOfOptions = Len(step[SubSeq(path', 1, n - 1)])
    <3>1. SubSeq(path', 1, n - 1) = SubSeq(path, 1, n - 1)
      <4>1. /\ n - 1 \in Nat /\ n - 1 <= Len(path') /\ n - 1 <= Len(path)
            /\ \A i \in 1..n - 1 : i \in 1..Len(choiceStack)
        BY <1>3, <1>4, <1>9
      <4> QED BY <1>3, <1>9, <4>1, SamePrefix
    <3>2. CASE n <= Len(choiceStack)
      <4>1. n \in 1..Len(choiceStack)
        BY <1>3, <3>2
      <4>2. /\ ~Ends(step, SubSeq(path, 1, n - 1))
            /\ path[n] < Len(step[SubSeq(path, 1, n - 1)])
            /\ choiceStack[n].noOfOptions = Len(step[SubSeq(path, 1, n - 1)])
        BY <1>3, <1>4, <4>1 DEF Fits, Legal
      <4> QED BY <1>8, <1>9, <3>1, <4>1, <4>2
    <3>3. CASE n = Len(choiceStack) + 1
      <4>1. SubSeq(path, 1, n - 1) = path
        BY <1>3, <1>4, <3>3, SubSeqFull
      <4>2. path'[n] = 0 /\ choiceStack'[n].noOfOptions = Len(step[path])
        BY <1>7, <1>8, <1>9, <3>3
      <4>3. 0 < Len(step[path])
        BY <1>5
      <4> QED BY <1>1, <3>1, <4>1, <4>2, <4>3
    <3> QED BY <1>3, <3>2, <3>3
  <2> QED BY <1>8, <1>9, <1>10, <2>1 DEF Fits, Legal
<1>12. PickedPath(choiceStack)' = path' /\ Fits(step, choiceStack)'
  BY <1>2, <1>10, <1>11 DEF Fits, Legal, PickedPath, Ends
<1>13. path' = SubSeq(path', 1, choiceDepth' + 1)
  BY <1>1, <1>4, <1>9, SubSeqFull
<1>14. TypeInv'
  <2>1. choiceDepth' \in -1..Len(choiceStack') - 1
    BY <1>1, <1>3, <1>4, <1>8
  <2>2. Len(path') <= MaxDepth
    BY <1>3, <1>4, <1>5, <1>9, ResolverAssumption
  <2> QED BY <1>1, <1>2, <1>8, <1>9, <2>1, <2>2 DEF IInv, TypeInv
<1>15. DepthInv'
  BY <1>1, <1>2, <1>12, <1>13 DEF IInv, DepthInv
<1>16. OrderInv'
  <2>1. ASSUME NEW p \in Leaves(step)
        PROVE  LexicallyBefore(p, path') <=> LexicallyBefore(p, path)
    <3>1. p \in Seq(Nat)
      BY <1>3, LeavesAreLegal
    <3>2. ASSUME NEW n \in Nat \ {0}
          PROVE  SameBefore(p, path', n) /\ p[n] < path'[n] <=>
                   SameBefore(p, path, n) /\ p[n] < path[n]
      <4>1. CASE n <= Len(choiceStack)
        <5>1. /\ n \in 1..Len(choiceStack)
              /\ \A i \in 1..n - 1 : i \in 1..Len(choiceStack)
          BY <1>3, <4>1
        <5>2. path'[n] = path[n] /\ \A i \in 1..n - 1 : path'[i] = path[i]
          BY <1>9, <5>1
        <5>3. n <= Len(path) /\ n <= Len(path')
          BY <1>3, <1>4, <1>9, <4>1
        <5> QED BY <5>2, <5>3 DEF SameBefore
      <4>2. CASE n = Len(choiceStack) + 1
        <5>1. ~(SameBefore(p, path', n) /\ p[n] < 0)
          <6>1. n <= Len(p) => p[n] \in Nat
            BY <3>1, ElementOfSeq
          <6> QED BY <6>1 DEF SameBefore
        <5> QED BY <1>3, <1>4, <1>9, <4>2, <5>1 DEF SameBefore
      <4>3. CASE n > Len(choiceStack) + 1
        BY <1>3, <1>4, <1>9, <4>3 DEF SameBefore
      <4> QED BY <1>3, <4>1, <4>2, <4>3
    <3> QED BY <1>3, <1>9, <3>1, <3>2, BeforeByElements
  <2> QED BY <1>1, <1>2, <1>4, <1>12, <2>1, SameOrder DEF IInv
<1> QED BY <1>12, <1>14, <1>15, <1>16 DEF IInv

LEMMA EndOfStepKeeps ==
  ASSUME IInv, EndOfStep
  PROVE  IInv'
PROOF
<1>1. /\ phase = "step" /\ Ends(step, path)
      /\ step' = step /\ path' = path /\ savedStates' = savedStates + 1
      /\ choiceStack' = choiceStack /\ choiceDepth' = choiceDepth
      /\ firstExecutionOfMacroStep' = firstExecutionOfMacroStep
      /\ withProbabilities' = withProbabilities
      /\ \/ /\ savedStates < SuccessorCapacity /\ phase' = "prepare"
            /\ transitions' = Append(transitions, path)
         \/ /\ ~(savedStates < SuccessorCapacity) /\ phase' = "thrown"
            /\ transitions' = transitions
  BY DEF EndOfStep, StepFinished, HasPlace
<1>2. /\ choiceStack \in Seq(Entries) /\ step \in Steps /\ Fits(step, choiceStack)
      /\ path \in Seq(Nat) /\ transitions \in Seq(Seq(Nat)) /\ Len(transitions) \in Nat
      /\ savedStates = Len(transitions) /\ Len(transitions) <= SuccessorCapacity
      /\ SuccessorCapacity \in Nat
  BY <1>1, LenProperties, ExecutorAssumption DEF IInv, TypeInv
<1>3. /\ path = PickedPath(choiceStack) /\ choiceDepth = Len(choiceStack) - 1
      /\ ~firstExecutionOfMacroStep /\ Legal(step, path)
  <2>1. /\ choiceDepth + 1 \in 0..Len(choiceStack) /\ ~firstExecutionOfMacroStep
        /\ choiceDepth + 1 < Len(choiceStack) => ~Ends(step, path)
        /\ choiceDepth + 1 >= Len(choiceStack) => path = PickedPath(choiceStack)
    BY <1>1, RunOnStack DEF IInv
  <2>2. choiceDepth \in Int /\ Len(choiceStack) \in Nat
    BY <1>2, LenProperties DEF IInv, TypeInv
  <2>3. choiceDepth = Len(choiceStack) - 1
    BY <1>1, <2>1, <2>2
  <2>4. path = PickedPath(choiceStack)
    BY <2>1, <2>2, <2>3
  <2> QED BY <1>2, <2>1, <2>3, <2>4 DEF Fits
<1>4. path \in Leaves(step)
  BY <1>1, <1>2, <1>3, LegalAreLeaves
<1>5. probabilities' \in Seq(0..One)
  <2>1. ASSUME choiceStack # <<>> PROVE Last(choiceStack).probability \in 0..One
    <3>1. Len(choiceStack) \in 1..Len(choiceStack)
      BY <1>2, <2>1, EmptySeq
    <3>2. choiceStack[Len(choiceStack)] \in Entries
      BY <1>2, <3>1, ElementOfSeq
    <3> QED BY <3>2 DEF Last, Entries
  <2>2. One \in 0..One
    <3> HIDE DEF One
    <3> QED BY OneIsPositive
  <2>3. PICK q \in 0..One :
          q = IF choiceStack = <<>> THEN One ELSE Last(choiceStack).probability
    BY <2>1, <2>2
  <2>4. probabilities' = probabilities \/ probabilities' = Append(probabilities, q)
    BY <2>3 DEF EndOfStep, StepFinished
  <2>5. probabilities \in Seq(0..One)
    BY DEF IInv, TypeInv
  <2>6. Append(probabilities, q) \in Seq(0..One)
    BY <2>5, AppendProperties
  <2> QED BY <2>4, <2>5, <2>6
<1>6. Fits(step, choiceStack)'
  BY <1>1, <1>2 DEF Fits, Legal, PickedPath, Ends
<1>7. Leaves(step)' = Leaves(step) /\ PickedPath(choiceStack)' = path
  BY <1>1, <1>3 DEF Leaves, Ends, PickedPath
<1>8. CASE transitions' = Append(transitions, path) /\ phase' = "prepare"
               /\ savedStates < SuccessorCapacity
  <2>1. /\ transitions' \in Seq(Seq(Nat)) /\ Len(transitions') = Len(transitions) + 1
        /\ \A k \in 1..Len(transitions) : transitions'[k] = transitions[k]
        /\ transitions'[Len(transitions) + 1] = path
    BY <1>2, <1>8, AppendProperties
  <2>2. TypeInv'
    BY <1>1, <1>2, <1>5, <1>8, <2>1 DEF IInv, TypeInv
  <2>3. DepthInv'
    <3>1. Ends(step, PickedPath(choiceStack))'
      BY <1>1, <1>7 DEF Ends
    <3> QED BY <1>1, <1>3, <1>8, <3>1 DEF DepthInv
  <2>4. Range(transitions') = Range(transitions) \cup {path}
    <3>1. /\ DOMAIN transitions' = 1..Len(transitions) + 1
          /\ DOMAIN transitions = 1..Len(transitions)
      BY <1>2, <2>1
    <3>2. ASSUME NEW k \in 1..Len(transitions) + 1
          PROVE  transitions'[k] \in Range(transitions) \cup {path}
      <4>1. CASE k \in 1..Len(transitions)
        BY <2>1, <3>1, <4>1 DEF Range
      <4>2. CASE k = Len(transitions) + 1
        BY <2>1, <4>2
      <4> QED BY <1>2, <4>1, <4>2
    <3>3. \A k \in 1..Len(transitions) :
            transitions[k] = transitions'[k] /\ k \in 1..Len(transitions) + 1
      BY <1>2, <2>1
    <3>4. Len(transitions) + 1 \in 1..Len(transitions) + 1
      BY <1>2
    <3> QED BY <2>1, <3>1, <3>2, <3>3, <3>4 DEF Range
  <2>5. \A k \in 1..Len(transitions) :
          /\ transitions[k] \in Leaves(step)
          /\ transitions[k] \in Range(transitions)
          /\ LexicallyBefore(transitions[k], path)
    <3>1. \A k \in 1..Len(transitions) :
            transitions[k] \in Leaves(step) /\ transitions[k] \in Range(transitions)
      <4>1. DOMAIN transitions = 1..Len(transitions)
        BY <1>2, LenProperties
      <4> QED BY <4>1 DEF IInv, OrderInv, Range
    <3> QED BY <1>1, <1>3, <3>1 DEF IInv, OrderInv
  <2>6. \A k \in 1..Len(transitions') : transitions'[k] \in Leaves(step)
    <3> TAKE k \in 1..Len(transitions')
    <3>1. CASE k \in 1..Len(transitions)
      BY <2>1, <2>5, <3>1
    <3>2. CASE k = Len(transitions) + 1
      BY <1>4, <2>1, <3>2
    <3> QED BY <1>2, <2>1, <3>1, <3>2
  <2>7. ASSUME NEW m \in 1..Len(transitions'), NEW n \in 1..Len(transitions'), m < n
        PROVE  LexicallyBefore(transitions'[m], transitions'[n])
    <3>1. m \in 1..Len(transitions)
      BY <1>2, <2>1, <2>7
    <3>2. CASE n = Len(transitions) + 1
      BY <2>1, <2>5, <3>1, <3>2
    <3>3. CASE n \in 1..Len(transitions)
      BY <2>1, <2>7, <3>1, <3>3 DEF IInv, OrderInv
    <3> QED BY <1>2, <2>1, <3>2, <3>3
  <2>8. \A p \in Leaves(step) :
          p \in Range(transitions') <=> LexicallyBefore(p, path) \/ p = path
    BY <1>1, <1>3, <2>4 DEF IInv, OrderInv
  <2>9. OrderInv'
    <3>1. Range(transitions)' = Range(transitions')
      BY DEF Range
    <3>2. \A p : LexicallyBefore(p, PickedPath(choiceStack))' <=> LexicallyBefore(p, path)
      BY <1>7 DEF LexicallyBefore
    <3>3. \A m, n \in 1..Len(transitions') :
            LexicallyBefore(transitions[m], transitions[n])'
              <=> LexicallyBefore(transitions'[m], transitions'[n])
      BY DEF LexicallyBefore
    <3>4. \A m, n \in 1..Len(transitions') :
            m < n => LexicallyBefore(transitions[m], transitions[n])'
      BY <2>7, <3>3
    <3>5. \A p \in Leaves(step) : p \in Range(transitions)' <=>
            LexicallyBefore(p, PickedPath(choiceStack))' \/ p = PickedPath(choiceStack)'
      BY <1>7, <2>8, <3>1, <3>2
    <3> QED BY <1>7, <1>8, <2>6, <3>4, <3>5 DEF OrderInv
  <2> QED BY <1>6, <2>2, <2>3, <2>9 DEF IInv
<1>9. CASE transitions' = transitions /\ phase' = "thrown"
               /\ ~(savedStates < SuccessorCapacity)
  <2>1. TypeInv'
    BY <1>1, <1>2, <1>5, <1>9 DEF IInv, TypeInv
  <2>2. DepthInv'
    BY <1>1, <1>3, <1>9 DEF DepthInv
  <2>3. OrderInv'
    BY <1>7, <1>9 DEF IInv, OrderInv, LexicallyBefore
  <2> QED BY <1>6, <2>1, <2>2, <2>3 DEF IInv
<1> QED BY <1>1, <1>8, <1>9

\* What does not change the resolver and the transitions.
LEMMA HandOutKeeps ==
  ASSUME IInv, HandOut \/ UNCHANGED vars
  PROVE  IInv'
PROOF
<1>1. /\ phase' = phase \/ (phase = "calculated" /\ phase' = "idle")
      /\ step' = step /\ path' = path /\ savedStates' = savedStates
      /\ choiceStack' = choiceStack /\ choiceDepth' = choiceDepth
      /\ firstExecutionOfMacroStep' = firstExecutionOfMacroStep
      /\ withProbabilities' = withProbabilities /\ probabilities' = probabilities
      /\ transitions' = transitions
  BY DEF HandOut, vars, resolver
<1>2. /\ Leaves(step)' = Leaves(step) /\ Range(transitions)' = Range(transitions)
      /\ PickedPath(choiceStack)' = PickedPath(choiceStack)
  BY <1>1 DEF Leaves, Ends, Range, PickedPath
<1>3. TypeInv'
  BY <1>1 DEF IInv, TypeInv
<1>4. Fits(step, choiceStack)'
  BY <1>1 DEF IInv, Fits, Legal, PickedPath, Ends
<1>5. DepthInv'
  BY <1>1, <1>2 DEF IInv, DepthInv, Ends
<1>6. OrderInv'
  BY <1>1, <1>2 DEF IInv, OrderInv, LexicallyBefore
<1> QED BY <1>3, <1>4, <1>5, <1>6 DEF IInv

-----------------------------------------------------------------------------
(***************************************************************************)
(* The theorems.                                                           *)
(***************************************************************************)
\* The stack holds the choices of the current run, and the transitions found so
\* far are those of the complete paths before it.
THEOREM ExecutorInductive == Spec => []IInv
PROOF
<1>1. IInv /\ [Next]_vars => IInv'
  BY CalculateKeeps, FirstPathKeeps, AnotherPathKeeps, ReplayKeeps, ExploreKeeps,
     EndOfStepKeeps, HandOutKeeps DEF Next, Run
<1> QED BY <1>1, InitIInv, PTL DEF Spec

\* Every variable keeps to its domain, the products of probabilities included.
THEOREM TypeCorrect == Spec => []TypeOK
PROOF
<1>1. IInv => TypeOK
  <2> SUFFICES ASSUME IInv PROVE TypeOK
    OBVIOUS
  <2>1. Len(choiceStack) <= MaxDepth
    <3> SUFFICES ASSUME Len(choiceStack) # 0 PROVE Len(choiceStack) <= MaxDepth
      BY ResolverAssumption
    <3>1. /\ Len(choiceStack) \in Nat \ {0} /\ step \in Steps
          /\ PickedPath(choiceStack) \in Seq(Nat)
          /\ Len(PickedPath(choiceStack)) = Len(choiceStack)
      BY LenProperties, ChoicesTyped DEF IInv, TypeInv
    <3>2. ~Ends(step, SubSeq(PickedPath(choiceStack), 1, Len(choiceStack) - 1))
      BY <3>1 DEF IInv, Fits, Legal
    <3>3. /\ Len(choiceStack) - 1 \in 0..Len(PickedPath(choiceStack))
      BY <3>1
    <3>4. Len(SubSeq(PickedPath(choiceStack), 1, Len(choiceStack) - 1)) = Len(choiceStack) - 1
      BY <3>1, <3>3, Prefix
    <3>5. Len(choiceStack) - 1 < MaxDepth
      BY <3>1, <3>2, <3>4, StepTyped
    <3> QED BY <3>1, <3>5, ResolverAssumption
  <2>2. choiceDepth \in -1..MaxDepth - 1
    BY <2>1, ResolverAssumption DEF IInv, TypeInv
  <2>3. \A k \in 1..Len(choiceStack) :
          choiceStack[k] \in [probability : 0..One, currentOption : Nat, noOfOptions : Nat]
    BY ElementOfSeq DEF IInv, TypeInv, Entries
  <2>4. \A k \in 1..Len(probabilities) : probabilities[k] \in 0..One
    BY ElementOfSeq DEF IInv, TypeInv
  <2>5. savedStates \in 0..SuccessorCapacity + 1
    <3>1. SuccessorCapacity \in Nat /\ savedStates \in Nat
      BY ExecutorAssumption DEF IInv, TypeInv
    <3>2. savedStates <= SuccessorCapacity \/ savedStates = SuccessorCapacity + 1
      BY DEF IInv, TypeInv
    <3> QED BY <3>1, <3>2
  <2> QED BY <2>2, <2>3, <2>4, <2>5 DEF IInv, TypeInv, TypeOK
<1> QED BY <1>1, ExecutorInductive, PTL

\* prepareNextPath never meets a run that did not use the whole stack.
THEOREM NothingStrangeOccursHolds == Spec => []NothingStrangeOccurs
PROOF
<1>1. IInv => NothingStrangeOccurs
  BY DEF IInv, DepthInv, NothingStrangeOccurs, PrepareAsserts
<1> QED BY <1>1, ExecutorInductive, PTL

\* Every combination of choices is run exactly once, in lexicographic order,
\* whatever the step, and also when the executor is used again.
THEOREM EnumeratesEveryPathHolds == Spec => []EnumeratesEveryPath
PROOF
<1>1. IInv => EnumeratesEveryPath
  BY DEF IInv, OrderInv, EnumeratesEveryPath
<1> QED BY <1>1, ExecutorInductive, PTL

-----------------------------------------------------------------------------
(***************************************************************************)
(* The payload.  A run's probability is the product along its path; the    *)
(* runs before a path have together the probability of the options before  *)
(* those on the path.  Both are exact, because One is a power of Weight.   *)
(***************************************************************************)
\* The weights of the options among which the n-th choice of a path is made.
Weights(s, p, n) == s[SubSeq(p, 1, n - 1)]

\* The probability of the first n choices of a path.
After(s, p, n) ==
  LET after[m \in 0..Len(p)] ==
        IF m = 0 THEN One
        ELSE (s[SubSeq(p, 1, m - 1)][p[m] + 1] * after[m - 1]) \div Weight
  IN  after[n]

\* The probability of the paths that leave the first n choices of a path for
\* an earlier option.
Before(s, p, n) ==
  LET before[m \in 0..Len(p)] ==
        IF m = 0 THEN 0
        ELSE before[m - 1] + (SumTo(Weights(s, p, m), p[m]) * After(s, p, m - 1)) \div Weight
  IN  before[n]

LEMMA LegalChoice ==
  ASSUME NEW s \in Steps, NEW p \in Seq(Nat), Legal(s, p), NEW n \in 1..Len(p)
  PROVE  /\ Weights(s, p, n) \in Seq(0..Weight) /\ Weights(s, p, n) \in Seq(Int)
         /\ p[n] \in Nat /\ p[n] + 1 \in 1..Len(Weights(s, p, n))
         /\ Weights(s, p, n)[p[n] + 1] \in 0..Weight
         /\ SumOf(Weights(s, p, n)) = Weight
         /\ n \in 1..MaxDepth
PROOF
<1> DEFINE q == SubSeq(p, 1, n - 1)
<1>1. ~Ends(s, q) /\ p[n] < Len(s[q]) /\ p[n] \in Nat
  BY ElementOfSeq DEF Legal
<1>2. /\ q \in DOMAIN s /\ s[q] \in Seq(0..Weight) /\ Len(s[q]) \in Nat \ {0}
      /\ Len(q) < MaxDepth
  BY <1>1, StepTyped
<1>3. SumOf(s[q]) = Weight
  <2>1. s[q] # <<>>
    BY <1>1 DEF Ends
  <2> QED BY <1>2, <2>1, ExecutorAssumption
<1>4. Len(q) = n - 1
  BY Prefix, LenProperties
<1>5. n \in 1..MaxDepth
  BY <1>2, <1>4, ResolverAssumption, LenProperties
<1>6. p[n] + 1 \in 1..Len(s[q]) /\ s[q] \in Seq(Int)
  <2>1. 0..Weight \subseteq Int
    OBVIOUS
  <2>2. \A k \in 1..Len(s[q]) : s[q][k] \in Int
    BY <1>2, <2>1, ElementOfSeq
  <2>3. s[q] \in Seq(Int)
    BY <1>2, <2>2
  <2> QED BY <1>1, <1>2, <2>3
<1>7. s[q][p[n] + 1] \in 0..Weight
  BY <1>2, <1>6, ElementOfSeq
<1> QED BY <1>1, <1>2, <1>3, <1>5, <1>6, <1>7 DEF Weights

\* A quotient of numbers is a number.
LEMMA QuotientTyped ==
  ASSUME NEW a \in Int
  PROVE  a \div Weight \in Int
PROOF
BY ResolverAssumption

LEMMA MultipleDivides ==
  ASSUME NEW a \in Int
  PROVE  (Weight * a) \div Weight = a
PROOF
<1>1. Weight \in Nat \ {0} /\ Weight * a \in Int
  BY ResolverAssumption
<1>2. PICK d \in Int, m \in 0..Weight - 1 :
        d = (Weight * a) \div Weight /\ Weight * a = Weight * d + m
  BY <1>1
<1>3. Weight * (a - d) = m
  BY <1>1, <1>2
<1>4. a - d < 1
  <2> SUFFICES ASSUME a - d >= 1 PROVE FALSE
    BY <1>2
  <2>1. Weight * (a - d) >= Weight
    BY <1>1, <1>2
  <2> QED BY <1>1, <1>2, <1>3, <2>1
<1>5. a - d > -1
  <2> SUFFICES ASSUME a - d <= -1 PROVE FALSE
    BY <1>2
  <2>1. Weight * (a - d) <= -Weight
    BY <1>1, <1>2
  <2> QED BY <1>1, <1>2, <1>3, <2>1
<1> QED BY <1>2, <1>4, <1>5

LEMMA AfterIs ==
  ASSUME NEW s \in Steps, NEW p \in Seq(Nat), Legal(s, p)
  PROVE  /\ After(s, p, 0) = One
         /\ \A n \in 0..Len(p) : After(s, p, n) \in Int
         /\ \A n \in 1..Len(p) :
              After(s, p, n) = (Weights(s, p, n)[p[n] + 1] * After(s, p, n - 1)) \div Weight
         /\ Product(s, p) = After(s, p, Len(p))
PROOF
<1> DEFINE N == Len(p)
           w(n) == s[SubSeq(p, 1, n - 1)][p[n] + 1]
           after == CHOOSE f : f = [m \in 0..N |-> IF m = 0 THEN One ELSE (w(m) * f[m - 1]) \div Weight]
           g == [n \in 1..N |-> [x \in Int |-> (w(n) * x) \div Weight]]
<1>1. N \in Nat /\ \A n \in 1..N : w(n) \in Int
  <2>1. N \in Nat
    BY LenProperties
  <2>2. ASSUME NEW n \in 1..N PROVE w(n) \in Int
    BY LegalChoice DEF Weights
  <2> QED BY <2>1, <2>2
<1>2. One \in Int
  <2> HIDE DEF One
  <2> QED BY OneIsPositive
<1>3. \A n : After(s, p, n) = after[n]
  BY DEF After
<1>4. Product(s, p) = after[N]
  BY DEF Product
<1>5. \A n : w(n) = Weights(s, p, n)[p[n] + 1]
  BY DEF Weights
<1> HIDE DEF w, N, One
<1>6. g \in [1..N -> [Int -> Int]]
  BY <1>1, QuotientTyped
<1>7. PICK f \in [0..N -> Int] : IsRun(f, One, g, N)
  <2> HIDE DEF g
  <2> QED BY <1>1, <1>2, <1>6, RecursionExists, Zenon
<1>8. \A n \in 1..N : f[n] = (w(n) * f[n - 1]) \div Weight
  <2> TAKE n \in 1..N
  <2>1. n - 1 \in 0..N
    BY <1>1
  <2>2. f[n - 1] \in Int
    BY <2>1
  <2>3. g[n][f[n - 1]] = (w(n) * f[n - 1]) \div Weight
    BY <2>2
  <2> HIDE DEF g
  <2> QED BY <1>7, <2>3 DEF IsRun
<1>9. f = [m \in 0..N |-> IF m = 0 THEN One ELSE (w(m) * f[m - 1]) \div Weight]
  <2>1. f[0] = One
    BY <1>7 DEF IsRun
  <2>2. \A m \in 0..N : f[m] = IF m = 0 THEN One ELSE (w(m) * f[m - 1]) \div Weight
    BY <1>1, <1>8, <2>1
  <2> QED BY <2>2
<1>10. after = [m \in 0..N |-> IF m = 0 THEN One ELSE (w(m) * after[m - 1]) \div Weight]
  BY <1>9
<1> HIDE DEF after
<1>11. after[0] = One /\ \A n \in 1..N : after[n] = (w(n) * after[n - 1]) \div Weight
  BY <1>1, <1>10
<1>12. \A n \in 0..N : after[n] = f[n]
  <2>1. GoTogether(after, f, N)
    BY <1>7, <1>8, <1>11 DEF IsRun, GoTogether
  <2> QED BY <1>1, <2>1, RecursionIsUnique
<1> QED BY <1>1, <1>3, <1>4, <1>5, <1>11, <1>12 DEF N

LEMMA BeforeIs ==
  ASSUME NEW s \in Steps, NEW p \in Seq(Nat), Legal(s, p)
  PROVE  /\ Before(s, p, 0) = 0
         /\ \A n \in 0..Len(p) : Before(s, p, n) \in Int
         /\ \A n \in 1..Len(p) :
              Before(s, p, n) = Before(s, p, n - 1)
                + (SumTo(Weights(s, p, n), p[n]) * After(s, p, n - 1)) \div Weight
PROOF
<1> DEFINE N == Len(p)
           w(n) == (SumTo(Weights(s, p, n), p[n]) * After(s, p, n - 1)) \div Weight
           before == CHOOSE f : f = [m \in 0..N |-> IF m = 0 THEN 0 ELSE f[m - 1] + w(m)]
           g == [n \in 1..N |-> [x \in Int |-> x + w(n)]]
<1>1. N \in Nat /\ \A n \in 1..N : w(n) \in Int
  <2>1. N \in Nat
    BY LenProperties
  <2>2. ASSUME NEW n \in 1..N PROVE w(n) \in Int
    <3>1. /\ Weights(s, p, n) \in Seq(Int) /\ p[n] + 1 \in 1..Len(Weights(s, p, n))
          /\ p[n] \in Nat /\ Len(Weights(s, p, n)) \in Nat
      BY LegalChoice, LenProperties
    <3>2. p[n] \in 0..Len(Weights(s, p, n))
      BY <3>1
    <3>3. SumTo(Weights(s, p, n), p[n]) \in Int
      BY <3>1, <3>2, SumToIs
    <3>4. n - 1 \in 0..Len(p)
      BY <2>1
    <3>5. After(s, p, n - 1) \in Int
      BY <3>4, AfterIs
    <3> QED BY <3>3, <3>5, QuotientTyped
  <2> QED BY <2>1, <2>2
<1>2. \A n : Before(s, p, n) = before[n]
  BY DEF Before
<1> HIDE DEF w, N
<1>3. g \in [1..N -> [Int -> Int]]
  BY <1>1
<1>4. PICK f \in [0..N -> Int] : IsRun(f, 0, g, N)
  <2>1. 0 \in Int
    OBVIOUS
  <2> HIDE DEF g
  <2> QED BY <1>1, <1>3, <2>1, RecursionExists, Zenon
<1>5. \A n \in 1..N : f[n] = f[n - 1] + w(n)
  <2> TAKE n \in 1..N
  <2>1. n - 1 \in 0..N
    BY <1>1
  <2>2. f[n - 1] \in Int
    BY <2>1
  <2>3. g[n][f[n - 1]] = f[n - 1] + w(n)
    BY <2>2
  <2> HIDE DEF g
  <2> QED BY <1>4, <2>3 DEF IsRun
<1>6. f = [m \in 0..N |-> IF m = 0 THEN 0 ELSE f[m - 1] + w(m)]
  <2>1. f[0] = 0
    BY <1>4 DEF IsRun
  <2>2. \A m \in 0..N : f[m] = IF m = 0 THEN 0 ELSE f[m - 1] + w(m)
    BY <1>1, <1>5, <2>1
  <2> QED BY <2>2
<1>7. before = [m \in 0..N |-> IF m = 0 THEN 0 ELSE before[m - 1] + w(m)]
  BY <1>6
<1> HIDE DEF before
<1>8. before[0] = 0 /\ \A n \in 1..N : before[n] = before[n - 1] + w(n)
  BY <1>1, <1>7
<1>9. \A n \in 0..N : before[n] = f[n]
  <2>1. GoTogether(before, f, N)
    BY <1>4, <1>5, <1>8 DEF IsRun, GoTogether
  <2> QED BY <1>1, <2>1, RecursionIsUnique
<1> QED BY <1>1, <1>2, <1>8, <1>9 DEF N, w

\* A product is a multiple of the units that the choices to come divide.
LEMMA AfterIsMultiple ==
  ASSUME NEW s \in Steps, NEW p \in Seq(Nat), Legal(s, p), NEW n \in 0..Len(p)
  PROVE  n \in 0..MaxDepth /\ \E c \in Nat : After(s, p, n) = c * Power(MaxDepth - n)
PROOF
<1> DEFINE IsMultiple(m) == \E c \in Nat : After(s, p, m) = c * Power(MaxDepth - m)
           bad == {m \in 0..Len(p) : ~IsMultiple(m)}
<1>1. \A m \in 0..Len(p) : m \in 0..MaxDepth
  <2> TAKE m \in 0..Len(p)
  <2>1. CASE m = 0
    BY <2>1, ResolverAssumption
  <2>2. CASE m # 0
    <3>1. m \in 1..Len(p)
      BY <2>2, LenProperties
    <3>2. m \in 1..MaxDepth
      BY <3>1, LegalChoice
    <3> QED BY <3>2, ResolverAssumption
  <2> QED BY <2>1, <2>2
<1> SUFFICES ASSUME bad # {} PROVE FALSE
  BY <1>1
<1>2. PICK m \in bad : \A k \in bad : m <= k
  <2>1. bad \in SUBSET Nat
    BY LenProperties
  <2> HIDE DEF bad
  <2> QED BY <2>1, LeastExists
<1>3. m \in 0..Len(p) /\ ~IsMultiple(m) /\ Len(p) \in Nat /\ MaxDepth \in Nat
  BY LenProperties, ResolverAssumption
<1>4. m # 0
  <2> SUFFICES ASSUME m = 0 PROVE FALSE
    OBVIOUS
  <2>1. After(s, p, 0) = Power(MaxDepth) /\ Power(MaxDepth) \in Nat
    BY <1>3, AfterIs, PowerIs
  <2>2. After(s, p, m) = 1 * Power(MaxDepth - m)
    BY <1>3, <2>1
  <2> QED BY <1>3, <2>2
<1>5. m - 1 \in 0..Len(p) /\ m \in 1..Len(p) /\ IsMultiple(m - 1)
  <2>1. m - 1 \in 0..Len(p) /\ m \in 1..Len(p)
    BY <1>3, <1>4
  <2>2. m - 1 \notin bad
    <3> HIDE DEF bad
    <3> QED BY <1>2, <1>3
  <2> QED BY <2>1, <2>2
<1>6. PICK c \in Nat : After(s, p, m - 1) = c * Power(MaxDepth - (m - 1))
  BY <1>5
<1>7. PICK u \in Nat, x \in Nat :
        u = Power(MaxDepth - m) /\ Power(MaxDepth - (m - 1)) = Weight * u
        /\ x = Weights(s, p, m)[p[m] + 1]
  <2>1. m \in 0..MaxDepth /\ m \in 1..MaxDepth
    BY <1>1, <1>3, <1>5
  <2>2. MaxDepth - m \in 0..MaxDepth - 1 /\ MaxDepth - m \in 0..MaxDepth
    BY <1>3, <2>1
  <2>3. Power(MaxDepth - m) \in Nat /\ Power((MaxDepth - m) + 1) = Weight * Power(MaxDepth - m)
    BY <2>2, PowerIs
  <2>4. (MaxDepth - m) + 1 = MaxDepth - (m - 1)
    BY <1>3
  <2>5. Weights(s, p, m)[p[m] + 1] \in Nat
    BY <1>5, LegalChoice
  <2> QED BY <2>3, <2>4, <2>5
<1>8. After(s, p, m) = (x * (c * (Weight * u))) \div Weight
  BY <1>5, <1>6, <1>7, AfterIs
<1>9. x * (c * (Weight * u)) = Weight * ((x * c) * u)
  BY ResolverAssumption
<1>10. (Weight * ((x * c) * u)) \div Weight = (x * c) * u
  BY MultipleDivides
<1>11. x * c \in Nat
  OBVIOUS
<1> QED BY <1>3, <1>7, <1>8, <1>9, <1>10, <1>11

\* Where a choice is made, the division by Weight leaves no rest.
LEMMA SharesAreExact ==
  ASSUME NEW s \in Steps, NEW p \in Seq(Nat), Legal(s, p), NEW n \in 1..Len(p)
  PROVE  \E d \in Nat : /\ After(s, p, n - 1) = Weight * d
                        /\ \A a \in Int : (a * After(s, p, n - 1)) \div Weight = a * d
PROOF
<1>1. n - 1 \in 0..Len(p) /\ MaxDepth \in Nat /\ n \in 1..MaxDepth
  BY LegalChoice, LenProperties, ResolverAssumption
<1>2. PICK c \in Nat : After(s, p, n - 1) = c * Power(MaxDepth - (n - 1))
  BY <1>1, AfterIsMultiple
<1>3. PICK u \in Nat : Power(MaxDepth - (n - 1)) = Weight * u
  <2>1. MaxDepth - n \in 0..MaxDepth - 1 /\ MaxDepth - n \in 0..MaxDepth
    BY <1>1
  <2>2. Power(MaxDepth - n) \in Nat /\ Power((MaxDepth - n) + 1) = Weight * Power(MaxDepth - n)
    BY <2>1, PowerIs
  <2>3. (MaxDepth - n) + 1 = MaxDepth - (n - 1)
    BY <1>1
  <2> QED BY <2>2, <2>3
<1>4. After(s, p, n - 1) = Weight * (c * u) /\ c * u \in Nat
  BY <1>2, <1>3, ResolverAssumption
<1>5. PICK d \in Nat : After(s, p, n - 1) = Weight * d
  BY <1>4
<1>6. ASSUME NEW a \in Int PROVE (a * After(s, p, n - 1)) \div Weight = a * d
  <2>1. a * After(s, p, n - 1) = Weight * (a * d)
    BY <1>5, ResolverAssumption
  <2>2. (Weight * (a * d)) \div Weight = a * d
    BY MultipleDivides
  <2> QED BY <2>1, <2>2
<1> QED BY <1>5, <1>6

\* The parts of a choice: each option gets its weight of what the earlier
\* choices left, and the options before it have the sum of their weights.
LEMMA ChoiceDivides ==
  ASSUME NEW s \in Steps, NEW p \in Seq(Nat), Legal(s, p), NEW n \in 1..Len(p)
  PROVE  \E d \in Nat :
           /\ After(s, p, n - 1) = Weight * d
           /\ After(s, p, n) = Weights(s, p, n)[p[n] + 1] * d
           /\ Before(s, p, n) = Before(s, p, n - 1) + SumTo(Weights(s, p, n), p[n]) * d
PROOF
<1>1. /\ Weights(s, p, n) \in Seq(Int) /\ p[n] + 1 \in 1..Len(Weights(s, p, n))
      /\ p[n] \in Nat /\ Weights(s, p, n)[p[n] + 1] \in Int
  BY LegalChoice
<1>2. SumTo(Weights(s, p, n), p[n]) \in Int
  <2>1. p[n] \in 0..Len(Weights(s, p, n))
    BY <1>1, LenProperties
  <2> QED BY <1>1, <2>1, SumToIs
<1>3. PICK d \in Nat :
        /\ After(s, p, n - 1) = Weight * d
        /\ \A a \in Int : (a * After(s, p, n - 1)) \div Weight = a * d
  BY SharesAreExact
<1>4. (Weights(s, p, n)[p[n] + 1] * After(s, p, n - 1)) \div Weight
        = Weights(s, p, n)[p[n] + 1] * d
  BY <1>1, <1>3
<1>5. (SumTo(Weights(s, p, n), p[n]) * After(s, p, n - 1)) \div Weight
        = SumTo(Weights(s, p, n), p[n]) * d
  BY <1>2, <1>3
<1>6. After(s, p, n) = Weights(s, p, n)[p[n] + 1] * d
  BY <1>4, AfterIs
<1>7. Before(s, p, n) = Before(s, p, n - 1) + SumTo(Weights(s, p, n), p[n]) * d
  BY <1>5, BeforeIs
<1> QED BY <1>3, <1>6, <1>7

\* The probability of the paths up to and with the first n choices.
Upto(s, p, n) == Before(s, p, n) + After(s, p, n)

LEMMA UptoIs ==
  ASSUME NEW s \in Steps, NEW p \in Seq(Nat), Legal(s, p), NEW n \in 1..Len(p)
  PROVE  \E d \in Nat :
           /\ After(s, p, n - 1) = Weight * d
           /\ Upto(s, p, n) = Before(s, p, n - 1) + SumTo(Weights(s, p, n), p[n] + 1) * d
           /\ Before(s, p, n) = Before(s, p, n - 1) + SumTo(Weights(s, p, n), p[n]) * d
PROOF
<1>1. PICK d \in Nat :
        /\ After(s, p, n - 1) = Weight * d
        /\ After(s, p, n) = Weights(s, p, n)[p[n] + 1] * d
        /\ Before(s, p, n) = Before(s, p, n - 1) + SumTo(Weights(s, p, n), p[n]) * d
  BY ChoiceDivides
<1>2. /\ Weights(s, p, n) \in Seq(Int) /\ p[n] + 1 \in 1..Len(Weights(s, p, n))
      /\ p[n] \in Nat /\ Weights(s, p, n)[p[n] + 1] \in Int
  BY LegalChoice
<1>3. PICK a \in Int : a = SumTo(Weights(s, p, n), p[n])
  <2>1. p[n] \in 0..Len(Weights(s, p, n))
    BY <1>2, LenProperties
  <2> QED BY <1>2, <2>1, SumToIs
<1>4. SumTo(Weights(s, p, n), p[n] + 1) = a + Weights(s, p, n)[p[n] + 1]
  <2>1. (p[n] + 1) - 1 = p[n]
    BY <1>2
  <2> QED BY <1>2, <1>3, <2>1, SumToIs
<1>5. PICK w \in Int : w = Weights(s, p, n)[p[n] + 1]
  BY <1>2
<1>6. (a + w) * d = a * d + w * d
  OBVIOUS
<1>7. Before(s, p, n - 1) \in Int
  <2>1. n - 1 \in 0..Len(p)
    BY LenProperties
  <2> QED BY <2>1, BeforeIs
<1>8. Upto(s, p, n) = Before(s, p, n - 1) + (a + w) * d
  BY <1>1, <1>3, <1>5, <1>6, <1>7 DEF Upto
<1> QED BY <1>1, <1>4, <1>5, <1>8

\* The last option completes the choice.
LEMMA LastOption ==
  ASSUME NEW s \in Steps, NEW p \in Seq(Nat), Legal(s, p), NEW n \in 1..Len(p),
         p[n] + 1 = Len(Weights(s, p, n))
  PROVE  Upto(s, p, n) = Upto(s, p, n - 1)
PROOF
<1>1. PICK d \in Nat :
        /\ After(s, p, n - 1) = Weight * d
        /\ Upto(s, p, n) = Before(s, p, n - 1) + SumTo(Weights(s, p, n), p[n] + 1) * d
  BY UptoIs
<1>2. SumTo(Weights(s, p, n), p[n] + 1) = Weight
  BY LegalChoice DEF SumOf
<1> QED BY <1>1, <1>2 DEF Upto

\* What the first choices decide.
LEMMA SameFirstChoices ==
  ASSUME NEW s \in Steps, NEW p \in Seq(Nat), Legal(s, p), NEW q \in Seq(Nat), Legal(s, q),
         NEW m \in Nat, m <= Len(p), m <= Len(q), \A i \in 1..m : p[i] = q[i]
  PROVE  /\ \A n \in 0..m : /\ After(s, p, n) = After(s, q, n)
                            /\ Before(s, p, n) = Before(s, q, n)
         /\ \A n \in 1..m + 1 : Weights(s, p, n) = Weights(s, q, n)
PROOF
<1>1. ASSUME NEW n \in 1..m + 1 PROVE Weights(s, p, n) = Weights(s, q, n)
  <2>1. /\ n - 1 \in Nat /\ n - 1 <= Len(p) /\ n - 1 <= Len(q)
        /\ \A i \in 1..n - 1 : i \in 1..m
    BY LenProperties
  <2>2. SubSeq(p, 1, n - 1) = SubSeq(q, 1, n - 1)
    BY <2>1, SamePrefix
  <2> QED BY <2>2 DEF Weights
<1>2. \A n \in 1..m : n \in 1..m + 1 /\ n \in 1..Len(p) /\ n \in 1..Len(q) /\ n - 1 \in 0..m
  BY LenProperties
<1> DEFINE f == [n \in 0..m |-> After(s, p, n)]
           h == [n \in 0..m |-> After(s, q, n)]
<1>3. GoTogether(f, h, m)
  <2>1. f[0] = h[0]
    BY AfterIs
  <2>2. ASSUME NEW n \in 1..m, f[n - 1] = h[n - 1] PROVE f[n] = h[n]
    <3>1. Weights(s, p, n) = Weights(s, q, n) /\ p[n] = q[n] /\ n \in 0..m
      BY <1>1, <1>2
    <3>2. After(s, p, n - 1) = After(s, q, n - 1)
      BY <1>2, <2>2
    <3>3. After(s, p, n) = (Weights(s, p, n)[p[n] + 1] * After(s, p, n - 1)) \div Weight
      BY <1>2, AfterIs
    <3>4. After(s, q, n) = (Weights(s, q, n)[q[n] + 1] * After(s, q, n - 1)) \div Weight
      BY <1>2, AfterIs
    <3>5. After(s, p, n) = After(s, q, n)
      BY <3>1, <3>2, <3>3, <3>4
    <3> QED BY <3>1, <3>5
  <2> QED BY <2>1, <2>2 DEF GoTogether
<1>4. \A n \in 0..m : After(s, p, n) = After(s, q, n)
  <2>1. \A n \in 0..m : f[n] = h[n]
    <3> HIDE DEF f, h
    <3> QED BY <1>3, RecursionIsUnique
  <2> QED BY <2>1
<1> DEFINE f2 == [n \in 0..m |-> Before(s, p, n)]
           h2 == [n \in 0..m |-> Before(s, q, n)]
<1> HIDE DEF f, h
<1>5. GoTogether(f2, h2, m)
  <2>1. f2[0] = h2[0]
    BY BeforeIs
  <2>2. ASSUME NEW n \in 1..m, f2[n - 1] = h2[n - 1] PROVE f2[n] = h2[n]
    <3>1. Weights(s, p, n) = Weights(s, q, n) /\ p[n] = q[n] /\ n \in 0..m
      BY <1>1, <1>2
    <3>2. Before(s, p, n - 1) = Before(s, q, n - 1) /\ After(s, p, n - 1) = After(s, q, n - 1)
      BY <1>2, <1>4, <2>2
    <3>3. Before(s, p, n) = Before(s, p, n - 1)
            + (SumTo(Weights(s, p, n), p[n]) * After(s, p, n - 1)) \div Weight
      BY <1>2, BeforeIs
    <3>4. Before(s, q, n) = Before(s, q, n - 1)
            + (SumTo(Weights(s, q, n), q[n]) * After(s, q, n - 1)) \div Weight
      BY <1>2, BeforeIs
    <3>5. Before(s, p, n) = Before(s, q, n)
      BY <3>1, <3>2, <3>3, <3>4
    <3> QED BY <3>1, <3>5
  <2> QED BY <2>1, <2>2 DEF GoTogether
<1>6. \A n \in 0..m : Before(s, p, n) = Before(s, q, n)
  <2>1. \A n \in 0..m : f2[n] = h2[n]
    <3> HIDE DEF f2, h2
    <3> QED BY <1>5, RecursionIsUnique
  <2> QED BY <2>1
<1> QED BY <1>1, <1>4, <1>6

\* A path that goes on with last options only completes the choices before.
LEMMA OnlyLastOptions ==
  ASSUME NEW s \in Steps, NEW p \in Seq(Nat), Legal(s, p), NEW k \in 0..Len(p),
         \A n \in k + 1..Len(p) : p[n] + 1 = Len(Weights(s, p, n))
  PROVE  Upto(s, p, Len(p)) = Upto(s, p, k)
PROOF
<1>1. PICK m \in Nat : m = Len(p) - k /\ Len(p) \in Nat /\ k \in Nat
  BY LenProperties
<1> DEFINE f == [n \in 0..m |-> Upto(s, p, k + n)]
           h == [n \in 0..m |-> Upto(s, p, k)]
<1>2. GoTogether(f, h, m)
  <2>1. f[0] = h[0]
    BY <1>1
  <2>2. ASSUME NEW n \in 1..m, f[n - 1] = h[n - 1] PROVE f[n] = h[n]
    <3>1. n \in 0..m /\ n - 1 \in 0..m /\ k + n \in 1..Len(p) /\ k + n \in k + 1..Len(p)
      BY <1>1
    <3>2. Upto(s, p, k + n) = Upto(s, p, (k + n) - 1)
      BY <3>1, LastOption
    <3>3. (k + n) - 1 = k + (n - 1)
      BY <1>1
    <3>4. Upto(s, p, k + (n - 1)) = Upto(s, p, k)
      BY <2>2, <3>1
    <3>5. Upto(s, p, k + n) = Upto(s, p, k)
      BY <3>2, <3>3, <3>4
    <3> QED BY <3>1, <3>5
  <2> QED BY <2>1, <2>2 DEF GoTogether
<1>3. \A n \in 0..m : f[n] = h[n]
  <2> HIDE DEF f, h
  <2> QED BY <1>2, RecursionIsUnique
<1>4. m \in 0..m /\ k + m = Len(p)
  BY <1>1
<1>5. f[m] = Upto(s, p, k + m) /\ h[m] = Upto(s, p, k)
  BY <1>4
<1> QED BY <1>3, <1>4, <1>5

\* The next option of a choice begins where the one before it ends.
LEMMA NextOption ==
  ASSUME NEW s \in Steps, NEW p \in Seq(Nat), Legal(s, p), NEW q \in Seq(Nat), Legal(s, q),
         NEW k \in 1..Len(p), k <= Len(q), \A i \in 1..k - 1 : p[i] = q[i], q[k] = p[k] + 1
  PROVE  Before(s, q, k) = Upto(s, p, k)
PROOF
<1>1. k - 1 \in Nat /\ k - 1 <= Len(p) /\ k - 1 <= Len(q) /\ k \in 1..Len(q)
  BY LenProperties
<1>2. /\ After(s, p, k - 1) = After(s, q, k - 1)
      /\ Before(s, p, k - 1) = Before(s, q, k - 1)
      /\ Weights(s, p, k) = Weights(s, q, k)
  <2>1. k - 1 \in 0..k - 1 /\ k \in 1..(k - 1) + 1
    BY <1>1
  <2> QED BY <1>1, <2>1, SameFirstChoices
<1>3. PICK d \in Nat :
        /\ After(s, p, k - 1) = Weight * d
        /\ Upto(s, p, k) = Before(s, p, k - 1) + SumTo(Weights(s, p, k), p[k] + 1) * d
  BY UptoIs
<1>4. PICK e \in Nat :
        /\ After(s, q, k - 1) = Weight * e
        /\ Before(s, q, k) = Before(s, q, k - 1) + SumTo(Weights(s, q, k), q[k]) * e
  BY <1>1, UptoIs
<1>5. Weight * d = Weight * e
  BY <1>2, <1>3, <1>4
<1>6. d = e
  <2>1. (Weight * d) \div Weight = d /\ (Weight * e) \div Weight = e
    BY MultipleDivides
  <2> QED BY <1>5, <2>1
<1> QED BY <1>2, <1>3, <1>4, <1>6

\* The first option adds nothing.
LEMMA FirstOption ==
  ASSUME NEW s \in Steps, NEW p \in Seq(Nat), Legal(s, p), NEW n \in 1..Len(p), p[n] = 0
  PROVE  Before(s, p, n) = Before(s, p, n - 1)
PROOF
<1>1. PICK d \in Nat :
        Before(s, p, n) = Before(s, p, n - 1) + SumTo(Weights(s, p, n), 0) * d
  BY UptoIs
<1>2. SumTo(Weights(s, p, n), 0) = 0
  BY LegalChoice, SumToIs
<1>3. Before(s, p, n - 1) \in Int
  <2>1. n - 1 \in 0..Len(p)
    BY LenProperties
  <2> QED BY <2>1, BeforeIs
<1> QED BY <1>1, <1>2, <1>3

-----------------------------------------------------------------------------
(***************************************************************************)
(* The payload's invariant.                                                *)
(***************************************************************************)
\* The stack's entries have the probabilities of the choices up to them; only
\* the last one may have an old one, as long as the run has not come to it.
StackWeighed ==
  \A n \in 1..Len(choiceStack) :
    n < Len(choiceStack) \/ choiceDepth = Len(choiceStack) - 1 =>
      choiceStack[n].probability = After(step, PickedPath(choiceStack), n)

RunsWeighed ==
  phase # "thrown" =>
    /\ Len(probabilities) = Len(transitions)
    /\ \A k \in 1..Len(transitions) : probabilities[k] = Product(step, transitions[k])

\* The finished runs have the probability of the paths before the current one.
SharesAddUp ==
  /\ firstExecutionOfMacroStep => probabilities = <<>>
  /\ phase = "step" =>
       SumOf(probabilities) = Before(step, PickedPath(choiceStack), Len(choiceStack))
  /\ phase = "prepare" /\ ~firstExecutionOfMacroStep =>
       SumOf(probabilities) = Upto(step, PickedPath(choiceStack), Len(choiceStack))
  /\ phase = "calculated" => SumOf(probabilities) = One

PayloadInv == withProbabilities => StackWeighed /\ RunsWeighed /\ SharesAddUp

\* The choices on the stack are legal ones.
LEMMA StackLegal ==
  ASSUME IInv
  PROVE  /\ step \in Steps /\ choiceStack \in Seq(Entries)
         /\ PickedPath(choiceStack) \in Seq(Nat) /\ Legal(step, PickedPath(choiceStack))
         /\ Len(PickedPath(choiceStack)) = Len(choiceStack) /\ Len(choiceStack) \in Nat
         /\ Fits(step, choiceStack)
PROOF
BY ChoicesTyped, LenProperties DEF IInv, TypeInv, Fits

LEMMA PayloadInit == Init => PayloadInv
PROOF
<1> SUFFICES ASSUME Init PROVE PayloadInv
  OBVIOUS
<1>1. /\ phase = "idle" /\ choiceStack = <<>> /\ choiceDepth = -1
      /\ firstExecutionOfMacroStep = FALSE /\ probabilities = <<>> /\ transitions = <<>>
  BY DEF Init, ResolverInit
<1>2. Len(<<>>) = 0
  BY EmptySeq
<1> QED BY <1>1, <1>2 DEF PayloadInv, StackWeighed, RunsWeighed, SharesAddUp

LEMMA CalculateKeepsPayload ==
  ASSUME IInv, PayloadInv, Calculate
  PROVE  PayloadInv'
PROOF
<1>1. /\ phase' = "prepare" /\ choiceStack' = <<>> /\ firstExecutionOfMacroStep' = TRUE
      /\ transitions' = <<>> /\ probabilities' = <<>>
  BY DEF Calculate, BeginMacroStepExecution, IInv, DepthInv
<1>2. Len(<<>>) = 0
  BY EmptySeq
<1> QED BY <1>1, <1>2 DEF PayloadInv, StackWeighed, RunsWeighed, SharesAddUp

LEMMA FirstPathKeepsPayload ==
  ASSUME IInv, PayloadInv, FirstPath
  PROVE  PayloadInv'
PROOF
<1> SUFFICES ASSUME withProbabilities PROVE (StackWeighed /\ RunsWeighed /\ SharesAddUp)'
  BY DEF PayloadInv, FirstPath, PrepareFirstPath
<1>1. /\ phase = "prepare" /\ phase' = "step" /\ choiceStack' = <<>>
      /\ firstExecutionOfMacroStep /\ firstExecutionOfMacroStep' = FALSE
      /\ step' = step /\ step \in Steps
      /\ transitions' = transitions /\ probabilities' = probabilities
  BY DEF FirstPath, PrepareFirstPath, IInv, DepthInv, TypeInv
<1>2. Len(<<>>) = 0 /\ <<>> \in Seq(Nat) /\ PickedPath(<<>>) = <<>> /\ Legal(step, <<>>)
  BY NoChoices DEF Fits
<1>3. StackWeighed'
  BY <1>1, <1>2 DEF StackWeighed
<1>4. RunsWeighed'
  BY <1>1 DEF PayloadInv, RunsWeighed
<1>5. SumOf(probabilities) = Before(step, <<>>, 0)
  <2>1. probabilities = <<>>
    BY <1>1 DEF PayloadInv, SharesAddUp
  <2>2. Before(step, <<>>, 0) = 0
    BY <1>1, <1>2, BeforeIs
  <2> QED BY <2>1, <2>2, SumOfNone
<1>6. SharesAddUp'
  BY <1>1, <1>2, <1>5 DEF SharesAddUp
<1> QED BY <1>3, <1>4, <1>6

\* Turning keeps the probabilities before the turned choice.
LEMMA TurnedKeepsProbabilities ==
  ASSUME choiceStack \in Seq(Entries), NEW i \in Nat, i < Len(Turned), i > 0
  PROVE  /\ i \in 1..Len(choiceStack)
         /\ Turned[i].probability = choiceStack[i].probability
PROOF
<1> DEFINE open == {l \in 1..Len(choiceStack) : HasNextOption(choiceStack[l])}
<1>1. open # {}
  <2> SUFFICES ASSUME open = {} PROVE FALSE
    OBVIOUS
  <2>1. Turned = <<>>
    BY DEF Turned
  <2> QED BY <2>1, EmptySeq
<1>2. PICK k \in 1..Len(choiceStack) : k = Max(open)
  <2>1. open \in SUBSET (1..Len(choiceStack)) /\ Len(choiceStack) \in Nat
    BY LenProperties
  <2>2. Max(open) \in open
    <3> HIDE DEF open
    <3> QED BY <1>1, <2>1, MaxIsLargest
  <2> QED BY <2>2
<1> DEFINE low == SubSeq(choiceStack, 1, k)
<1>3. low \in Seq(Entries) /\ Len(low) = k /\ \A j \in 1..k : low[j] = choiceStack[j]
  BY Prefix, LenProperties
<1>4. Turned = [low EXCEPT ![k].currentOption = @ + 1]
  BY <1>1, <1>2 DEF Turned
<1> HIDE DEF low
<1>5. DOMAIN low = 1..k
  BY <1>3
<1>6. Len(Turned) = k
  <2>1. DOMAIN Turned = 1..k /\ k \in Nat
    BY <1>4, <1>5
  <2>2. low[k] \in Entries /\ [low[k] EXCEPT !.currentOption = @ + 1] \in Entries
    BY <1>3, TurnedEntry, ElementOfSeq
  <2>3. Turned \in Seq(Entries)
    BY <1>3, <1>4, <2>2, ExceptSeq
  <2> QED BY <2>1, <2>3, LenProperties
<1>7. i \in 1..k - 1 /\ i \in 1..k /\ i # k /\ i \in 1..Len(choiceStack)
  BY <1>6, LenProperties
<1>8. Turned[i] = low[i]
  BY <1>4, <1>5, <1>7
<1> QED BY <1>3, <1>7, <1>8

\* Where no option is left the choice was the last one.
LEMMA NoNextOption ==
  ASSUME NEW s \in Steps, NEW stack \in Seq(Entries), Fits(s, stack), NEW l \in 1..Len(stack),
         ~HasNextOption(stack[l])
  PROVE  PickedPath(stack)[l] + 1 = Len(Weights(s, PickedPath(stack), l))
PROOF
<1>1. /\ PickedPath(stack) \in Seq(Nat) /\ Len(PickedPath(stack)) = Len(stack)
      /\ PickedPath(stack)[l] = stack[l].currentOption /\ stack[l] \in Entries
  BY ChoicesTyped
<1>2. /\ stack[l].noOfOptions = Len(Weights(s, PickedPath(stack), l))
      /\ PickedPath(stack)[l] < Len(Weights(s, PickedPath(stack), l))
  BY <1>1 DEF Fits, Legal, Weights
<1>3. stack[l].currentOption \in Nat /\ stack[l].noOfOptions \in Nat
  BY <1>1 DEF Entries
<1> QED BY <1>1, <1>2, <1>3 DEF HasNextOption

LEMMA AnotherPathKeepsPayload ==
  ASSUME IInv, PayloadInv, AnotherPath
  PROVE  PayloadInv'
PROOF
<1> SUFFICES ASSUME withProbabilities PROVE (StackWeighed /\ RunsWeighed /\ SharesAddUp)'
  BY DEF PayloadInv, AnotherPath, PrepareAnotherPath
<1>1. /\ phase = "prepare" /\ phase' = IF Turned # <<>> THEN "step" ELSE "calculated"
      /\ choiceStack' = Turned /\ choiceDepth' = -1 /\ choiceDepth = Len(choiceStack) - 1
      /\ ~firstExecutionOfMacroStep /\ firstExecutionOfMacroStep' = firstExecutionOfMacroStep
      /\ transitions' = transitions /\ step' = step /\ probabilities' = probabilities
  BY DEF AnotherPath, PrepareAnotherPath, IInv, DepthInv
<1>2. PICK c \in Seq(Nat), N \in Nat :
        /\ c = PickedPath(choiceStack) /\ Legal(step, c)
        /\ Len(c) = N /\ Len(choiceStack) = N
  BY StackLegal
<1>3. /\ step \in Steps /\ choiceStack \in Seq(Entries) /\ Fits(step, choiceStack)
  BY StackLegal
<1>4. /\ \A n \in 1..N : choiceStack[n].probability = After(step, c, n)
      /\ SumOf(probabilities) = Upto(step, c, N)
  BY <1>1, <1>2 DEF PayloadInv, StackWeighed, SharesAddUp
<1>5. RunsWeighed'
  BY <1>1 DEF PayloadInv, RunsWeighed
<1>6. CASE Turned = <<>>
  <2>1. \A l \in 1..N : ~HasNextOption(choiceStack[l])
    <3>1. ~\E k \in 1..Len(choiceStack) : Turned \in Seq(Entries) /\ Len(Turned) = k
      BY <1>2, <1>6, EmptySeq
    <3> QED BY <1>2, <1>3, <3>1, TurnedIs
  <2>2. \A l \in 0 + 1..N : c[l] + 1 = Len(Weights(step, c, l))
    BY <1>2, <1>3, <2>1, NoNextOption
  <2>3. 0 \in 0..Len(c)
    BY <1>2
  <2>4. Upto(step, c, N) = Upto(step, c, 0)
    BY <1>2, <1>3, <2>2, <2>3, OnlyLastOptions
  <2>5. Upto(step, c, 0) = One
    <3>1. Before(step, c, 0) = 0 /\ After(step, c, 0) = One
      BY <1>2, <1>3, AfterIs, BeforeIs
    <3> HIDE DEF One
    <3> QED BY <3>1, OneIsPositive DEF Upto
  <2>6. Len(<<>>) = 0
    BY EmptySeq
  <2>7. StackWeighed'
    BY <1>1, <1>6, <2>6 DEF StackWeighed
  <2>8. SharesAddUp'
    BY <1>1, <1>4, <1>6, <2>4, <2>5 DEF SharesAddUp
  <2> QED BY <1>5, <2>7, <2>8
<1>7. ASSUME NEW k \in 1..N,
             \A l \in k + 1..N : ~HasNextOption(choiceStack[l]),
             Turned \in Seq(Entries), Len(Turned) = k,
             \A i \in 1..k - 1 : PickedPath(Turned)[i] = c[i],
             PickedPath(Turned)[k] = c[k] + 1
      PROVE  (StackWeighed /\ SharesAddUp)'
  <2>1. PICK d \in Seq(Nat) : d = PickedPath(Turned) /\ Legal(step, d) /\ Len(d) = k
    <3>1. Fits(step, Turned)
      BY <1>3, TurnedFits
    <3> QED BY <1>7, <3>1, ChoicesTyped DEF Fits
  <2>2. /\ k - 1 \in Nat /\ k - 1 <= Len(c) /\ k - 1 <= Len(d)
        /\ \A i \in 1..k - 1 : c[i] = d[i]
    BY <1>2, <1>7, <2>1
  <2>3. \A n \in 0..k - 1 : After(step, c, n) = After(step, d, n)
    <3>1. PICK m \in Nat : /\ m = k - 1 /\ m <= Len(c) /\ m <= Len(d)
                           /\ \A i \in 1..m : c[i] = d[i]
      BY <2>2
    <3>2. \A n \in 0..m : After(step, c, n) = After(step, d, n)
      <4>1. step \in Steps /\ Legal(step, c) /\ Legal(step, d)
        BY <1>2, <1>3, <2>1
      <4> QED BY <3>1, <4>1, SameFirstChoices
    <3> QED BY <3>1, <3>2
  <2>4. Before(step, d, k) = Upto(step, c, k)
    <3>1. k \in 1..Len(c) /\ k <= Len(d) /\ d[k] = c[k] + 1
      BY <1>2, <1>7, <2>1
    <3> QED BY <1>2, <1>3, <2>1, <2>2, <3>1, NextOption
  <2>5. Upto(step, c, N) = Upto(step, c, k)
    <3>1. \A l \in k + 1..Len(c) : c[l] + 1 = Len(Weights(step, c, l))
      <4> TAKE l \in k + 1..Len(c)
      <4>1. l \in 1..Len(choiceStack) /\ ~HasNextOption(choiceStack[l])
        BY <1>2, <1>7
      <4> QED BY <1>2, <1>3, <4>1, NoNextOption
    <3>2. k \in 0..Len(c)
      BY <1>2
    <3> QED BY <1>2, <1>3, <3>1, <3>2, OnlyLastOptions
  <2>6. ASSUME NEW n \in 1..k, n < k \/ -1 = k - 1
        PROVE  Turned[n].probability = After(step, d, n)
    <3>1. n \in Nat /\ n < Len(Turned) /\ n > 0 /\ n \in 0..k - 1 /\ n \in 1..N
      BY <1>7, <2>6
    <3>2. Turned[n].probability = choiceStack[n].probability
      BY <1>3, <3>1, TurnedKeepsProbabilities
    <3> QED BY <1>4, <2>3, <3>1, <3>2
  <2>7. StackWeighed'
    BY <1>1, <1>7, <2>1, <2>6 DEF StackWeighed
  <2>8. Turned # <<>>
    BY <1>7, EmptySeq
  <2>9. SharesAddUp'
    BY <1>1, <1>4, <1>7, <2>1, <2>4, <2>5, <2>8 DEF SharesAddUp
  <2> QED BY <2>7, <2>9
<1> QED
  <2>1. CASE Turned # <<>>
    <3>1. \E k \in 1..N :
            /\ \A l \in k + 1..N : ~HasNextOption(choiceStack[l])
            /\ Turned \in Seq(Entries) /\ Len(Turned) = k
            /\ \A i \in 1..k - 1 : PickedPath(Turned)[i] = c[i]
            /\ PickedPath(Turned)[k] = c[k] + 1
      BY <1>2, <1>3, <2>1, TurnedIs
    <3> QED BY <1>5, <1>7, <3>1
  <2> QED BY <1>6, <2>1

\* The probability from which a choice starts.
LEMMA PreviousIs ==
  ASSUME IInv, StackWeighed, phase = "step"
  PROVE  PreviousProbability = After(step, PickedPath(choiceStack), choiceDepth + 1)
PROOF
<1>1. choiceDepth \in -1..Len(choiceStack) - 1 /\ Len(choiceStack) \in Nat
  BY StackLegal DEF IInv, TypeInv
<1>2. CASE choiceDepth = -1
  <2>1. PreviousProbability = One
    BY <1>2 DEF PreviousProbability
  <2>2. After(step, PickedPath(choiceStack), 0) = One
    BY StackLegal, AfterIs
  <2> QED BY <1>2, <2>1, <2>2
<1>3. CASE choiceDepth >= 0
  <2>1. PICK n \in 1..Len(choiceStack) : n = choiceDepth + 1
    BY <1>1, <1>3
  <2>2. n < Len(choiceStack) \/ choiceDepth = Len(choiceStack) - 1
    BY <1>1, <2>1
  <2>3. choiceStack[n].probability = After(step, PickedPath(choiceStack), n)
    BY <2>2 DEF StackWeighed
  <2>4. PreviousProbability = choiceStack[n].probability
    BY <1>1, <1>3, <2>1 DEF PreviousProbability
  <2> QED BY <2>1, <2>3, <2>4
<1> QED BY <1>1, <1>2, <1>3

LEMMA ReplayKeepsPayload ==
  ASSUME IInv, PayloadInv, Replay
  PROVE  PayloadInv'
PROOF
<1>1. /\ phase = "step" /\ choiceDepth + 1 < Len(choiceStack)
      /\ choiceDepth' = choiceDepth + 1
  BY DEF Replay, ChooseAgain
<1>2. /\ phase' = phase /\ step' = step /\ transitions' = transitions
      /\ probabilities' = probabilities /\ withProbabilities' = withProbabilities
      /\ firstExecutionOfMacroStep' = firstExecutionOfMacroStep
  BY <1>1, ChoosingKeeps
<1> SUFFICES ASSUME withProbabilities PROVE (StackWeighed /\ RunsWeighed /\ SharesAddUp)'
  BY <1>2 DEF PayloadInv
<1>3. PICK c \in Seq(Nat), N \in Nat :
        /\ c = PickedPath(choiceStack) /\ Legal(step, c)
        /\ Len(c) = N /\ Len(choiceStack) = N
  BY StackLegal
<1>4. step \in Steps /\ choiceStack \in Seq(Entries) /\ ~firstExecutionOfMacroStep
  BY <1>1, StackLegal, RunOnStack DEF IInv
<1>5. PICK n \in 1..N : /\ n = choiceDepth + 2 /\ n - 1 = choiceDepth + 1
                        /\ ReplayedOption = c[n] /\ path = SubSeq(c, 1, n - 1)
  <2>1. choiceDepth + 2 \in 1..N /\ (choiceDepth + 2) - 1 = choiceDepth + 1
    BY <1>1, <1>3 DEF IInv, TypeInv
  <2> QED BY <1>1, <1>3, <2>1, RunOnStack DEF IInv, DepthInv
<1>6. /\ \A m \in 1..N : m < N => choiceStack[m].probability = After(step, c, m)
      /\ SumOf(probabilities) = Before(step, c, N)
  BY <1>1, <1>3 DEF PayloadInv, StackWeighed, SharesAddUp
<1>7. RunsWeighed'
  BY <1>1, <1>2 DEF PayloadInv, RunsWeighed
<1>8. choiceStack' = IF n = N
                     THEN [choiceStack EXCEPT ![n].probability = After(step, c, n)]
                     ELSE choiceStack
  <2>1. choiceStack' = IF n = N
                       THEN [choiceStack EXCEPT ![n].probability =
                               Times(step[path][c[n] + 1], PreviousProbability)]
                       ELSE choiceStack
    BY <1>3, <1>5 DEF Replay, ChooseAgain
  <2>2. PreviousProbability = After(step, c, n - 1)
    BY <1>1, <1>3, <1>5, PreviousIs DEF PayloadInv
  <2>3. step[path] = Weights(step, c, n)
    BY <1>5 DEF Weights
  <2>4. After(step, c, n) = (Weights(step, c, n)[c[n] + 1] * After(step, c, n - 1)) \div Weight
    BY <1>3, <1>4, AfterIs
  <2>5. Times(step[path][c[n] + 1], PreviousProbability) = After(step, c, n)
    BY <2>2, <2>3, <2>4 DEF Times
  <2> QED BY <2>1, <2>5
<1>9. /\ Len(choiceStack') = N
      /\ \A m \in 1..N : choiceStack'[m].currentOption = choiceStack[m].currentOption
      /\ \A m \in 1..N : m < N => choiceStack'[m].probability = choiceStack[m].probability
      /\ n = N => choiceStack'[N].probability = After(step, c, N)
  <2>1. CASE n # N
    BY <1>3, <1>8, <2>1
  <2>2. CASE n = N
    <3>1. DOMAIN choiceStack = 1..N /\ choiceStack[N] \in Entries /\ N \in 1..N
      BY <1>3, <1>4, <2>2, ElementOfSeq, LenProperties
    <3>2. choiceStack' = [choiceStack EXCEPT ![N].probability = After(step, c, N)]
      BY <1>8, <2>2
    <3>3. choiceStack' \in Seq(Entries)
      BY ReplayKeeps DEF IInv, TypeInv
    <3>4. DOMAIN choiceStack' = 1..N
      BY <3>1, <3>2
    <3>5. Len(choiceStack') = N
      BY <3>3, <3>4, LenProperties
    <3>6. \A m \in 1..N : m # N => choiceStack'[m] = choiceStack[m]
      BY <3>1, <3>2
    <3>7. choiceStack'[N] = [choiceStack[N] EXCEPT !.probability = After(step, c, N)]
      BY <3>1, <3>2
    <3>8. /\ choiceStack'[N].probability = After(step, c, N)
          /\ choiceStack'[N].currentOption = choiceStack[N].currentOption
      BY <3>1, <3>7 DEF Entries
    <3> QED BY <3>5, <3>6, <3>8
  <2> QED BY <2>1, <2>2
<1>10. PickedPath(choiceStack') = c
  BY <1>3, <1>9 DEF PickedPath
<1>11. StackWeighed'
  <2>1. ASSUME NEW m \in 1..N, m < N \/ choiceDepth' = N - 1
        PROVE  choiceStack'[m].probability = After(step, c, m)
    <3>1. CASE m < N
      BY <1>6, <1>9, <3>1
    <3>2. CASE m = N /\ n = N
      BY <1>9, <3>2
    <3>3. m < N \/ (m = N /\ n = N)
      BY <1>1, <1>5, <2>1
    <3> QED BY <3>1, <3>2, <3>3
  <2> QED BY <1>2, <1>9, <1>10, <2>1 DEF StackWeighed
<1>12. SharesAddUp'
  BY <1>1, <1>2, <1>4, <1>6, <1>9, <1>10 DEF SharesAddUp
<1> QED BY <1>7, <1>11, <1>12

LEMMA ExploreKeepsPayload ==
  ASSUME IInv, PayloadInv, Explore
  PROVE  PayloadInv'
PROOF
<1>1. /\ phase = "step" /\ ~Ends(step, path) /\ choiceDepth + 1 >= Len(choiceStack)
      /\ choiceDepth' = choiceDepth + 1
  BY DEF Explore, ChooseFirst
<1>2. /\ phase' = phase /\ step' = step /\ transitions' = transitions
      /\ probabilities' = probabilities /\ withProbabilities' = withProbabilities
      /\ firstExecutionOfMacroStep' = firstExecutionOfMacroStep
  BY <1>1, ChoosingKeeps
<1> SUFFICES ASSUME withProbabilities PROVE (StackWeighed /\ RunsWeighed /\ SharesAddUp)'
  BY <1>2 DEF PayloadInv
<1>3. PICK c \in Seq(Nat), N \in Nat :
        /\ c = PickedPath(choiceStack) /\ Legal(step, c)
        /\ Len(c) = N /\ Len(choiceStack) = N
  BY StackLegal
<1>4. step \in Steps /\ choiceStack \in Seq(Entries) /\ ~firstExecutionOfMacroStep
  BY <1>1, StackLegal, RunOnStack DEF IInv
<1>5. path = c /\ choiceDepth + 1 = N /\ choiceDepth = N - 1
  <2>1. choiceDepth + 1 \in 0..Len(choiceStack) /\ path = c
    BY <1>1, <1>3, RunOnStack DEF IInv
  <2>2. choiceDepth \in Int
    BY StackLegal DEF IInv, TypeInv
  <2> QED BY <1>1, <1>3, <2>1, <2>2
<1>6. /\ \A m \in 1..N : choiceStack[m].probability = After(step, c, m)
      /\ SumOf(probabilities) = Before(step, c, N)
  BY <1>1, <1>3, <1>5 DEF PayloadInv, StackWeighed, SharesAddUp
<1>7. RunsWeighed'
  BY <1>1, <1>2 DEF PayloadInv, RunsWeighed
<1>8. IInv'
  BY ExploreKeeps
<1>9. PICK d \in Seq(Nat) : d = PickedPath(choiceStack') /\ Legal(step, d) /\ Len(d) = Len(choiceStack')
  <2>1. /\ choiceStack' \in Seq(Entries) /\ Fits(step, choiceStack)'
    BY <1>8 DEF IInv, TypeInv
  <2>2. Legal(step, PickedPath(choiceStack'))
    BY <1>2, <2>1 DEF Fits, Legal, PickedPath, Ends
  <2> QED BY <2>1, <2>2, ChoicesTyped
<1>10. PICK e : /\ choiceStack' = Append(choiceStack, e) /\ e.currentOption = 0
                /\ e.probability = Times(step[c][1], PreviousProbability)
  <2> DEFINE r == [probability   |-> Times(step[c][1], PreviousProbability),
                   currentOption |-> 0,
                   noOfOptions   |-> Len(step[c])]
  <2>1. choiceStack' = Append(choiceStack, r)
    BY <1>5 DEF Explore, ChooseFirst
  <2>2. r.currentOption = 0 /\ r.probability = Times(step[c][1], PreviousProbability)
    OBVIOUS
  <2> QED BY <2>1, <2>2
<1>11. /\ Len(choiceStack') = N + 1 /\ choiceStack'[N + 1] = e
       /\ \A m \in 1..N : choiceStack'[m] = choiceStack[m]
  BY <1>3, <1>4, <1>10
<1>12. d[N + 1] = 0 /\ \A m \in 1..N : d[m] = c[m]
  BY <1>3, <1>9, <1>10, <1>11 DEF PickedPath
<1>13. /\ \A m \in 0..N : After(step, d, m) = After(step, c, m)
       /\ \A m \in 0..N : Before(step, d, m) = Before(step, c, m)
  <2>1. N <= Len(d) /\ N <= Len(c)
    BY <1>3, <1>9, <1>11
  <2> QED BY <1>3, <1>4, <1>9, <1>12, <2>1, SameFirstChoices
<1>14. N + 1 \in 1..Len(d) /\ (N + 1) - 1 = N /\ N \in 0..N
  BY <1>3, <1>9, <1>11
<1>15. choiceStack'[N + 1].probability = After(step, d, N + 1)
  <2>1. PreviousProbability = After(step, d, N)
    BY <1>1, <1>3, <1>5, <1>13, <1>14, PreviousIs DEF PayloadInv
  <2>2. step[c] = Weights(step, d, N + 1)
    <3>1. SubSeq(d, 1, N) = SubSeq(c, 1, N)
      BY <1>3, <1>9, <1>11, <1>12, SamePrefix
    <3>2. SubSeq(c, 1, N) = c
      BY <1>3, SubSeqFull
    <3> QED BY <1>14, <3>1, <3>2 DEF Weights
  <2>3. After(step, d, N + 1) = (Weights(step, d, N + 1)[d[N + 1] + 1] * After(step, d, N)) \div Weight
    BY <1>4, <1>9, <1>14, AfterIs
  <2>4. After(step, d, N + 1) = (step[c][1] * PreviousProbability) \div Weight
    BY <1>12, <2>1, <2>2, <2>3
  <2> QED BY <1>10, <1>11, <2>4 DEF Times
<1>16. StackWeighed'
  <2>1. ASSUME NEW m \in 1..N + 1 PROVE choiceStack'[m].probability = After(step, d, m)
    <3>1. CASE m \in 1..N
      BY <1>6, <1>11, <1>13, <3>1
    <3>2. CASE m = N + 1
      BY <1>15, <3>2
    <3> QED BY <1>3, <3>1, <3>2
  <2> QED BY <1>2, <1>9, <1>11, <2>1 DEF StackWeighed
<1>17. SharesAddUp'
  <2>1. Before(step, d, N + 1) = Before(step, d, N)
    BY <1>4, <1>9, <1>12, <1>14, FirstOption
  <2>2. SumOf(probabilities) = Before(step, d, N + 1)
    BY <1>6, <1>13, <1>14, <2>1
  <2> QED BY <1>1, <1>2, <1>4, <1>9, <1>11, <2>2 DEF SharesAddUp
<1> QED BY <1>7, <1>16, <1>17

LEMMA EndOfStepKeepsPayload ==
  ASSUME IInv, PayloadInv, EndOfStep
  PROVE  PayloadInv'
PROOF
<1>1. /\ phase = "step" /\ Ends(step, path) /\ step' = step
      /\ choiceStack' = choiceStack /\ choiceDepth' = choiceDepth
      /\ firstExecutionOfMacroStep' = firstExecutionOfMacroStep
      /\ withProbabilities' = withProbabilities
      /\ \/ phase' = "prepare" /\ transitions' = Append(transitions, path)
         \/ phase' = "thrown"
  BY DEF EndOfStep, StepFinished
<1> SUFFICES ASSUME withProbabilities PROVE (StackWeighed /\ RunsWeighed /\ SharesAddUp)'
  BY <1>1 DEF PayloadInv
<1>2. PICK c \in Seq(Nat), N \in Nat :
        /\ c = PickedPath(choiceStack) /\ Legal(step, c)
        /\ Len(c) = N /\ Len(choiceStack) = N
  BY StackLegal
<1>3. /\ step \in Steps /\ choiceStack \in Seq(Entries) /\ ~firstExecutionOfMacroStep
      /\ transitions \in Seq(Seq(Nat)) /\ probabilities \in Seq(0..One)
      /\ Len(transitions) \in Nat
  BY <1>1, StackLegal, RunOnStack, LenProperties DEF IInv, TypeInv
<1>4. path = c /\ choiceDepth = N - 1
  <2>1. /\ choiceDepth + 1 \in 0..Len(choiceStack)
        /\ choiceDepth + 1 < Len(choiceStack) => ~Ends(step, path)
        /\ choiceDepth + 1 >= Len(choiceStack) => path = c
    BY <1>1, <1>2, RunOnStack DEF IInv
  <2>2. choiceDepth \in Int
    BY DEF IInv, TypeInv
  <2> QED BY <1>1, <1>2, <2>1, <2>2
<1>5. /\ \A m \in 1..N : choiceStack[m].probability = After(step, c, m)
      /\ SumOf(probabilities) = Before(step, c, N)
      /\ Len(probabilities) = Len(transitions)
      /\ \A k \in 1..Len(transitions) : probabilities[k] = Product(step, transitions[k])
  BY <1>1, <1>2, <1>4 DEF PayloadInv, StackWeighed, RunsWeighed, SharesAddUp
<1>6. StackWeighed'
  BY <1>1, <1>2, <1>5 DEF StackWeighed
<1>7. PICK q : q = After(step, c, N) /\ probabilities' = Append(probabilities, q)
  <2>1. CASE choiceStack = <<>>
    <3>1. N = 0
      BY <1>2, <2>1, EmptySeq
    <3>2. After(step, c, N) = One
      BY <1>2, <1>3, <3>1, AfterIs
    <3> QED BY <2>1, <3>2 DEF EndOfStep, StepFinished
  <2>2. CASE choiceStack # <<>>
    <3>1. N \in 1..N
      BY <1>2, <1>3, <2>2, EmptySeq
    <3>2. Last(choiceStack).probability = After(step, c, N)
      BY <1>2, <1>5, <3>1 DEF Last
    <3> QED BY <2>2, <3>2 DEF EndOfStep, StepFinished
  <2> QED BY <2>1, <2>2
<1>8. q \in Int /\ q = Product(step, c)
  <2>1. N \in 0..Len(c)
    BY <1>2
  <2> QED BY <1>2, <1>3, <1>7, <2>1, AfterIs
<1>9. RunsWeighed'
  <2> SUFFICES ASSUME phase' # "thrown"
               PROVE  /\ Len(probabilities') = Len(transitions')
                      /\ \A k \in 1..Len(transitions') :
                           probabilities'[k] = Product(step, transitions'[k])
    BY <1>1 DEF RunsWeighed
  <2>1. transitions' = Append(transitions, c)
    BY <1>1, <1>4
  <2>2. /\ Len(transitions') = Len(transitions) + 1
        /\ transitions'[Len(transitions) + 1] = c
        /\ \A k \in 1..Len(transitions) : transitions'[k] = transitions[k]
    BY <1>2, <1>3, <2>1
  <2>3. /\ Len(probabilities') = Len(transitions) + 1
        /\ probabilities'[Len(transitions) + 1] = q
        /\ \A k \in 1..Len(transitions) : probabilities'[k] = probabilities[k]
    BY <1>3, <1>5, <1>7
  <2>4. ASSUME NEW k \in 1..Len(transitions) + 1
        PROVE  probabilities'[k] = Product(step, transitions'[k])
    <3>1. CASE k \in 1..Len(transitions)
      BY <1>5, <2>2, <2>3, <3>1
    <3>2. CASE k = Len(transitions) + 1
      BY <1>8, <2>2, <2>3, <3>2
    <3> QED BY <1>3, <3>1, <3>2
  <2> QED BY <2>2, <2>3, <2>4
<1>10. SharesAddUp'
  <2>1. probabilities \in Seq(Int)
    <3>1. \A k \in 1..Len(probabilities) : probabilities[k] \in Int
      <4> TAKE k \in 1..Len(probabilities)
      <4>1. probabilities[k] \in 0..One
        BY <1>3, ElementOfSeq
      <4> HIDE DEF One
      <4> QED BY <4>1, OneIsPositive
    <3>2. /\ Len(probabilities) \in Nat
          /\ probabilities = [k \in 1..Len(probabilities) |-> probabilities[k]]
      BY <1>3, LenProperties
    <3>3. probabilities \in [1..Len(probabilities) -> Int]
      BY <3>1, <3>2
    <3> QED BY <3>2, <3>3, SeqDef
  <2>2. SumOf(probabilities') = SumOf(probabilities) + q
    BY <1>7, <1>8, <2>1, SumOfAppend
  <2>3. SumOf(probabilities') = Upto(step, c, N)
    BY <1>5, <1>7, <2>2 DEF Upto
  <2>4. phase' \notin {"step", "calculated"}
    BY <1>1
  <2>5. SumOf(probabilities)' = SumOf(probabilities')
    BY DEF SumOf, SumTo
  <2> QED BY <1>1, <1>2, <1>3, <2>3, <2>4, <2>5 DEF SharesAddUp
<1> QED BY <1>6, <1>9, <1>10

LEMMA HandOutKeepsPayload ==
  ASSUME PayloadInv, HandOut \/ UNCHANGED vars
  PROVE  PayloadInv'
PROOF
<1>1. /\ phase' = phase \/ (phase = "calculated" /\ phase' = "idle")
      /\ step' = step /\ choiceStack' = choiceStack /\ choiceDepth' = choiceDepth
      /\ firstExecutionOfMacroStep' = firstExecutionOfMacroStep
      /\ withProbabilities' = withProbabilities /\ probabilities' = probabilities
      /\ transitions' = transitions
  BY DEF HandOut, vars, resolver
<1> SUFFICES ASSUME withProbabilities PROVE (StackWeighed /\ RunsWeighed /\ SharesAddUp)'
  BY <1>1 DEF PayloadInv
<1>2. StackWeighed'
  BY <1>1 DEF PayloadInv, StackWeighed
<1>3. RunsWeighed'
  BY <1>1 DEF PayloadInv, RunsWeighed
<1>4. SharesAddUp'
  BY <1>1 DEF PayloadInv, SharesAddUp
<1> QED BY <1>2, <1>3, <1>4

\* The payload handed out beside the transitions is a distribution: entry k is
\* the product along transition k's path, although only the last entry of the
\* stack is calculated anew, and together they are One without any rest.
THEOREM PayloadIsDistributionHolds == Spec => []PayloadIsDistribution
PROOF
<1>1. Init => IInv /\ PayloadInv
  BY InitIInv, PayloadInit
<1>2. IInv /\ [Next]_vars => IInv'
  BY CalculateKeeps, FirstPathKeeps, AnotherPathKeeps, ReplayKeeps, ExploreKeeps,
     EndOfStepKeeps, HandOutKeeps DEF Next, Run
<1>3. IInv /\ PayloadInv /\ [Next]_vars => PayloadInv'
  BY CalculateKeepsPayload, FirstPathKeepsPayload, AnotherPathKeepsPayload,
     ReplayKeepsPayload, ExploreKeepsPayload, EndOfStepKeepsPayload,
     HandOutKeepsPayload DEF Next, Run
<1>4. PayloadInv => PayloadIsDistribution
  BY DEF PayloadInv, RunsWeighed, SharesAddUp, PayloadIsDistribution, CustomPayload
<1> QED BY <1>1, <1>2, <1>3, <1>4, PTL DEF Spec

=============================================================================
