----------------------------- MODULE SumsProofs -----------------------------
(***************************************************************************)
(* Induction over the numbers, functions defined by recursion on them, and *)
(* the sums of the entries of a sequence.                                  *)
(***************************************************************************)
EXTENDS Sums, SequenceTheorems, WellFoundedInduction, TLAPS

\* A set of natural numbers that is not empty has a least one.
LEMMA LeastExists ==
  ASSUME NEW S \in SUBSET Nat, S # {}
  PROVE  \E x \in S : \A y \in S : x <= y
PROOF
<1> DEFINE R == OpToRel(<, Nat)
<1>1. \E x \in S : \A y \in S : ~(<<y, x>> \in R)
  <2>1. IsWellFoundedOn(R, Nat)
    BY NatLessThanWellFounded
  <2> HIDE DEF R
  <2> QED BY <2>1, WFMin
<1>2. PICK x \in S : \A y \in S : ~(<<y, x>> \in R)
  BY <1>1
<1>3. \A y \in S : ~(y < x)
  <2> SUFFICES ASSUME NEW y \in S, y < x PROVE FALSE
    OBVIOUS
  <2>1. <<y, x>> \in R
    BY DEF OpToRel
  <2> QED BY <1>2, <2>1
<1> QED BY <1>3

\* A set of natural numbers with 0 and with the successors of its members.
LEMMA AllByInduction ==
  ASSUME NEW S \in SUBSET Nat, 0 \in S, \A n \in S : n + 1 \in S
  PROVE  S = Nat
PROOF
<1> DEFINE bad == Nat \ S
<1> SUFFICES ASSUME bad # {} PROVE FALSE
  OBVIOUS
<1>1. PICK n \in bad : \A k \in bad : n <= k
  <2>1. bad \in SUBSET Nat
    OBVIOUS
  <2> HIDE DEF bad
  <2> QED BY <2>1, LeastExists
<1>2. n \in Nat /\ n \notin S /\ n # 0
  OBVIOUS
<1>3. n - 1 \in Nat /\ n - 1 \notin bad
  <2>1. n - 1 \in Nat /\ ~(n <= n - 1)
    BY <1>2
  <2> HIDE DEF bad
  <2> QED BY <1>1, <2>1
<1>4. n - 1 \in S
  BY <1>3
<1> QED BY <1>2, <1>3, <1>4

\* Values of which each follows from the one before.
IsRun(f, a, g, m) == f[0] = a /\ \A n \in 1..m : f[n] = g[n][f[n - 1]]

LEMMA RecursionExists ==
  ASSUME NEW S, NEW N \in Nat, NEW a \in S, NEW g \in [1..N -> [S -> S]]
  PROVE  \E f \in [0..N -> S] : IsRun(f, a, g, N)
PROOF
<1> DEFINE bad == {m \in 0..N : ~\E f \in [0..N -> S] : IsRun(f, a, g, m)}
<1> SUFFICES ASSUME bad # {} PROVE FALSE
  <2>1. N \in 0..N
    OBVIOUS
  <2> QED BY <2>1
<1>1. PICK m \in bad : \A k \in bad : m <= k
  <2>1. bad \in SUBSET Nat
    OBVIOUS
  <2> HIDE DEF bad
  <2> QED BY <2>1, LeastExists
<1>2. m \in 0..N /\ ~\E f \in [0..N -> S] : IsRun(f, a, g, m)
  OBVIOUS
<1>3. m # 0
  <2>1. IsRun([n \in 0..N |-> a], a, g, 0)
    BY DEF IsRun
  <2>2. [n \in 0..N |-> a] \in [0..N -> S]
    OBVIOUS
  <2> QED BY <1>2, <2>1, <2>2
<1>4. m - 1 \in 0..N /\ m - 1 \notin bad
  <2> HIDE DEF bad
  <2> QED BY <1>1, <1>2, <1>3
<1>5. PICK f \in [0..N -> S] : IsRun(f, a, g, m - 1)
  BY <1>4
<1> DEFINE h == [f EXCEPT ![m] = g[m][f[m - 1]]]
<1>6. g[m] \in [S -> S] /\ f[m - 1] \in S
  <2>1. m \in 1..N
    BY <1>2, <1>3
  <2> HIDE DEF bad
  <2> QED BY <1>4, <2>1
<1>7. h \in [0..N -> S] /\ h[m] = g[m][f[m - 1]] /\ \A n \in 0..N : n # m => h[n] = f[n]
  BY <1>2, <1>6
<1> HIDE DEF h
<1>8. IsRun(h, a, g, m)
  <2>1. h[0] = a
    BY <1>3, <1>5, <1>7 DEF IsRun
  <2>2. ASSUME NEW n \in 1..m PROVE h[n] = g[n][h[n - 1]]
    <3>1. n - 1 \in 0..N /\ n - 1 # m /\ n \in 0..N
      BY <1>2
    <3>2. h[n - 1] = f[n - 1]
      BY <1>7, <3>1
    <3>3. CASE n = m
      BY <1>7, <3>2, <3>3
    <3>4. CASE n # m
      <4>1. n \in 1..m - 1
        BY <1>2, <3>4
      <4> QED BY <1>5, <1>7, <3>1, <3>2, <3>4, <4>1 DEF IsRun
    <3> QED BY <3>3, <3>4
  <2> QED BY <1>7, <2>1, <2>2 DEF IsRun
<1> QED BY <1>2, <1>7, <1>8

GoTogether(f, h, m) ==
  f[0] = h[0] /\ \A n \in 1..m : f[n - 1] = h[n - 1] => f[n] = h[n]

LEMMA RecursionIsUnique ==
  ASSUME NEW m \in Nat, NEW f, NEW h, GoTogether(f, h, m)
  PROVE  \A n \in 0..m : f[n] = h[n]
PROOF
<1> DEFINE bad == {n \in 0..m : f[n] # h[n]}
<1> SUFFICES ASSUME bad # {} PROVE FALSE
  OBVIOUS
<1>1. PICK n \in bad : \A k \in bad : n <= k
  <2>1. bad \in SUBSET Nat
    OBVIOUS
  <2> HIDE DEF bad
  <2> QED BY <2>1, LeastExists
<1>2. n \in 0..m /\ f[n] # h[n]
  OBVIOUS
<1>3. n \in 1..m /\ n - 1 \in 0..m
  <2>1. n # 0
    BY <1>2 DEF GoTogether
  <2> QED BY <1>2, <2>1
<1>4. n - 1 \notin bad
  <2> HIDE DEF bad
  <2> QED BY <1>1, <1>3
<1> QED BY <1>2, <1>3, <1>4 DEF GoTogether

\* A function on all numbers, each of whose values follows from the one before.
IsChainOf(f, a, g) == f[0] = a /\ \A n \in Nat : f[n + 1] = g[f[n]]

LEMMA ChainExists ==
  ASSUME NEW S, NEW a \in S, NEW g \in [S -> S]
  PROVE  \E f \in [Nat -> S] : IsChainOf(f, a, g)
PROOF
<1> DEFINE G(N) == [n \in 1..N |-> g]
           run(N) == CHOOSE f \in [0..N -> S] : IsRun(f, a, G(N), N)
           chain == [n \in Nat |-> run(n)[n]]
<1>1. ASSUME NEW N \in Nat
      PROVE  run(N) \in [0..N -> S] /\ IsRun(run(N), a, G(N), N)
  <2>1. G(N) \in [1..N -> [S -> S]]
    OBVIOUS
  <2>2. \E f \in [0..N -> S] : IsRun(f, a, G(N), N)
    <3> HIDE DEF G
    <3> QED BY <2>1, RecursionExists, Zenon
  <2> HIDE DEF G
  <2> QED BY <2>2
<1>2. ASSUME NEW N \in Nat
      PROVE  /\ run(N) \in [0..N -> S] /\ run(N)[0] = a
             /\ \A n \in 1..N : run(N)[n] = g[run(N)[n - 1]]
  <2> HIDE DEF run
  <2> QED BY <1>1 DEF IsRun
<1> HIDE DEF run
<1>3. ASSUME NEW N \in Nat
      PROVE  run(N + 1)[N] = run(N)[N]
  <2>1. GoTogether(run(N + 1), run(N), N)
    <3>1. run(N + 1)[0] = run(N)[0]
      BY <1>2
    <3>2. ASSUME NEW n \in 1..N, run(N + 1)[n - 1] = run(N)[n - 1]
          PROVE  run(N + 1)[n] = run(N)[n]
      <4>1. n \in 1..N + 1 /\ N + 1 \in Nat
        OBVIOUS
      <4>2. run(N + 1)[n] = g[run(N + 1)[n - 1]]
        BY <1>2, <4>1
      <4> QED BY <1>2, <3>2, <4>2
    <3> QED BY <3>1, <3>2 DEF GoTogether
  <2>2. \A n \in 0..N : run(N + 1)[n] = run(N)[n]
    BY <2>1, RecursionIsUnique
  <2> QED BY <2>2
<1>4. chain \in [Nat -> S]
  <2>1. ASSUME NEW n \in Nat PROVE run(n)[n] \in S
    BY <1>2
  <2> QED BY <2>1
<1>5. chain[0] = a
  BY <1>2
<1>6. ASSUME NEW n \in Nat PROVE chain[n + 1] = g[chain[n]]
  <2>1. n + 1 \in Nat /\ n + 1 \in 1..n + 1 /\ (n + 1) - 1 = n
    OBVIOUS
  <2>2. run(n + 1)[n + 1] = g[run(n + 1)[n]]
    BY <1>2, <2>1
  <2>3. run(n + 1)[n + 1] = g[run(n)[n]]
    BY <1>3, <2>2
  <2> QED BY <2>1, <2>3
<1> HIDE DEF chain
<1> QED BY <1>4, <1>5, <1>6 DEF IsChainOf

\* The sums of the first entries of a sequence of numbers.
LEMMA SumToIs ==
  ASSUME NEW p \in Seq(Int)
  PROVE  /\ SumTo(p, 0) = 0
         /\ \A n \in 0..Len(p) : SumTo(p, n) \in Int
         /\ \A n \in 1..Len(p) : SumTo(p, n) = SumTo(p, n - 1) + p[n]
PROOF
<1> DEFINE N == Len(p)
           sum == CHOOSE f : f = [k \in 0..N |-> IF k = 0 THEN 0 ELSE f[k - 1] + p[k]]
           g == [n \in 1..N |-> [x \in Int |-> x + p[n]]]
<1>1. N \in Nat /\ \A n \in 1..N : p[n] \in Int
  BY LenProperties, ElementOfSeq
<1>2. g \in [1..N -> [Int -> Int]]
  BY <1>1
<1>3. PICK f \in [0..N -> Int] : IsRun(f, 0, g, N)
  <2>1. N \in Nat /\ 0 \in Int
    BY <1>1
  <2> HIDE DEF g, N
  <2> QED BY <1>2, <2>1, RecursionExists, Zenon
<1>4. \A n \in 1..N : f[n] = f[n - 1] + p[n]
  <2> TAKE n \in 1..N
  <2>1. n - 1 \in 0..N
    BY <1>1
  <2>2. f[n - 1] \in Int
    BY <2>1
  <2>3. g[n][f[n - 1]] = f[n - 1] + p[n]
    BY <2>2
  <2> QED BY <1>3, <2>3 DEF IsRun
<1>5. f = [k \in 0..N |-> IF k = 0 THEN 0 ELSE f[k - 1] + p[k]]
  BY <1>1, <1>3, <1>4 DEF IsRun
<1>6. sum = [k \in 0..N |-> IF k = 0 THEN 0 ELSE sum[k - 1] + p[k]]
  BY <1>5
<1>7. \A n : SumTo(p, n) = sum[n]
  BY DEF SumTo
<1> HIDE DEF sum
<1>8. sum[0] = 0 /\ \A n \in 1..N : sum[n] = sum[n - 1] + p[n]
  BY <1>1, <1>6
<1>9. \A n \in 0..N : sum[n] = f[n]
  <2>1. GoTogether(sum, f, N)
    BY <1>3, <1>4, <1>8 DEF IsRun, GoTogether
  <2> HIDE DEF N, g
  <2> QED BY <1>1, <2>1, RecursionIsUnique
<1> QED BY <1>1, <1>3, <1>7, <1>8, <1>9

LEMMA SumOfAppend ==
  ASSUME NEW p \in Seq(Int), NEW x \in Int
  PROVE  SumOf(Append(p, x)) = SumOf(p) + x /\ SumOf(p) \in Int
PROOF
<1> DEFINE q == Append(p, x)
           N == Len(p)
           f == [n \in 0..N |-> SumTo(p, n)]
           h == [n \in 0..N |-> SumTo(q, n)]
<1>1. /\ q \in Seq(Int) /\ N \in Nat /\ Len(q) = N + 1 /\ q[N + 1] = x
      /\ \A n \in 1..N : q[n] = p[n]
  BY AppendProperties, LenProperties
<1> HIDE DEF q
<1>2. /\ SumTo(p, 0) = 0
      /\ \A n \in 0..N : SumTo(p, n) \in Int
      /\ \A n \in 1..N : SumTo(p, n) = SumTo(p, n - 1) + p[n]
  BY SumToIs
<1>3. /\ SumTo(q, 0) = 0
      /\ \A n \in 1..N + 1 : SumTo(q, n) = SumTo(q, n - 1) + q[n]
  BY <1>1, SumToIs
<1>4. GoTogether(f, h, N)
  <2>1. f[0] = h[0]
    BY <1>1, <1>2, <1>3
  <2>2. ASSUME NEW n \in 1..N, f[n - 1] = h[n - 1] PROVE f[n] = h[n]
    <3>1. n - 1 \in 0..N /\ n \in 0..N /\ n \in 1..N + 1
      BY <1>1
    <3>2. SumTo(p, n - 1) = SumTo(q, n - 1)
      BY <2>2, <3>1
    <3>3. SumTo(p, n) = SumTo(q, n)
      BY <1>1, <1>2, <1>3, <3>1, <3>2
    <3> QED BY <3>1, <3>3
  <2> QED BY <2>1, <2>2 DEF GoTogether
<1>5. f[N] = h[N]
  <2> HIDE DEF f, h, N
  <2>1. \A n \in 0..N : f[n] = h[n]
    BY <1>1, <1>4, RecursionIsUnique
  <2> QED BY <1>1, <2>1
<1>6. SumTo(q, N + 1) = SumTo(p, N) + x
  BY <1>1, <1>3, <1>5
<1> QED BY <1>1, <1>2, <1>6 DEF SumOf, q

\* A sequence of numbers that all are w times those of another one.
LEMMA SumOfScaled ==
  ASSUME NEW p \in Seq(Int), NEW q \in Seq(Int), NEW w \in Int, Len(q) = Len(p),
         \A n \in 1..Len(p) : q[n] = w * p[n]
  PROVE  SumOf(q) = w * SumOf(p)
PROOF
<1> DEFINE N == Len(p)
           f == [n \in 0..N |-> w * SumTo(p, n)]
           h == [n \in 0..N |-> SumTo(q, n)]
<1>1. N \in Nat /\ Len(q) = N /\ \A n \in 1..N : p[n] \in Int /\ q[n] = w * p[n]
  BY LenProperties, ElementOfSeq
<1>2. /\ SumTo(p, 0) = 0 /\ \A n \in 0..N : SumTo(p, n) \in Int
      /\ \A n \in 1..N : SumTo(p, n) = SumTo(p, n - 1) + p[n]
  BY SumToIs
<1>3. SumTo(q, 0) = 0 /\ \A n \in 1..N : SumTo(q, n) = SumTo(q, n - 1) + q[n]
  BY <1>1, SumToIs
<1>4. f[0] = h[0]
  BY <1>1, <1>2, <1>3
<1>5. ASSUME NEW n \in 1..N, f[n - 1] = h[n - 1] PROVE f[n] = h[n]
  <2>1. n - 1 \in 0..N /\ n \in 0..N
    BY <1>1
  <2>2. w * SumTo(p, n - 1) = SumTo(q, n - 1)
    BY <1>5, <2>1
  <2>3. SumTo(q, n) = w * SumTo(p, n - 1) + w * p[n]
    BY <1>1, <1>3, <2>2
  <2>4. SumTo(p, n - 1) \in Int /\ p[n] \in Int /\ SumTo(p, n) = SumTo(p, n - 1) + p[n]
    BY <1>1, <1>2, <2>1
  <2>5. w * SumTo(p, n) = w * SumTo(p, n - 1) + w * p[n]
    BY <2>4
  <2> QED BY <2>1, <2>3, <2>5
<1>6. f[N] = h[N]
  <2>1. GoTogether(f, h, N)
    BY <1>4, <1>5 DEF GoTogether
  <2> HIDE DEF f, h, N
  <2> QED BY <1>1, <2>1, RecursionIsUnique
<1> QED BY <1>1, <1>6 DEF SumOf

LEMMA SumOfConcatenation ==
  ASSUME NEW p \in Seq(Int), NEW q \in Seq(Int)
  PROVE  SumOf(p \o q) = SumOf(p) + SumOf(q)
PROOF
<1> DEFINE r == p \o q
           M == Len(p)
           N == Len(q)
           f == [n \in 0..N |-> SumTo(p, M) + SumTo(q, n)]
           h == [n \in 0..N |-> SumTo(r, M + n)]
           e == [n \in 0..M |-> SumTo(p, n)]
           d == [n \in 0..M |-> SumTo(r, n)]
<1>1. /\ r \in Seq(Int) /\ M \in Nat /\ N \in Nat /\ Len(r) = M + N
      /\ \A n \in 1..M + N : r[n] = IF n <= M THEN p[n] ELSE q[n - M]
  BY ConcatProperties, LenProperties
<1> HIDE DEF r
<1>2. /\ SumTo(p, 0) = 0 /\ \A n \in 0..M : SumTo(p, n) \in Int
      /\ \A n \in 1..M : SumTo(p, n) = SumTo(p, n - 1) + p[n]
  BY SumToIs
<1>3. /\ SumTo(q, 0) = 0 /\ \A n \in 0..N : SumTo(q, n) \in Int
      /\ \A n \in 1..N : SumTo(q, n) = SumTo(q, n - 1) + q[n]
  BY SumToIs
<1>4. SumTo(r, 0) = 0 /\ \A n \in 1..M + N : SumTo(r, n) = SumTo(r, n - 1) + r[n]
  BY <1>1, SumToIs
<1> HIDE DEF M, N
<1>5. SumTo(r, M) = SumTo(p, M)
  <2>1. d[0] = e[0]
    BY <1>1, <1>2, <1>4
  <2>2. ASSUME NEW n \in 1..M, d[n - 1] = e[n - 1] PROVE d[n] = e[n]
    <3>1. n - 1 \in 0..M /\ n \in 0..M /\ n \in 1..M + N /\ n <= M
      BY <1>1
    <3>2. SumTo(r, n - 1) = SumTo(p, n - 1)
      BY <2>2, <3>1
    <3>3. SumTo(r, n) = SumTo(p, n)
      BY <1>1, <1>2, <1>4, <3>1, <3>2
    <3> QED BY <3>1, <3>3
  <2>3. d[M] = e[M]
    <3>1. GoTogether(d, e, M)
      BY <2>1, <2>2 DEF GoTogether
    <3> HIDE DEF d, e
    <3> QED BY <1>1, <3>1, RecursionIsUnique
  <2> QED BY <1>1, <2>3
<1>6. f[0] = h[0]
  BY <1>1, <1>2, <1>3, <1>5
<1>7. ASSUME NEW n \in 1..N, f[n - 1] = h[n - 1] PROVE f[n] = h[n]
  <2>1. /\ n - 1 \in 0..N /\ n \in 0..N /\ M + n \in 1..M + N /\ ~(M + n <= M)
        /\ (M + n) - M = n /\ M + (n - 1) = (M + n) - 1
    BY <1>1
  <2>2. SumTo(r, (M + n) - 1) = SumTo(p, M) + SumTo(q, n - 1)
    BY <1>7, <2>1
  <2>3. r[M + n] = q[n]
    BY <1>1, <2>1
  <2>4. SumTo(r, M + n) = SumTo(p, M) + SumTo(q, n - 1) + q[n]
    BY <1>4, <2>1, <2>2, <2>3
  <2>5. SumTo(q, n) = SumTo(q, n - 1) + q[n]
    BY <1>3
  <2>6. q[n] \in Int /\ SumTo(q, n - 1) \in Int /\ SumTo(p, M) \in Int
    BY <1>1, <1>2, <1>3, <2>1, ElementOfSeq DEF N
  <2> QED BY <2>1, <2>4, <2>5, <2>6
<1>8. f[N] = h[N]
  <2>1. GoTogether(f, h, N)
    BY <1>6, <1>7 DEF GoTogether
  <2> HIDE DEF f, h
  <2> QED BY <1>1, <2>1, RecursionIsUnique
<1>9. SumTo(r, M + N) = SumTo(p, M) + SumTo(q, N)
  BY <1>1, <1>8
<1> QED BY <1>1, <1>9 DEF SumOf, r, M, N

LEMMA SumToTyped ==
  ASSUME NEW p \in Seq(Nat)
  PROVE  \A n \in 0..Len(p) : SumTo(p, n) \in Nat
PROOF
<1> DEFINE N == Len(p)
           bad == {n \in 0..N : SumTo(p, n) \notin Nat}
<1>1. N \in Nat /\ \A n \in 1..N : p[n] \in Nat
  BY LenProperties, ElementOfSeq
<1>2. SumTo(p, 0) = 0 /\ \A n \in 1..N : SumTo(p, n) = SumTo(p, n - 1) + p[n]
  <2>1. p \in Seq(Int)
    BY <1>1 DEF N
  <2> QED BY <2>1, SumToIs
<1> HIDE DEF N
<1> SUFFICES ASSUME bad # {} PROVE FALSE
  BY DEF N
<1>3. PICK n \in bad : \A k \in bad : n <= k
  <2>1. bad \in SUBSET Nat
    BY <1>1
  <2> HIDE DEF bad
  <2> QED BY <2>1, LeastExists
<1>4. n \in 0..N /\ SumTo(p, n) \notin Nat
  OBVIOUS
<1>5. n \in 1..N /\ n - 1 \in 0..N /\ ~(n <= n - 1)
  BY <1>1, <1>2, <1>4
<1>6. n - 1 \notin bad
  <2> HIDE DEF bad
  <2> QED BY <1>3, <1>5
<1>7. SumTo(p, n - 1) \in Nat
  BY <1>5, <1>6
<1>8. SumTo(p, n) = SumTo(p, n - 1) + p[n] /\ p[n] \in Nat
  BY <1>1, <1>2, <1>5
<1> HIDE DEF bad
<1> QED BY <1>4, <1>7, <1>8

LEMMA SumOfTyped ==
  ASSUME NEW p \in Seq(Nat)
  PROVE  SumOf(p) \in Nat
PROOF
<1>1. Len(p) \in 0..Len(p)
  OBVIOUS
<1> QED BY <1>1, SumToTyped DEF SumOf

\* The sums of numbers none of which is larger than the other sequence's.
LEMMA SumOfMonotone ==
  ASSUME NEW p \in Seq(Nat), NEW q \in Seq(Nat), Len(p) = Len(q),
         \A n \in 1..Len(p) : p[n] <= q[n]
  PROVE  SumOf(p) <= SumOf(q)
PROOF
<1> DEFINE N == Len(p)
           bad == {n \in 0..N : ~(SumTo(p, n) <= SumTo(q, n))}
<1>1. /\ N \in Nat /\ Len(q) = N
      /\ \A n \in 1..N : p[n] \in Nat /\ q[n] \in Nat /\ p[n] <= q[n]
  BY LenProperties, ElementOfSeq
<1>2. /\ SumTo(p, 0) = 0 /\ SumTo(q, 0) = 0
      /\ \A n \in 0..N : SumTo(p, n) \in Int /\ SumTo(q, n) \in Int
      /\ \A n \in 1..N : /\ SumTo(p, n) = SumTo(p, n - 1) + p[n]
                         /\ SumTo(q, n) = SumTo(q, n - 1) + q[n]
  <2>1. p \in Seq(Int) /\ q \in Seq(Int)
    BY <1>1 DEF N
  <2> QED BY <1>1, <2>1, SumToIs
<1>3. SumOf(p) = SumTo(p, N) /\ SumOf(q) = SumTo(q, N)
  BY <1>1 DEF SumOf
<1> HIDE DEF N
<1> SUFFICES ASSUME bad # {} PROVE FALSE
  <2>1. N \in 0..N
    BY <1>1
  <2> QED BY <1>3, <2>1
<1>4. PICK n \in bad : \A k \in bad : n <= k
  <2>1. bad \in SUBSET Nat
    BY <1>1
  <2> HIDE DEF bad
  <2> QED BY <2>1, LeastExists
<1>5. n \in 0..N /\ ~(SumTo(p, n) <= SumTo(q, n))
  OBVIOUS
<1>6. n \in 1..N /\ n - 1 \in 0..N /\ ~(n <= n - 1)
  BY <1>1, <1>2, <1>5
<1>7. SumTo(p, n - 1) <= SumTo(q, n - 1)
  <2>1. n - 1 \notin bad
    <3> HIDE DEF bad
    <3> QED BY <1>4, <1>6
  <2> QED BY <1>6, <2>1
<1> HIDE DEF bad
<1>8. /\ SumTo(p, n) = SumTo(p, n - 1) + p[n] /\ SumTo(q, n) = SumTo(q, n - 1) + q[n]
      /\ p[n] \in Nat /\ q[n] \in Nat /\ p[n] <= q[n]
      /\ SumTo(p, n - 1) \in Int /\ SumTo(q, n - 1) \in Int
  BY <1>1, <1>2, <1>6
<1> QED BY <1>5, <1>7, <1>8

\* No entry is larger than the sum.
LEMMA SumOfAtLeast ==
  ASSUME NEW p \in Seq(Nat), NEW e \in 1..Len(p)
  PROVE  p[e] <= SumOf(p)
PROOF
<1> DEFINE N == Len(p)
           bad == {n \in e..N : ~(p[e] <= SumTo(p, n))}
<1>1. N \in Nat /\ e \in 1..N /\ \A n \in 1..N : p[n] \in Nat
  BY LenProperties, ElementOfSeq
<1>2. /\ \A n \in 0..N : SumTo(p, n) \in Nat
      /\ \A n \in 1..N : SumTo(p, n) = SumTo(p, n - 1) + p[n]
  <2>1. p \in Seq(Int)
    BY <1>1 DEF N
  <2>2. ASSUME NEW n \in 0..N PROVE SumTo(p, n) \in Nat
    BY <2>1, SumToTyped
  <2> QED BY <2>1, <2>2, SumToIs
<1>3. SumOf(p) = SumTo(p, N)
  BY DEF SumOf
<1> HIDE DEF N
<1> SUFFICES ASSUME bad # {} PROVE FALSE
  <2>1. N \in e..N
    BY <1>1
  <2> QED BY <1>3, <2>1
<1>4. PICK n \in bad : \A k \in bad : n <= k
  <2>1. bad \in SUBSET Nat
    BY <1>1
  <2> HIDE DEF bad
  <2> QED BY <2>1, LeastExists
<1>5. n \in e..N /\ ~(p[e] <= SumTo(p, n))
  OBVIOUS
<1>6. /\ n \in 1..N /\ n - 1 \in 0..N /\ SumTo(p, n - 1) \in Nat
      /\ SumTo(p, n) = SumTo(p, n - 1) + p[n] /\ p[n] \in Nat /\ p[e] \in Nat
  BY <1>1, <1>2, <1>5
<1>7. n # e
  BY <1>5, <1>6
<1>8. p[e] <= SumTo(p, n - 1)
  <2>1. n - 1 \in e..N /\ ~(n <= n - 1)
    BY <1>1, <1>5, <1>7
  <2>2. n - 1 \notin bad
    <3> HIDE DEF bad
    <3> QED BY <1>4, <2>1
  <2> QED BY <2>1, <2>2
<1> HIDE DEF bad
<1> QED BY <1>5, <1>6, <1>8

\* The sums of no and of one probability.
LEMMA SumOfNone ==
  ASSUME NEW p, Len(p) = 0
  PROVE  SumOf(p) = 0
<1> DEFINE sum == CHOOSE f : f = [k \in 0..0 |-> IF k = 0 THEN 0 ELSE f[k - 1] + p[k]]
           zero == [k \in 0..0 |-> 0]
<1>1. zero = [k \in 0..0 |-> IF k = 0 THEN 0 ELSE zero[k - 1] + p[k]]
  OBVIOUS
<1>2. sum = [k \in 0..0 |-> IF k = 0 THEN 0 ELSE sum[k - 1] + p[k]]
  BY <1>1
<1>3. SumOf(p) = sum[0]
  BY DEF SumOf, SumTo
<1> QED
  BY <1>2, <1>3

LEMMA SumOfOne ==
  ASSUME NEW p, Len(p) = 1, p[1] \in Nat
  PROVE  SumOf(p) = p[1]
<1> DEFINE sum == CHOOSE f : f = [k \in 0..1 |-> IF k = 0 THEN 0 ELSE f[k - 1] + p[k]]
           both == [k \in 0..1 |-> IF k = 0 THEN 0 ELSE p[1]]
<1>1. both = [k \in 0..1 |-> IF k = 0 THEN 0 ELSE both[k - 1] + p[k]]
  OBVIOUS
<1>2. sum = [k \in 0..1 |-> IF k = 0 THEN 0 ELSE sum[k - 1] + p[k]]
  BY <1>1
<1>3. SumOf(p) = sum[1]
  BY DEF SumOf, SumTo
<1> HIDE DEF sum
<1>4. sum[0] = 0 /\ sum[1] = sum[0] + p[1]
  BY <1>2
<1> QED
  BY <1>3, <1>4
=============================================================================
