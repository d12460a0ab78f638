------------------------- MODULE PathTrackerProofs -------------------------
(***************************************************************************)
(* The path tracker keeps its frames in order in the vector of entries,    *)
(* and so implements the stack of sequences of PathStack, for any client   *)
(* that calls it as GenericTraverser's worker does.                        *)
(***************************************************************************)
EXTENDS PathTracker, SequenceTheorems, WellFoundedInduction, TLAPS

PathFrame == [indexOfFirstStateIndexEntry : Nat, count : Nat]

Trackers == [pathFrames : Seq(PathFrame), stateIndexEntries : Seq(StateIndexes),
             lowestSplittableFrame : Int]

First(t, k) == t.pathFrames[k].indexOfFirstStateIndexEntry

EndOf(t, k) == First(t, k) + t.pathFrames[k].count

\* Frame after frame tiles the vector, and none reaches into one above it.
Laid(t) ==
  /\ t \in Trackers
  /\ \A k \in 1..Len(t.pathFrames) : First(t, k) = IF k = 1 THEN 0 ELSE EndOf(t, k - 1)
  /\ Len(t.stateIndexEntries) =
       IF Len(t.pathFrames) = 0 THEN 0 ELSE EndOf(t, Len(t.pathFrames))
  /\ \A k, l \in 1..Len(t.pathFrames) : k < l => EndOf(t, k) <= First(t, l)

\* A frame below another one holds the state that is being expanded: no count
\* is taken below zero when that frame is popped.
KeptBelow(t) ==
  \A k \in 1..Len(t.pathFrames) :
    t.pathFrames[k].count >= IF k < Len(t.pathFrames) THEN 1 ELSE 0

KeptAll(t) == \A k \in 1..Len(t.pathFrames) : t.pathFrames[k].count >= 1

IInv ==
  /\ Laid(tracker) /\ KeptBelow(tracker)
  /\ got # -1 => KeptAll(tracker)
  /\ Len(tracker.pathFrames) <= MaxEntries
  /\ Len(tracker.stateIndexEntries) <= MaxEntries
  /\ Debug => Len(tracker.stateIndexEntries) <= Capacity
  /\ tracker.lowestSplittableFrame \in NoFrame..MaxEntries
  /\ pushed \in StateIndexes \cup {-1} /\ got \in StateIndexes \cup {-1}

-----------------------------------------------------------------------------
\* A set of numbers up to n that is not empty has a largest one.
LEMMA MaxIsLargest ==
  ASSUME NEW n \in Nat, NEW S \in SUBSET (1..n), S # {}
  PROVE  Max(S) \in S /\ \A y \in S : Max(S) >= y
PROOF
<1> DEFINE T == {n - x : x \in S}
           R == OpToRel(<, Nat)
<1> HIDE DEF R
<1>1. T \subseteq Nat /\ T # {}
  <2>1. \A x \in S : n - x \in Nat
    OBVIOUS
  <2>2. PICK x \in S : TRUE
    OBVIOUS
  <2>3. n - x \in T
    OBVIOUS
  <2> QED BY <2>1, <2>3
<1>2. \E x \in T : \A y \in T : ~(<<y, x>> \in R)
  <2> HIDE DEF T
  <2>1. IsWellFoundedOn(R, Nat)
    BY NatLessThanWellFounded DEF R
  <2> QED BY <1>1, <2>1, WFMin
<1>3. PICK m \in T : \A y \in T : ~(<<y, m>> \in R)
  BY <1>2
<1>4. \A y \in T : ~(y < m)
  <2> SUFFICES ASSUME NEW y \in T, y < m PROVE FALSE
    OBVIOUS
  <2>1. <<y, m>> \in R
    <3> HIDE DEF T
    <3> QED BY <1>1 DEF OpToRel, R
  <2> QED BY <1>3, <2>1
<1>5. PICK x \in S : m = n - x
  OBVIOUS
<1>6. \A y \in S : x >= y
  BY <1>4, <1>5
<1> QED BY <1>6 DEF Max

\* The entries of a frame lie in the vector.
LEMMA FramesInside ==
  ASSUME NEW t, Laid(t), NEW k \in 1..Len(t.pathFrames)
  PROVE  /\ t.pathFrames[k] \in PathFrame
         /\ First(t, k) \in Nat /\ EndOf(t, k) \in Nat
         /\ EndOf(t, k) = First(t, k) + t.pathFrames[k].count
         /\ EndOf(t, k) <= Len(t.stateIndexEntries)
PROOF
<1>1. /\ t.pathFrames \in Seq(PathFrame) /\ t.stateIndexEntries \in Seq(StateIndexes)
      /\ t.pathFrames[k] \in PathFrame
      /\ Len(t.pathFrames) \in Nat /\ t.pathFrames[Len(t.pathFrames)] \in PathFrame
  BY DEF Laid, Trackers
<1>2. Len(t.stateIndexEntries) = EndOf(t, Len(t.pathFrames))
  BY <1>1 DEF Laid
<1>3. k < Len(t.pathFrames) => EndOf(t, k) <= First(t, Len(t.pathFrames))
  BY <1>1 DEF Laid
<1> QED BY <1>1, <1>2, <1>3 DEF PathFrame, First, EndOf

LEMMA AllKeptAreKeptBelow ==
  ASSUME NEW t, Laid(t), KeptAll(t)
  PROVE  KeptBelow(t)
PROOF BY FramesInside DEF PathFrame, KeptAll, KeptBelow

-----------------------------------------------------------------------------
LEMMA WithFrameLaid ==
  ASSUME NEW t, Laid(t), KeptAll(t)
  PROVE  /\ Laid(WithFrame(t)) /\ KeptBelow(WithFrame(t))
         /\ WithFrame(t).stateIndexEntries = t.stateIndexEntries
         /\ WithFrame(t).lowestSplittableFrame = t.lowestSplittableFrame
         /\ Len(WithFrame(t).pathFrames) = Len(t.pathFrames) + 1
         /\ \A k \in 1..Len(t.pathFrames) : WithFrame(t).pathFrames[k] = t.pathFrames[k]
         /\ First(WithFrame(t), Len(t.pathFrames) + 1) = Len(t.stateIndexEntries)
         /\ WithFrame(t).pathFrames[Len(t.pathFrames) + 1].count = 0
PROOF
<1> DEFINE n == Len(t.pathFrames)
           m == Len(t.stateIndexEntries)
           f == [indexOfFirstStateIndexEntry |-> m, count |-> 0]
           u == WithFrame(t)
<1>1. /\ t \in Trackers
      /\ t.pathFrames \in Seq(PathFrame) /\ t.stateIndexEntries \in Seq(StateIndexes)
      /\ n \in Nat /\ m \in Nat /\ f \in PathFrame
  BY DEF Laid, Trackers, PathFrame
<1>2. u = [t EXCEPT !.pathFrames = Append(t.pathFrames, f)]
  <2>1. (IF t.pathFrames = <<>> THEN 0 ELSE End(Last(t.pathFrames))) = m
    <3>1. t.pathFrames = <<>> <=> n = 0
      BY <1>1
    <3> QED BY <1>1, <3>1 DEF Laid, End, Last, EndOf, First
  <2> QED BY <2>1 DEF WithFrame, Frame
<1>3. /\ u.pathFrames = Append(t.pathFrames, f)
      /\ u.stateIndexEntries = t.stateIndexEntries
      /\ u.lowestSplittableFrame = t.lowestSplittableFrame
      /\ u \in Trackers
  <2> HIDE DEF u, f
  <2>1. Append(t.pathFrames, f) \in Seq(PathFrame)
    BY <1>1, AppendProperties
  <2> QED BY <1>1, <1>2, <2>1 DEF Trackers
<1>4. /\ Len(u.pathFrames) = n + 1
      /\ \A k \in 1..n : u.pathFrames[k] = t.pathFrames[k]
      /\ u.pathFrames[n + 1] = f
  BY <1>1, <1>3
<1> HIDE DEF u
<1>5. /\ \A k \in 1..n : /\ First(u, k) = First(t, k) /\ EndOf(u, k) = EndOf(t, k)
                         /\ EndOf(t, k) \in Nat /\ EndOf(t, k) <= m
      /\ First(u, n + 1) = m /\ EndOf(u, n + 1) = m
  BY <1>1, <1>4, FramesInside DEF First, EndOf
<1>6. ASSUME NEW k \in 1..n + 1
      PROVE  First(u, k) = IF k = 1 THEN 0 ELSE EndOf(u, k - 1)
  <2>1. CASE k \in 1..n
    <3>1. First(t, k) = IF k = 1 THEN 0 ELSE EndOf(t, k - 1)
      BY <2>1 DEF Laid
    <3>2. k # 1 => k - 1 \in 1..n
      BY <1>1, <2>1
    <3> QED BY <1>5, <2>1, <3>1, <3>2
  <2>2. CASE k = n + 1
    <3>1. m = IF n = 0 THEN 0 ELSE EndOf(t, n)
      BY DEF Laid
    <3> QED BY <1>1, <1>5, <2>2, <3>1
  <2> QED BY <1>1, <2>1, <2>2
<1>7. ASSUME NEW k \in 1..n + 1, NEW l \in 1..n + 1, k < l
      PROVE  EndOf(u, k) <= First(u, l)
  <2>1. k \in 1..n
    BY <1>1, <1>7
  <2>2. CASE l \in 1..n
    BY <1>5, <1>7, <2>1, <2>2 DEF Laid
  <2>3. CASE l = n + 1
    BY <1>5, <2>1, <2>3
  <2> QED BY <1>1, <2>2, <2>3
<1>8. Laid(u)
  BY <1>1, <1>3, <1>4, <1>5, <1>6, <1>7 DEF Laid
<1>9. KeptBelow(u)
  <2> SUFFICES ASSUME NEW k \in 1..n + 1
               PROVE  u.pathFrames[k].count >= IF k < n + 1 THEN 1 ELSE 0
    BY <1>4 DEF KeptBelow, KeptAll
  <2>1. k \in 1..n => t.pathFrames[k].count >= 1
    BY <1>1 DEF KeptBelow, KeptAll
  <2> QED BY <1>1, <1>4, <2>1
<1>10. u.pathFrames[n + 1].count = 0
  BY <1>4
<1> HIDE DEF f
<1> QED BY <1>3, <1>4, <1>5, <1>8, <1>9, <1>10 DEF u

-----------------------------------------------------------------------------
LEMMA WithStateIndexLaid ==
  ASSUME NEW t, Laid(t), KeptBelow(t), NEW s \in StateIndexes, Len(t.pathFrames) > 0
  PROVE  LET u == WithStateIndex(t, s)
             n == Len(t.pathFrames)
         IN  /\ Laid(u) /\ KeptBelow(u)
             /\ Len(u.pathFrames) = n
             /\ u.stateIndexEntries = Append(t.stateIndexEntries, s)
             /\ u.lowestSplittableFrame \in {t.lowestSplittableFrame, n - 1}
             /\ \A k \in 1..n :
                  /\ First(u, k) = First(t, k)
                  /\ u.pathFrames[k].count = t.pathFrames[k].count + (IF k = n THEN 1 ELSE 0)
PROOF
<1> DEFINE n == Len(t.pathFrames)
           m == Len(t.stateIndexEntries)
           c == t.pathFrames[n].count + 1
           u == WithStateIndex(t, s)
<1>1. /\ t.pathFrames \in Seq(PathFrame) /\ t.stateIndexEntries \in Seq(StateIndexes)
      /\ n \in Nat \ {0} /\ m \in Nat /\ t.lowestSplittableFrame \in Int
      /\ \A k \in 1..n : t.pathFrames[k] \in PathFrame
  BY DEF Laid, Trackers
<1>2. n \in 1..n /\ c \in Nat /\ t.pathFrames[n] \in PathFrame
  BY <1>1 DEF PathFrame
<1> DEFINE f == [t.pathFrames[n] EXCEPT !.count = c]
<1>3. /\ u.pathFrames = [t.pathFrames EXCEPT ![n] = f]
      /\ u.stateIndexEntries = Append(t.stateIndexEntries, s)
      /\ u.lowestSplittableFrame =
           IF t.lowestSplittableFrame = NoFrame /\ c > 1 THEN n - 1
           ELSE t.lowestSplittableFrame
      /\ u = [pathFrames |-> u.pathFrames, stateIndexEntries |-> u.stateIndexEntries,
              lowestSplittableFrame |-> u.lowestSplittableFrame]
  BY DEF WithStateIndex
<1>4. /\ f \in PathFrame /\ f.count = c
      /\ f.indexOfFirstStateIndexEntry = t.pathFrames[n].indexOfFirstStateIndexEntry
  BY <1>2 DEF PathFrame
<1> HIDE DEF u, f
<1>5. /\ u.pathFrames \in Seq(PathFrame) /\ Len(u.pathFrames) = n
      /\ \A k \in 1..n : u.pathFrames[k] = IF k = n THEN f ELSE t.pathFrames[k]
  BY <1>1, <1>2, <1>3, <1>4, ExceptSeq
<1>6. /\ u.stateIndexEntries \in Seq(StateIndexes)
      /\ Len(u.stateIndexEntries) = m + 1
  BY <1>1, <1>3, AppendProperties
<1>7. u.lowestSplittableFrame \in {t.lowestSplittableFrame, n - 1}
  BY <1>3
<1>8. u \in Trackers
  <2>1. u.lowestSplittableFrame \in Int
    BY <1>1, <1>7
  <2> QED BY <1>3, <1>5, <1>6, <2>1 DEF Trackers
<1>9. \A k \in 1..n :
        /\ First(u, k) = First(t, k)
        /\ u.pathFrames[k].count = t.pathFrames[k].count + (IF k = n THEN 1 ELSE 0)
        /\ t.pathFrames[k].count \in Nat
        /\ EndOf(u, k) = EndOf(t, k) + (IF k = n THEN 1 ELSE 0)
        /\ EndOf(t, k) \in Nat /\ First(t, k) \in Nat
  <2> TAKE k \in 1..n
  <2>1. First(t, k) \in Nat /\ t.pathFrames[k].count \in Nat
    BY <1>1 DEF First, PathFrame
  <2>2. First(u, k) = First(t, k)
    BY <1>4, <1>5 DEF First
  <2>3. u.pathFrames[k].count = t.pathFrames[k].count + (IF k = n THEN 1 ELSE 0)
    BY <1>4, <1>5, <2>1
  <2> QED BY <2>1, <2>2, <2>3 DEF EndOf
<1>10. ASSUME NEW k \in 1..n
       PROVE  First(u, k) = IF k = 1 THEN 0 ELSE EndOf(u, k - 1)
  <2>1. First(t, k) = IF k = 1 THEN 0 ELSE EndOf(t, k - 1)
    BY DEF Laid
  <2>2. k # 1 => k - 1 \in 1..n /\ k - 1 # n
    BY <1>1
  <2>3. k # 1 => EndOf(u, k - 1) = EndOf(t, k - 1)
    BY <1>9, <2>2
  <2> QED BY <1>9, <2>1, <2>3
<1>11. ASSUME NEW k \in 1..n, NEW l \in 1..n, k < l
       PROVE  EndOf(u, k) <= First(u, l)
  <2>1. EndOf(t, k) <= First(t, l)
    BY <1>11 DEF Laid
  <2>2. k # n
    BY <1>1, <1>11
  <2> QED BY <1>9, <2>1, <2>2
<1>12. Len(u.stateIndexEntries) = EndOf(u, n)
  <2>1. m = EndOf(t, n)
    BY <1>1 DEF Laid
  <2> QED BY <1>2, <1>6, <1>9, <2>1
<1>13. Laid(u)
  BY <1>1, <1>5, <1>8, <1>10, <1>11, <1>12 DEF Laid
<1>14. KeptBelow(u)
  <2> SUFFICES ASSUME NEW k \in 1..n
               PROVE  u.pathFrames[k].count >= IF k < n THEN 1 ELSE 0
    BY <1>5 DEF KeptBelow, KeptAll
  <2>1. t.pathFrames[k].count >= IF k < n THEN 1 ELSE 0
    BY DEF KeptBelow, KeptAll
  <2> QED BY <1>9, <2>1
<1> QED BY <1>3, <1>5, <1>7, <1>9, <1>13, <1>14 DEF u

-----------------------------------------------------------------------------
\* What remains when the frames above one are dropped and a state of it too.
Lowered(t, top) == [t.pathFrames[top] EXCEPT !.count = @ - 1]

DroppedTo(t, top) ==
  [t EXCEPT !.pathFrames = Append(SubSeq(t.pathFrames, 1, top - 1), Lowered(t, top)),
            !.stateIndexEntries = SubSeq(t.stateIndexEntries, 1, End(Lowered(t, top)))]

\* What tryGetStateIndex does: the tracker is emptied, or it stays, or its
\* topmost frames are dropped and one state of the frame below them.
LEMMA SettledCases ==
  ASSUME NEW t, Laid(t)
  PROVE  \/ /\ LiveFrames(t.pathFrames) = {}
            /\ Settled(t) = Cleared(t)
         \/ /\ Len(t.pathFrames) > 0 /\ t.pathFrames[Len(t.pathFrames)].count > 0
            /\ LiveFrames(t.pathFrames) # {}
            /\ Max(LiveFrames(t.pathFrames)) = Len(t.pathFrames)
            /\ Settled(t) = t
         \/ \E top \in 1..Len(t.pathFrames) - 1 :
              /\ t.pathFrames[top].count > 1
              /\ LiveFrames(t.pathFrames) # {}
              /\ Max(LiveFrames(t.pathFrames)) = top
              /\ Settled(t) = DroppedTo(t, top)
PROOF
<1> DEFINE n == Len(t.pathFrames)
           live == LiveFrames(t.pathFrames)
<1>1. n \in Nat /\ live \in SUBSET (1..n)
  BY DEF Laid, Trackers, LiveFrames
<1>2. CASE live = {}
  BY <1>2 DEF Settled, Cleared
<1>3. CASE live # {}
  <2> DEFINE top == Max(live)
  <2>1. top \in live
    <3> HIDE DEF live
    <3> QED BY <1>1, <1>3, MaxIsLargest
  <2>2. top \in 1..n /\ t.pathFrames[top].count > IF top = n THEN 0 ELSE 1
    <3> HIDE DEF top
    <3> QED BY <2>1 DEF LiveFrames
  <2>3. CASE top = n
    <3>1. Settled(t) = t
      BY <1>3, <2>3 DEF Settled
    <3> QED BY <1>1, <1>3, <2>2, <2>3, <3>1
  <2>4. CASE top # n
    <3>1. top \in 1..n - 1 /\ t.pathFrames[top].count > 1
      <4> HIDE DEF top
      <4> QED BY <1>1, <2>2, <2>4
    <3>2. Settled(t) = DroppedTo(t, top)
      BY <1>3, <2>4 DEF Settled, DroppedTo, Lowered
    <3> QED BY <1>3, <3>1, <3>2
  <2> QED BY <2>3, <2>4
<1> QED BY <1>2, <1>3

LEMMA DroppedLaid ==
  ASSUME NEW t, Laid(t), KeptBelow(t), NEW top \in 1..Len(t.pathFrames) - 1,
         t.pathFrames[top].count > 1
  PROVE  LET u == DroppedTo(t, top)
         IN  /\ Laid(u) /\ KeptAll(u)
             /\ Len(u.pathFrames) = top
             /\ u.lowestSplittableFrame = t.lowestSplittableFrame
             /\ Len(u.stateIndexEntries) <= Len(t.stateIndexEntries)
             /\ \A j \in 1..Len(u.stateIndexEntries) :
                  u.stateIndexEntries[j] = t.stateIndexEntries[j]
             /\ \A k \in 1..top :
                  /\ First(u, k) = First(t, k)
                  /\ u.pathFrames[k].count = t.pathFrames[k].count - (IF k = top THEN 1 ELSE 0)
PROOF
<1> DEFINE n == Len(t.pathFrames)
           m == Len(t.stateIndexEntries)
           f == Lowered(t, top)
           u == DroppedTo(t, top)
           below == SubSeq(t.pathFrames, 1, top - 1)
<1>1. /\ t.pathFrames \in Seq(PathFrame) /\ t.stateIndexEntries \in Seq(StateIndexes)
      /\ n \in Nat \ {0} /\ m \in Nat /\ t \in Trackers
      /\ \A k \in 1..n : t.pathFrames[k] \in PathFrame
      /\ \A j \in 1..m : t.stateIndexEntries[j] \in StateIndexes
  BY DEF Laid, Trackers
<1>2. /\ top \in 1..n /\ top < n /\ t.pathFrames[top] \in PathFrame
  BY <1>1
<1>3. /\ f \in PathFrame /\ f.count = t.pathFrames[top].count - 1
      /\ f.indexOfFirstStateIndexEntry = First(t, top)
      /\ End(f) = EndOf(t, top) - 1
      /\ End(f) \in Nat
  BY <1>2 DEF Lowered, PathFrame, First, End, EndOf
<1>4. u.pathFrames = Append(below, f)
      /\ u.stateIndexEntries = SubSeq(t.stateIndexEntries, 1, End(f))
      /\ u.lowestSplittableFrame = t.lowestSplittableFrame
      /\ u = [pathFrames |-> u.pathFrames, stateIndexEntries |-> u.stateIndexEntries,
              lowestSplittableFrame |-> u.lowestSplittableFrame]
  <2> DEFINE fs == Append(below, f)
             es == SubSeq(t.stateIndexEntries, 1, End(f))
  <2>1. u = [t EXCEPT !.pathFrames = fs, !.stateIndexEntries = es]
    BY DEF DroppedTo
  <2> HIDE DEF u, f, fs, es
  <2>2. /\ u.pathFrames = fs /\ u.stateIndexEntries = es
        /\ u.lowestSplittableFrame = t.lowestSplittableFrame
        /\ u = [pathFrames |-> fs, stateIndexEntries |-> es,
                lowestSplittableFrame |-> t.lowestSplittableFrame]
    BY <1>1, <2>1 DEF Trackers
  <2> QED BY <2>2 DEF fs, es
<1> HIDE DEF u, f
<1>5. /\ below \in Seq(PathFrame) /\ Len(below) = top - 1
      /\ \A k \in 1..top - 1 : below[k] = t.pathFrames[k]
  <2>1. \A k \in 1..top - 1 : t.pathFrames[k] \in PathFrame
    BY <1>1, <1>2
  <2>2. top - 1 \in Int /\ top - 1 >= 0
    BY <1>1
  <2>3. /\ below \in Seq(PathFrame)
        /\ Len(below) = IF 1 <= top - 1 THEN top - 1 - 1 + 1 ELSE 0
        /\ \A i \in 1..top - 1 - 1 + 1 : below[i] = t.pathFrames[1 + i - 1]
    BY <2>1, <2>2, SubSeqProperties
  <2> QED BY <2>2, <2>3
<1>6. /\ u.pathFrames \in Seq(PathFrame) /\ Len(u.pathFrames) = top
      /\ \A k \in 1..top : u.pathFrames[k] = IF k = top THEN f ELSE t.pathFrames[k]
  <2> HIDE DEF below
  <2>1. /\ u.pathFrames \in Seq(PathFrame) /\ Len(u.pathFrames) = Len(below) + 1
        /\ \A k \in 1..Len(below) : u.pathFrames[k] = below[k]
        /\ u.pathFrames[Len(below) + 1] = f
    BY <1>3, <1>4, <1>5, AppendProperties
  <2> QED BY <1>1, <1>5, <2>1
<1>7. End(f) <= m
  BY <1>2, <1>3, FramesInside
<1>8. /\ u.stateIndexEntries \in Seq(StateIndexes) /\ Len(u.stateIndexEntries) = End(f)
      /\ \A j \in 1..End(f) : u.stateIndexEntries[j] = t.stateIndexEntries[j]
  <2> DEFINE e == End(f)
  <2>1. e \in Nat /\ \A j \in 1..e : t.stateIndexEntries[j] \in StateIndexes
    BY <1>1, <1>3, <1>7
  <2> HIDE DEF e
  <2>2. /\ SubSeq(t.stateIndexEntries, 1, e) \in Seq(StateIndexes)
        /\ Len(SubSeq(t.stateIndexEntries, 1, e)) = IF 1 <= e THEN e - 1 + 1 ELSE 0
        /\ \A i \in 1..e - 1 + 1 :
             SubSeq(t.stateIndexEntries, 1, e)[i] = t.stateIndexEntries[1 + i - 1]
    BY <2>1, SubSeqProperties
  <2>3. /\ Len(SubSeq(t.stateIndexEntries, 1, e)) = e
        /\ \A i \in 1..e : SubSeq(t.stateIndexEntries, 1, e)[i] = t.stateIndexEntries[i]
    BY <2>1, <2>2
  <2> QED BY <1>4, <2>2, <2>3 DEF e
<1>9. u \in Trackers
  <2>1. u.lowestSplittableFrame \in Int
    BY <1>1, <1>4 DEF Trackers
  <2> QED BY <1>4, <1>6, <1>8, <2>1 DEF Trackers
<1>10. \A k \in 1..top :
        /\ First(u, k) = First(t, k) /\ First(t, k) \in Nat
        /\ u.pathFrames[k].count = t.pathFrames[k].count - (IF k = top THEN 1 ELSE 0)
        /\ t.pathFrames[k].count \in Nat
        /\ EndOf(u, k) = EndOf(t, k) - (IF k = top THEN 1 ELSE 0)
        /\ EndOf(t, k) \in Nat
  <2> TAKE k \in 1..top
  <2>1. k \in 1..n /\ First(t, k) \in Nat /\ t.pathFrames[k].count \in Nat
    <3>1. k \in 1..n
      BY <1>1, <1>2
    <3>2. t.pathFrames[k] \in PathFrame
      BY <1>1, <3>1
    <3> QED BY <3>1, <3>2 DEF First, PathFrame
  <2>2. First(u, k) = First(t, k)
    BY <1>3, <1>6 DEF First
  <2>3. u.pathFrames[k].count = t.pathFrames[k].count - (IF k = top THEN 1 ELSE 0)
    BY <1>3, <1>6, <2>1
  <2> QED BY <2>1, <2>2, <2>3 DEF EndOf
<1>11. ASSUME NEW k \in 1..top
       PROVE  First(u, k) = IF k = 1 THEN 0 ELSE EndOf(u, k - 1)
  <2>1. First(t, k) = IF k = 1 THEN 0 ELSE EndOf(t, k - 1)
    BY <1>1, <1>2 DEF Laid
  <2>2. k # 1 => k - 1 \in 1..top /\ k - 1 # top
    BY <1>1
  <2>3. k # 1 => EndOf(u, k - 1) = EndOf(t, k - 1)
    BY <1>10, <2>2
  <2> QED BY <1>10, <2>1, <2>3
<1>12. ASSUME NEW k \in 1..top, NEW l \in 1..top, k < l
       PROVE  EndOf(u, k) <= First(u, l)
  <2>1. EndOf(t, k) <= First(t, l)
    BY <1>1, <1>2, <1>12 DEF Laid
  <2>2. k # top
    BY <1>1, <1>12
  <2> QED BY <1>10, <2>1, <2>2
<1>13. Len(u.stateIndexEntries) = EndOf(u, top)
  BY <1>2, <1>3, <1>8, <1>10
<1>14. Laid(u)
  BY <1>2, <1>6, <1>9, <1>11, <1>12, <1>13 DEF Laid
<1>15. KeptAll(u)
  <2> SUFFICES ASSUME NEW k \in 1..top PROVE u.pathFrames[k].count >= 1
    BY <1>6 DEF KeptBelow, KeptAll
  <2>1. k < top => t.pathFrames[k].count >= 1
    BY <1>1, <1>2 DEF KeptBelow, KeptAll
  <2> QED BY <1>10, <2>1
<1>16. Len(u.stateIndexEntries) <= m
  BY <1>7, <1>8
<1> QED BY <1>4, <1>6, <1>8, <1>10, <1>14, <1>15, <1>16 DEF u

LEMMA ClearedLaid ==
  ASSUME NEW t \in Trackers
  PROVE  /\ Laid(Cleared(t)) /\ KeptAll(Cleared(t)) /\ KeptBelow(Cleared(t))
         /\ Len(Cleared(t).pathFrames) = 0 /\ Cleared(t).pathFrames = <<>>
         /\ Len(Cleared(t).stateIndexEntries) = 0
         /\ Cleared(t).lowestSplittableFrame = t.lowestSplittableFrame
PROOF
<1>1. /\ Cleared(t) \in Trackers
      /\ Cleared(t).pathFrames = <<>> /\ Cleared(t).stateIndexEntries = <<>>
      /\ Cleared(t).lowestSplittableFrame = t.lowestSplittableFrame
  <2>1. <<>> \in Seq(PathFrame) /\ <<>> \in Seq(StateIndexes)
    BY EmptySeq
  <2>2. /\ DOMAIN t = {"pathFrames", "stateIndexEntries", "lowestSplittableFrame"}
        /\ t.lowestSplittableFrame \in Int
        /\ t = [pathFrames |-> t.pathFrames, stateIndexEntries |-> t.stateIndexEntries,
                lowestSplittableFrame |-> t.lowestSplittableFrame]
    BY DEF Trackers
  <2>3. Cleared(t) = [pathFrames |-> <<>>, stateIndexEntries |-> <<>>,
                      lowestSplittableFrame |-> t.lowestSplittableFrame]
    <3> DEFINE none == <<>>
    <3>1. Cleared(t) = [t EXCEPT !.pathFrames = none, !.stateIndexEntries = none]
      BY DEF Cleared
    <3> HIDE DEF none
    <3>2. Cleared(t) = [pathFrames |-> none, stateIndexEntries |-> none,
                        lowestSplittableFrame |-> t.lowestSplittableFrame]
      BY <2>2, <3>1
    <3> QED BY <3>2 DEF none
  <2> QED BY <2>1, <2>2, <2>3 DEF Trackers
<1>2. Len(Cleared(t).pathFrames) = 0 /\ Len(Cleared(t).stateIndexEntries) = 0
  BY <1>1
<1> QED BY <1>1, <1>2 DEF Laid, KeptBelow, KeptAll

\* The three outcomes of tryGetStateIndex keep the order of the frames.
LEMMA SettledLaid ==
  ASSUME NEW t, Laid(t), KeptBelow(t)
  PROVE  /\ Laid(Settled(t)) /\ KeptAll(Settled(t))
         /\ Len(Settled(t).pathFrames) <= Len(t.pathFrames)
         /\ Len(Settled(t).stateIndexEntries) <= Len(t.stateIndexEntries)
         /\ Settled(t).lowestSplittableFrame = t.lowestSplittableFrame
PROOF
<1> DEFINE n == Len(t.pathFrames)
<1>1. t \in Trackers /\ n \in Nat /\ Len(t.stateIndexEntries) \in Nat
  BY DEF Laid, Trackers
<1> DEFINE u == Settled(t)
           Good == /\ Laid(u) /\ KeptAll(u)
                   /\ Len(u.pathFrames) <= n
                   /\ Len(u.stateIndexEntries) <= Len(t.stateIndexEntries)
                   /\ u.lowestSplittableFrame = t.lowestSplittableFrame
<1> HIDE DEF u
<1>2. ASSUME u = Cleared(t) PROVE Good
  <2>1. /\ Laid(u) /\ KeptAll(u)
        /\ Len(u.pathFrames) = 0 /\ Len(u.stateIndexEntries) = 0
        /\ u.lowestSplittableFrame = t.lowestSplittableFrame
    BY <1>1, <1>2, ClearedLaid
  <2> QED BY <1>1, <2>1
<1>3. ASSUME n > 0, t.pathFrames[n].count > 0, u = t PROVE Good
  <2>1. KeptAll(t)
    <3> SUFFICES ASSUME NEW k \in 1..n PROVE t.pathFrames[k].count >= 1
      BY DEF KeptBelow, KeptAll
    <3>1. t.pathFrames[k].count >= IF k < n THEN 1 ELSE 0
      BY DEF KeptBelow, KeptAll
    <3>2. t.pathFrames[k].count \in Nat
      BY FramesInside DEF PathFrame
    <3> QED BY <1>1, <1>3, <3>1, <3>2
  <2> QED BY <1>1, <1>3, <2>1
<1>4. ASSUME NEW top \in 1..n - 1, t.pathFrames[top].count > 1, u = DroppedTo(t, top)
      PROVE  Good
  <2>1. /\ Laid(u) /\ KeptAll(u)
        /\ Len(u.pathFrames) = top
        /\ Len(u.stateIndexEntries) <= Len(t.stateIndexEntries)
        /\ u.lowestSplittableFrame = t.lowestSplittableFrame
    BY <1>4, DroppedLaid
  <2> QED BY <1>1, <2>1
<1>5. \/ u = Cleared(t)
      \/ n > 0 /\ t.pathFrames[n].count > 0 /\ u = t
      \/ \E top \in 1..n - 1 : t.pathFrames[top].count > 1 /\ u = DroppedTo(t, top)
  BY SettledCases DEF u
<1>6. Good
  <2> HIDE DEF Good, n
  <2> QED BY <1>2, <1>3, <1>4, <1>5
<1> QED BY <1>6 DEF u

\* The state that tryGetStateIndex returns is one that was pushed.
LEMMA TopmostIsEntry ==
  ASSUME NEW t, Laid(t), KeptAll(t), Len(t.pathFrames) > 0
  PROVE  /\ End(Last(t.pathFrames)) = Len(t.stateIndexEntries)
         /\ Len(t.stateIndexEntries) \in Nat \ {0}
         /\ Topmost(t) \in StateIndexes
PROOF
<1> DEFINE n == Len(t.pathFrames)
<1>1. n \in Nat /\ n \in 1..n /\ t.stateIndexEntries \in Seq(StateIndexes)
  BY DEF Laid, Trackers
<1>2. Len(t.stateIndexEntries) = EndOf(t, n)
  BY <1>1 DEF Laid
<1>3. t.pathFrames[n].count >= 1
  BY <1>1 DEF KeptBelow, KeptAll
<1>4. EndOf(t, n) \in Nat /\ EndOf(t, n) = First(t, n) + t.pathFrames[n].count
      /\ First(t, n) \in Nat /\ t.pathFrames[n].count \in Nat
  BY <1>1, FramesInside DEF PathFrame
<1>5. End(Last(t.pathFrames)) = EndOf(t, n)
  BY DEF End, Last, EndOf, First
<1>6. Len(t.stateIndexEntries) \in 1..Len(t.stateIndexEntries)
  BY <1>2, <1>3, <1>4
<1>7. t.stateIndexEntries[Len(t.stateIndexEntries)] \in StateIndexes
  BY <1>1, <1>6
<1> QED BY <1>2, <1>5, <1>6, <1>7 DEF Topmost

-----------------------------------------------------------------------------
(***************************************************************************)
(* The entries that wait: all but the last one of each frame that has      *)
(* another frame above it, for that is the state which is being expanded.  *)
(***************************************************************************)
WaitingPlaces(t) ==
  1..Len(t.stateIndexEntries) \ {EndOf(t, k) : k \in 1..Len(t.pathFrames) - 1}

\* Every entry belongs to a frame.
LEMMA PlaceInFrame ==
  ASSUME NEW t, Laid(t), NEW j \in 1..Len(t.stateIndexEntries)
  PROVE  \E k \in 1..Len(t.pathFrames) : First(t, k) < j /\ j <= EndOf(t, k)
PROOF
<1> DEFINE n == Len(t.pathFrames)
           Below == {k \in 1..n : First(t, k) < j}
<1>1. n \in Nat /\ Len(t.stateIndexEntries) \in Nat
  BY DEF Laid, Trackers
<1>2. n # 0 /\ Len(t.stateIndexEntries) = EndOf(t, n)
  BY <1>1 DEF Laid
<1>3. Below # {}
  <2>1. 1 \in 1..n /\ First(t, 1) = 0
    BY <1>1, <1>2 DEF Laid
  <2> QED BY <2>1
<1> DEFINE top == Max(Below)
<1>4. top \in Below /\ \A k \in Below : top >= k
  <2> HIDE DEF Below
  <2>1. Below \in SUBSET (1..n)
    BY DEF Below
  <2> QED BY <1>1, <1>3, <2>1, MaxIsLargest
<1> HIDE DEF top
<1>5. top \in 1..n /\ First(t, top) < j /\ top + 1 \notin Below
  BY <1>1, <1>4
<1>6. CASE top = n
  BY <1>2, <1>5, <1>6
<1>7. CASE top # n
  <2>1. top + 1 \in 1..n /\ ~(First(t, top + 1) < j)
    BY <1>1, <1>5, <1>7
  <2>2. First(t, top + 1) = EndOf(t, top)
    BY <1>5, <2>1 DEF Laid
  <2>3. EndOf(t, top) \in Nat
    BY <1>5, FramesInside
  <2> QED BY <1>5, <2>1, <2>2, <2>3
<1> QED BY <1>6, <1>7

\* The numbers of a frame.
LEMMA FrameNumbers ==
  ASSUME NEW t, Laid(t), NEW k \in 1..Len(t.pathFrames)
  PROVE  /\ First(t, k) \in Nat /\ EndOf(t, k) \in Nat
         /\ First(t, k) <= EndOf(t, k) /\ EndOf(t, k) <= Len(t.stateIndexEntries)
         /\ \A c \in Nat : t.pathFrames[k].count = c <=> EndOf(t, k) = First(t, k) + c
         /\ \A c \in Nat : t.pathFrames[k].count > c <=> EndOf(t, k) > First(t, k) + c
PROOF
<1> DEFINE count == t.pathFrames[k].count
<1>1. /\ First(t, k) \in Nat /\ count \in Nat /\ EndOf(t, k) = First(t, k) + count
      /\ EndOf(t, k) \in Nat /\ EndOf(t, k) <= Len(t.stateIndexEntries)
  BY FramesInside DEF PathFrame
<1> HIDE DEF count
<1>2. /\ First(t, k) <= EndOf(t, k)
      /\ \A c \in Nat : count = c <=> EndOf(t, k) = First(t, k) + c
      /\ \A c \in Nat : count > c <=> EndOf(t, k) > First(t, k) + c
  BY <1>1
<1> QED BY <1>1, <1>2 DEF count

\* tryGetStateIndex drops entries that do not wait and no other.
LEMMA DroppedKeepsWaiting ==
  ASSUME NEW t, Laid(t), KeptBelow(t), NEW top \in 1..Len(t.pathFrames) - 1,
         t.pathFrames[top].count > 1, LiveFrames(t.pathFrames) # {},
         Max(LiveFrames(t.pathFrames)) = top
  PROVE  LET u == DroppedTo(t, top)
         IN  /\ WaitingPlaces(u) = WaitingPlaces(t)
             /\ \A k \in 1..Len(u.pathFrames) - 1 : EndOf(u, k) = EndOf(t, k)
PROOF
<1> DEFINE n == Len(t.pathFrames)
           u == DroppedTo(t, top)
           m == Len(u.stateIndexEntries)
           l == Len(t.stateIndexEntries)
<1>1. /\ n \in Nat /\ l \in Nat /\ top \in 1..n /\ top < n
  BY DEF Laid, Trackers
<1>2. \A k \in 1..n : /\ First(t, k) \in Nat /\ EndOf(t, k) \in Nat
                      /\ First(t, k) <= EndOf(t, k) /\ EndOf(t, k) <= l
  BY FrameNumbers
<1>3. /\ Laid(u) /\ Len(u.pathFrames) = top /\ m <= l
      /\ \A k \in 1..top :
           /\ First(u, k) = First(t, k)
           /\ u.pathFrames[k].count = t.pathFrames[k].count - (IF k = top THEN 1 ELSE 0)
  BY DroppedLaid
<1>4. m \in Nat /\ m = EndOf(u, top)
  BY <1>1, <1>3 DEF Laid, Trackers
<1> HIDE DEF u
<1>5. \A k \in 1..top : EndOf(u, k) = EndOf(t, k) - (IF k = top THEN 1 ELSE 0)
  <2> TAKE k \in 1..top
  <2> DEFINE count == t.pathFrames[k].count
  <2>1. First(t, k) \in Nat /\ count \in Nat /\ EndOf(t, k) = First(t, k) + count
    BY <1>1, FramesInside DEF PathFrame
  <2>2. EndOf(u, k) = First(t, k) + (count - (IF k = top THEN 1 ELSE 0))
    BY <1>3 DEF EndOf
  <2> HIDE DEF count
  <2> QED BY <2>1, <2>2
<1>6. m = EndOf(t, top) - 1 /\ EndOf(t, top) > First(t, top) + 1
  <2>1. top \in 1..top
    BY <1>1
  <2>2. EndOf(t, top) > First(t, top) + 1
    BY <1>1, FrameNumbers
  <2> QED BY <1>4, <1>5, <2>1, <2>2
<1> HIDE DEF m
<1>7. ASSUME NEW k \in 1..n, k > top
      PROVE  EndOf(t, k) = First(t, k) + (IF k = n THEN 0 ELSE 1)
  <2> DEFINE count == t.pathFrames[k].count
  <2>1. LiveFrames(t.pathFrames) \in SUBSET (1..n)
    BY DEF LiveFrames
  <2>2. k \notin LiveFrames(t.pathFrames)
    <3>1. \A y \in LiveFrames(t.pathFrames) : top >= y
      BY <1>1, <2>1, MaxIsLargest
    <3> QED BY <1>1, <1>7, <3>1
  <2>3. ~(count > IF k = n THEN 0 ELSE 1)
    BY <2>2 DEF LiveFrames
  <2>4. count >= IF k < n THEN 1 ELSE 0
    BY DEF KeptBelow
  <2>5. count \in Nat
    BY FramesInside DEF PathFrame
  <2> HIDE DEF count
  <2>6. count = IF k = n THEN 0 ELSE 1
    BY <1>1, <2>3, <2>4, <2>5
  <2>7. \A c \in Nat : count = c <=> EndOf(t, k) = First(t, k) + c
    BY FrameNumbers DEF count
  <2> QED BY <2>6, <2>7
<1>8. ASSUME NEW k \in 1..n - 1
      PROVE  EndOf(t, k) <= m <=> k < top
  <2>1. k \in 1..n
    BY <1>1
  <2>2. CASE k < top
    <3>1. EndOf(t, k) <= First(t, top)
      BY <1>1, <2>1, <2>2 DEF Laid
    <3> QED BY <1>1, <1>2, <1>6, <2>1, <2>2, <3>1
  <2>3. CASE k = top
    BY <1>1, <1>2, <1>6, <2>3
  <2>4. CASE k > top
    <3>1. EndOf(t, top) <= First(t, k)
      BY <1>1, <2>1, <2>4 DEF Laid
    <3> QED BY <1>1, <1>2, <1>6, <2>1, <2>4, <3>1
  <2> QED BY <1>1, <2>2, <2>3, <2>4
<1>9. ASSUME NEW j \in m + 1..l
      PROVE  \E k \in 1..n - 1 : j = EndOf(t, k)
  <2>1. j \in 1..l /\ j > m
    BY <1>1, <1>4
  <2>2. PICK k \in 1..n : First(t, k) < j /\ j <= EndOf(t, k)
    BY <2>1, PlaceInFrame
  <2>3. ~(k < top)
    <3> SUFFICES ASSUME k < top PROVE FALSE
      OBVIOUS
    <3>1. EndOf(t, k) <= First(t, top)
      BY <1>1 DEF Laid
    <3> QED BY <1>1, <1>2, <1>6, <2>1, <2>2, <3>1
  <2>4. CASE k = top
    <3>1. j = EndOf(t, top)
      BY <1>1, <1>2, <1>6, <2>1, <2>2, <2>4
    <3> QED BY <1>1, <3>1
  <2>5. CASE k > top
    <3>1. k # n /\ j = EndOf(t, k)
      BY <1>1, <1>2, <1>7, <2>1, <2>2, <2>5
    <3> QED BY <1>1, <3>1
  <2> QED BY <1>1, <2>3, <2>4, <2>5
<1>10. \A k \in 1..top - 1 : EndOf(u, k) = EndOf(t, k)
  <2> TAKE k \in 1..top - 1
  <2>1. k \in 1..n /\ k \in 1..top /\ k # top
    BY <1>1
  <2> QED BY <1>2, <1>5, <2>1
<1>11. WaitingPlaces(u) = WaitingPlaces(t)
  <2>1. ASSUME NEW j \in WaitingPlaces(u) PROVE j \in WaitingPlaces(t)
    <3>1. j \in 1..m /\ \A k \in 1..top - 1 : j # EndOf(u, k)
      BY <1>3 DEF WaitingPlaces, m
    <3>2. \A k \in 1..n - 1 : j # EndOf(t, k)
      BY <1>1, <1>4, <1>8, <1>10, <3>1
    <3> QED BY <1>1, <1>3, <1>4, <3>1, <3>2 DEF WaitingPlaces
  <2>2. ASSUME NEW j \in WaitingPlaces(t) PROVE j \in WaitingPlaces(u)
    <3>1. j \in 1..l /\ \A k \in 1..n - 1 : j # EndOf(t, k)
      BY DEF WaitingPlaces
    <3>2. j \in 1..m
      <4>1. j \notin m + 1..l
        BY <1>9, <3>1
      <4> QED BY <1>1, <1>4, <3>1, <4>1
    <3>3. \A k \in 1..top - 1 : j # EndOf(u, k)
      BY <1>1, <1>10, <3>1
    <3> QED BY <1>3, <3>2, <3>3 DEF WaitingPlaces, m
  <2> QED BY <2>1, <2>2
<1> QED BY <1>3, <1>10, <1>11 DEF u

LEMMA NothingLiveNothingWaits ==
  ASSUME NEW t, Laid(t), KeptBelow(t), LiveFrames(t.pathFrames) = {}
  PROVE  WaitingPlaces(t) = {}
PROOF
<1> DEFINE n == Len(t.pathFrames)
<1> SUFFICES ASSUME NEW j \in WaitingPlaces(t) PROVE FALSE
  OBVIOUS
<1>1. j \in 1..Len(t.stateIndexEntries) /\ \A k \in 1..n - 1 : j # EndOf(t, k)
  BY DEF WaitingPlaces
<1>2. PICK k \in 1..n : First(t, k) < j /\ j <= EndOf(t, k)
  BY <1>1, PlaceInFrame
<1>3. /\ n \in Nat /\ First(t, k) \in Nat /\ t.pathFrames[k].count \in Nat
      /\ EndOf(t, k) = First(t, k) + t.pathFrames[k].count
  <2>1. t \in Trackers
    BY DEF Laid
  <2>2. n \in Nat
    BY <2>1 DEF Trackers
  <2>3. /\ t.pathFrames[k] \in PathFrame /\ First(t, k) \in Nat
        /\ EndOf(t, k) = First(t, k) + t.pathFrames[k].count
    BY FramesInside
  <2>4. t.pathFrames[k].count \in Nat
    BY <2>3 DEF PathFrame
  <2> QED BY <2>2, <2>3, <2>4
<1>4. ~(t.pathFrames[k].count > IF k = n THEN 0 ELSE 1)
  BY DEF LiveFrames
<1>5. k # n /\ j = EndOf(t, k)
  BY <1>1, <1>2, <1>3, <1>4
<1> QED BY <1>1, <1>3, <1>5

\* What tryGetStateIndex leaves of the frames and the entries is as it was.
LEMMA SettledKeepsWaiting ==
  ASSUME NEW t, Laid(t), KeptBelow(t)
  PROVE  LET u == Settled(t)
         IN  /\ WaitingPlaces(u) = WaitingPlaces(t)
             /\ Len(u.pathFrames) <= Len(t.pathFrames)
             /\ Len(u.stateIndexEntries) <= Len(t.stateIndexEntries)
             /\ \A j \in 1..Len(u.stateIndexEntries) :
                  u.stateIndexEntries[j] = t.stateIndexEntries[j]
             /\ \A k \in 1..Len(u.pathFrames) :
                  First(u, k) = First(t, k) /\ EndOf(u, k) <= EndOf(t, k)
             /\ \A k \in 1..Len(u.pathFrames) - 1 : EndOf(u, k) = EndOf(t, k)
PROOF
<1> DEFINE n == Len(t.pathFrames)
           u == Settled(t)
<1>1. /\ t \in Trackers /\ n \in Nat /\ Len(t.stateIndexEntries) \in Nat
      /\ \A k \in 1..n : EndOf(t, k) \in Nat
  <2>1. t \in Trackers
    BY DEF Laid
  <2>2. n \in Nat /\ Len(t.stateIndexEntries) \in Nat
    BY <2>1 DEF Trackers
  <2>3. \A k \in 1..n : EndOf(t, k) \in Nat
    BY FramesInside
  <2> QED BY <2>1, <2>2, <2>3
<1>2. CASE LiveFrames(t.pathFrames) = {} /\ u = Cleared(t)
  <2> HIDE DEF u
  <2>1. /\ Len(u.pathFrames) = 0 /\ Len(u.stateIndexEntries) = 0
    BY <1>1, <1>2, ClearedLaid
  <2>2. WaitingPlaces(u) = {}
    BY <2>1 DEF WaitingPlaces
  <2> QED BY <1>1, <1>2, <2>1, <2>2, NothingLiveNothingWaits DEF u
<1>3. CASE u = t
  <2> HIDE DEF u
  <2>1. \A k \in 1..n : EndOf(t, k) <= EndOf(t, k)
    BY <1>1
  <2> QED BY <1>1, <1>3, <2>1 DEF u
<1>4. ASSUME NEW top \in 1..n - 1, t.pathFrames[top].count > 1,
             LiveFrames(t.pathFrames) # {}, Max(LiveFrames(t.pathFrames)) = top,
             u = DroppedTo(t, top)
      PROVE  /\ WaitingPlaces(u) = WaitingPlaces(t)
             /\ Len(u.pathFrames) <= Len(t.pathFrames)
             /\ Len(u.stateIndexEntries) <= Len(t.stateIndexEntries)
             /\ \A j \in 1..Len(u.stateIndexEntries) :
                  u.stateIndexEntries[j] = t.stateIndexEntries[j]
             /\ \A k \in 1..Len(u.pathFrames) :
                  First(u, k) = First(t, k) /\ EndOf(u, k) <= EndOf(t, k)
             /\ \A k \in 1..Len(u.pathFrames) - 1 : EndOf(u, k) = EndOf(t, k)
  <2> HIDE DEF u
  <2>1. /\ WaitingPlaces(u) = WaitingPlaces(t)
        /\ \A k \in 1..Len(u.pathFrames) - 1 : EndOf(u, k) = EndOf(t, k)
    BY <1>4, DroppedKeepsWaiting
  <2>2. /\ Len(u.pathFrames) = top
        /\ Len(u.stateIndexEntries) <= Len(t.stateIndexEntries)
        /\ \A j \in 1..Len(u.stateIndexEntries) :
             u.stateIndexEntries[j] = t.stateIndexEntries[j]
        /\ \A k \in 1..top :
             /\ First(u, k) = First(t, k)
             /\ u.pathFrames[k].count = t.pathFrames[k].count - (IF k = top THEN 1 ELSE 0)
    BY <1>4, DroppedLaid
  <2>3. \A k \in 1..top : First(t, k) \in Nat /\ t.pathFrames[k].count \in Nat
    BY <1>1, FramesInside DEF PathFrame
  <2>4. \A k \in 1..top : EndOf(u, k) <= EndOf(t, k)
    <3> TAKE k \in 1..top
    <3> DEFINE count == t.pathFrames[k].count
    <3>1. First(t, k) \in Nat /\ count \in Nat /\ EndOf(t, k) = First(t, k) + count
      BY <2>3 DEF EndOf
    <3>2. EndOf(u, k) = First(t, k) + (count - (IF k = top THEN 1 ELSE 0))
      BY <2>2 DEF EndOf
    <3> HIDE DEF count
    <3> QED BY <3>1, <3>2
  <2> QED BY <1>1, <2>1, <2>2, <2>4
<1> HIDE DEF u
<1>5. \/ LiveFrames(t.pathFrames) = {} /\ u = Cleared(t)
      \/ u = t
      \/ \E top \in 1..n - 1 :
           /\ t.pathFrames[top].count > 1
           /\ LiveFrames(t.pathFrames) # {}
           /\ Max(LiveFrames(t.pathFrames)) = top
           /\ u = DroppedTo(t, top)
  BY SettledCases DEF u
<1> QED BY <1>2, <1>3, <1>4, <1>5 DEF u

\* The last entry waits while its frame is the topmost one, and no longer
\* when a frame is pushed above it.
LEMMA LastPlaceWaits ==
  ASSUME NEW t, Laid(t), KeptAll(t), Len(t.pathFrames) > 0
  PROVE  Len(t.stateIndexEntries) \in WaitingPlaces(t)
PROOF
<1> DEFINE n == Len(t.pathFrames)
<1>1. /\ n \in Nat /\ n \in 1..n /\ Len(t.stateIndexEntries) \in Nat
      /\ Len(t.stateIndexEntries) = EndOf(t, n)
  BY DEF Laid, Trackers
<1>2. /\ First(t, n) \in Nat /\ EndOf(t, n) = First(t, n) + t.pathFrames[n].count
      /\ t.pathFrames[n].count \in Nat /\ t.pathFrames[n].count >= 1
  BY <1>1, FramesInside DEF PathFrame, KeptAll
<1>3. \A k \in 1..n - 1 : EndOf(t, k) \in Nat /\ EndOf(t, k) <= First(t, n)
  <2> TAKE k \in 1..n - 1
  <2>1. k \in 1..n /\ k < n
    BY <1>1
  <2>2. EndOf(t, k) <= First(t, n)
    BY <1>1, <2>1 DEF Laid
  <2> QED BY <2>1, <2>2, FramesInside
<1> QED BY <1>1, <1>2, <1>3 DEF WaitingPlaces

LEMMA WithFrameWaiting ==
  ASSUME NEW t, Laid(t), KeptAll(t)
  PROVE  /\ WaitingPlaces(WithFrame(t)) = WaitingPlaces(t) \ {Len(t.stateIndexEntries)}
         /\ \A k \in 1..Len(t.pathFrames) : EndOf(WithFrame(t), k) = EndOf(t, k)
PROOF
<1> DEFINE n == Len(t.pathFrames)
           m == Len(t.stateIndexEntries)
           u == WithFrame(t)
<1>1. n \in Nat /\ m \in Nat /\ m = IF n = 0 THEN 0 ELSE EndOf(t, n)
  BY DEF Laid, Trackers
<1>2. /\ u.stateIndexEntries = t.stateIndexEntries
      /\ Len(u.pathFrames) = n + 1
      /\ \A k \in 1..n : u.pathFrames[k] = t.pathFrames[k]
  BY WithFrameLaid
<1> HIDE DEF u
<1>3. \A k \in 1..n : EndOf(u, k) = EndOf(t, k)
  BY <1>1, <1>2 DEF EndOf, First
<1>4. {EndOf(u, k) : k \in 1..(n + 1) - 1} \cap 1..m
        = ({EndOf(t, k) : k \in 1..n - 1} \cup {m}) \cap 1..m
  <2>1. ASSUME n # 0
        PROVE  {EndOf(u, k) : k \in 1..(n + 1) - 1} = {EndOf(t, k) : k \in 1..n - 1} \cup {m}
    <3>1. (n + 1) - 1 = n /\ 1..n = (1..n - 1) \cup {n}
      BY <1>1, <2>1
    <3>2. {EndOf(u, k) : k \in 1..n} = {EndOf(t, k) : k \in 1..n}
      BY <1>3
    <3> QED BY <1>1, <2>1, <3>1, <3>2
  <2>2. CASE n = 0
    BY <1>1, <2>2
  <2> QED BY <2>1, <2>2
<1>5. WaitingPlaces(u) = WaitingPlaces(t) \ {m}
  BY <1>2, <1>4 DEF WaitingPlaces
<1> QED BY <1>3, <1>5 DEF u

\* pushStateIndex adds one that waits.
LEMMA WithStateIndexWaiting ==
  ASSUME NEW t, Laid(t), KeptBelow(t), NEW s \in StateIndexes, Len(t.pathFrames) > 0
  PROVE  LET u == WithStateIndex(t, s)
         IN  /\ WaitingPlaces(u) = WaitingPlaces(t) \cup {Len(t.stateIndexEntries) + 1}
             /\ \A k \in 1..Len(t.pathFrames) - 1 : EndOf(u, k) = EndOf(t, k)
PROOF
<1> DEFINE n == Len(t.pathFrames)
           m == Len(t.stateIndexEntries)
           u == WithStateIndex(t, s)
<1>1. /\ n \in Nat /\ m \in Nat /\ t.stateIndexEntries \in Seq(StateIndexes)
  BY DEF Laid, Trackers
<1>2. /\ Len(u.pathFrames) = n
      /\ u.stateIndexEntries = Append(t.stateIndexEntries, s)
      /\ \A k \in 1..n :
           /\ First(u, k) = First(t, k)
           /\ u.pathFrames[k].count = t.pathFrames[k].count + (IF k = n THEN 1 ELSE 0)
  BY WithStateIndexLaid
<1> HIDE DEF u
<1>3. Len(u.stateIndexEntries) = m + 1
  BY <1>1, <1>2
<1>4. \A k \in 1..n : /\ First(t, k) \in Nat /\ t.pathFrames[k].count \in Nat
                      /\ EndOf(t, k) \in Nat /\ EndOf(t, k) <= m
  BY FramesInside DEF PathFrame
<1>5. \A k \in 1..n - 1 : EndOf(u, k) = EndOf(t, k)
  BY <1>1, <1>2, <1>4 DEF EndOf
<1>6. {EndOf(u, k) : k \in 1..n - 1} = {EndOf(t, k) : k \in 1..n - 1}
  BY <1>5
<1>7. m + 1 \notin {EndOf(t, k) : k \in 1..n - 1}
  BY <1>1, <1>4
<1>8. 1..m + 1 = (1..m) \cup {m + 1}
  BY <1>1
<1>9. WaitingPlaces(u) = WaitingPlaces(t) \cup {m + 1}
  BY <1>2, <1>3, <1>6, <1>7, <1>8 DEF WaitingPlaces
<1> QED BY <1>5, <1>9 DEF u

\* Of numbers there is a least one.
LEMMA LeastNumber ==
  ASSUME NEW S \in SUBSET Nat, S # {}
  PROVE  \E x \in S : \A y \in S : x <= y
PROOF
<1> DEFINE R == OpToRel(<, Nat)
<1> HIDE DEF R
<1>1. IsWellFoundedOn(R, Nat)
  BY NatLessThanWellFounded DEF R
<1>2. PICK x \in S : \A y \in S : ~(<<y, x>> \in R)
  BY <1>1, WFMin
<1>3. \A y \in S : ~(y < x)
  BY <1>2 DEF OpToRel, R
<1> QED BY <1>3

\* There are no more frames than states that are expanded or wait.
LEMMA FramesWithinEntries ==
  ASSUME NEW t, Laid(t), KeptAll(t)
  PROVE  Len(t.pathFrames) <= Len(t.stateIndexEntries)
PROOF
<1> DEFINE n == Len(t.pathFrames)
           Short == {k \in 1..n : EndOf(t, k) < k}
<1>1. n \in Nat /\ Len(t.stateIndexEntries) = IF n = 0 THEN 0 ELSE EndOf(t, n)
  BY DEF Laid, Trackers
<1>2. \A k \in 1..n : First(t, k) \in Nat /\ EndOf(t, k) \in Nat /\ EndOf(t, k) > First(t, k)
  <2> TAKE k \in 1..n
  <2>1. t.pathFrames[k].count > 0
    BY FramesInside DEF KeptAll, PathFrame
  <2>2. /\ First(t, k) \in Nat /\ EndOf(t, k) \in Nat
        /\ \A c \in Nat : t.pathFrames[k].count > c <=> EndOf(t, k) > First(t, k) + c
    BY FrameNumbers
  <2> QED BY <2>1, <2>2
<1>3. Short = {}
  <2> SUFFICES ASSUME Short # {} PROVE FALSE
    OBVIOUS
  <2>1. Short \in SUBSET Nat
    BY <1>1
  <2>2. PICK k \in Short : \A l \in Short : k <= l
    <3> HIDE DEF Short
    <3> QED BY <2>1, LeastNumber
  <2>3. CASE k = 1
    BY <1>1, <1>2, <2>2, <2>3
  <2>4. CASE k # 1
    <3>1. k - 1 \in 1..n /\ k \in 1..n /\ k - 1 \notin Short
      BY <1>1, <2>2, <2>4
    <3>2. First(t, k) = EndOf(t, k - 1)
      BY <2>4, <3>1 DEF Laid
    <3>3. EndOf(t, k - 1) >= k - 1
      BY <1>2, <3>1
    <3> QED BY <1>2, <2>2, <3>1, <3>2, <3>3
  <2> QED BY <2>3, <2>4
<1>4. n # 0 => n \in 1..n /\ n \notin Short
  BY <1>1, <1>3
<1> QED BY <1>1, <1>2, <1>4

-----------------------------------------------------------------------------
LEMMA InitIsLaid == Init => IInv
PROOF
<1> SUFFICES ASSUME Init PROVE IInv
  OBVIOUS
<1>1. /\ tracker = [pathFrames |-> <<>>, stateIndexEntries |-> <<>>,
                    lowestSplittableFrame |-> -1]
      /\ pushed = -1 /\ got = -1
  BY DEF Init, EmptyTracker, NoFrame
<1>2. /\ tracker \in Trackers
      /\ Len(tracker.pathFrames) = 0 /\ Len(tracker.stateIndexEntries) = 0
  BY <1>1 DEF Trackers
<1>3. Laid(tracker) /\ KeptBelow(tracker)
  BY <1>2 DEF Laid, KeptBelow, KeptAll
<1> QED BY <1>1, <1>2, <1>3, TrackerAssumption DEF IInv, NoFrame

LEMMA NextKeepsLaid == IInv /\ [Next]_vars => IInv'
PROOF
<1> SUFFICES ASSUME IInv, [Next]_vars PROVE IInv'
  OBVIOUS
<1> USE TrackerAssumption
<1> DEFINE n == Len(tracker.pathFrames)
           m == Len(tracker.stateIndexEntries)
<1>1. /\ tracker \in Trackers /\ Laid(tracker) /\ n \in Nat /\ m \in Nat
      /\ tracker.pathFrames \in Seq(PathFrame)
      /\ n <= MaxEntries /\ m <= MaxEntries /\ (Debug => m <= Capacity)
      /\ tracker.lowestSplittableFrame \in NoFrame..MaxEntries
      /\ pushed \in StateIndexes \cup {-1} /\ got \in StateIndexes \cup {-1}
      /\ -1 \notin StateIndexes
  BY DEF IInv, Laid, Trackers
<1>2. n = 0 <=> tracker.pathFrames = <<>>
  BY <1>1
<1>3. KeptBelow(tracker) /\ (got # -1 => KeptAll(tracker))
  BY DEF IInv
<1>4. CASE PushFrame
  <2>1. KeptAll(tracker)
    <3>1. CASE tracker.pathFrames = <<>>
      BY <1>2, <3>1 DEF KeptAll
    <3>2. CASE got # -1
      BY <1>3, <3>2
    <3> QED BY <1>4, <3>1, <3>2 DEF PushFrame
  <2>2. /\ tracker' = WithFrame(tracker) /\ pushed' = -1 /\ got' = -1
        /\ n < MaxEntries
    BY <1>4 DEF PushFrame
  <2>3. /\ Laid(tracker') /\ KeptBelow(tracker')
        /\ tracker'.stateIndexEntries = tracker.stateIndexEntries
        /\ tracker'.lowestSplittableFrame = tracker.lowestSplittableFrame
        /\ Len(tracker'.pathFrames) = n + 1
    BY <1>1, <2>1, <2>2, WithFrameLaid
  <2> QED BY <1>1, <2>2, <2>3 DEF IInv
<1>5. ASSUME NEW s \in StateIndexes, PushStateIndex(s) PROVE IInv'
  <2>1. /\ tracker' = WithStateIndex(tracker, s) /\ pushed' = s /\ got' = -1 /\ got = -1
        /\ m < MaxEntries /\ tracker.pathFrames # <<>> /\ ~RefusesEntry(tracker)
    BY <1>5 DEF PushStateIndex
  <2>2. n > 0
    BY <1>1, <1>2, <2>1
  <2>3. /\ Laid(tracker') /\ KeptBelow(tracker')
        /\ Len(tracker'.pathFrames) = n
        /\ tracker'.stateIndexEntries = Append(tracker.stateIndexEntries, s)
        /\ tracker'.lowestSplittableFrame \in {tracker.lowestSplittableFrame, n - 1}
    BY <1>1, <1>3, <2>1, <2>2, WithStateIndexLaid
  <2>4. Len(tracker'.stateIndexEntries) = m + 1
    BY <1>1, <2>3 DEF Trackers
  <2>5. Debug => m < Capacity
    <3>1. m = End(Last(tracker.pathFrames))
      BY <1>1, <2>2 DEF Laid, End, Last, EndOf, First
    <3> QED BY <1>1, <2>1, <3>1 DEF RefusesEntry
  <2>6. tracker'.lowestSplittableFrame \in NoFrame..MaxEntries
    BY <1>1, <2>2, <2>3 DEF NoFrame
  <2> QED BY <1>1, <2>1, <2>3, <2>4, <2>5, <2>6 DEF IInv
<1>6. CASE TryGetStateIndex
  <2>1. /\ tracker' = Settled(tracker) /\ pushed' = -1
        /\ got' = IF tracker'.pathFrames = <<>> THEN -1 ELSE Topmost(tracker')
    BY <1>6 DEF TryGetStateIndex
  <2>2. /\ Laid(tracker') /\ KeptAll(tracker')
        /\ Len(tracker'.pathFrames) <= n
        /\ Len(tracker'.stateIndexEntries) <= m
        /\ tracker'.lowestSplittableFrame = tracker.lowestSplittableFrame
    BY <1>1, <1>3, <2>1, SettledLaid
  <2>3. /\ Len(tracker'.pathFrames) \in Nat /\ Len(tracker'.stateIndexEntries) \in Nat
        /\ tracker'.pathFrames # <<>> => Len(tracker'.pathFrames) > 0
    BY <2>2 DEF Laid, Trackers
  <2>4. got' \in StateIndexes \cup {-1} /\ (got' = -1 => tracker'.pathFrames = <<>>)
    BY <1>1, <2>1, <2>2, <2>3, TopmostIsEntry
  <2>5. KeptBelow(tracker')
    BY <2>2, AllKeptAreKeptBelow
  <2> QED BY <1>1, <2>1, <2>2, <2>3, <2>4, <2>5 DEF IInv
<1>7. CASE Clear
  BY <1>1, <1>7, ClearedLaid DEF Clear, IInv
<1>8. CASE UNCHANGED vars
  BY <1>8 DEF vars, IInv
<1> QED BY <1>4, <1>5, <1>6, <1>7, <1>8 DEF Next

\* The invariant by which frames lie in order in the vector is inductive.
THEOREM TrackerInductive == Spec => []IInv
PROOF BY InitIsLaid, NextKeepsLaid, PTL DEF Spec

\* The frames tile the vector of entries for every client and every capacity:
\* the assertion of the DEBUG build in pushStateIndex never fails.
THEOREM FramesTileEntriesHolds == Spec => []FramesTileEntries
PROOF
<1>1. IInv => FramesTileEntries
  <2> SUFFICES ASSUME IInv PROVE FramesTileEntries
    OBVIOUS
  <2>1. /\ Laid(tracker) /\ Len(tracker.pathFrames) \in Nat
        /\ tracker.pathFrames = <<>> <=> Len(tracker.pathFrames) = 0
    BY DEF IInv, Laid, Trackers
  <2> QED BY <2>1 DEF Laid, FramesTileEntries, End, Last, EndOf, First
<1> QED BY <1>1, TrackerInductive, PTL

\* Every member keeps to its domain, and a DEBUG build to the capacity.
THEOREM TypeCorrect == Spec => []TypeOK
PROOF
<1>1. IInv => TypeOK
  <2> SUFFICES ASSUME IInv PROVE TypeOK
    OBVIOUS
  <2> USE TrackerAssumption
  <2>1. /\ Laid(tracker) /\ tracker.stateIndexEntries \in Seq(StateIndexes)
        /\ Len(tracker.stateIndexEntries) \in Nat
    BY DEF IInv, Laid, Trackers
  <2>2. ASSUME NEW k \in 1..Len(tracker.pathFrames)
        PROVE  tracker.pathFrames[k] \in
                 [indexOfFirstStateIndexEntry : 0..MaxEntries, count : 0..MaxEntries]
    <3>1. /\ tracker.pathFrames[k] \in PathFrame
          /\ EndOf(tracker, k) <= MaxEntries
          /\ First(tracker, k) \in Nat
          /\ EndOf(tracker, k) = First(tracker, k) + tracker.pathFrames[k].count
      BY <2>1, FramesInside DEF IInv
    <3> QED BY <3>1 DEF PathFrame, First
  <2> QED BY <2>1, <2>2 DEF IInv, TypeOK
<1> QED BY <1>1, TrackerInductive, PTL

-----------------------------------------------------------------------------
\* The stack that a tracker stands for.
Contents(t, k) == SubSeq(t.stateIndexEntries, First(t, k) + 1, EndOf(t, k))

StackOf(t) == [k \in 1..Len(t.pathFrames) |-> Contents(t, k)]

LEMMA ContentsOfFrame ==
  ASSUME NEW t, Laid(t), NEW k \in 1..Len(t.pathFrames)
  PROVE  /\ Contents(t, k) \in Seq(StateIndexes)
         /\ Len(Contents(t, k)) = t.pathFrames[k].count
         /\ t.pathFrames[k].count \in Nat
         /\ \A j \in 1..t.pathFrames[k].count :
              Contents(t, k)[j] = t.stateIndexEntries[First(t, k) + j]
PROOF
<1> DEFINE a == First(t, k)
           c == t.pathFrames[k].count
           e == t.stateIndexEntries
<1>1. /\ a \in Nat /\ c \in Nat /\ EndOf(t, k) = a + c /\ a + c <= Len(e)
      /\ e \in Seq(StateIndexes)
  BY FramesInside DEF PathFrame, Laid, Trackers
<1> HIDE DEF a, c, e
<1>2. \A i \in a + 1..a + c : e[i] \in StateIndexes
  BY <1>1
<1>3. /\ SubSeq(e, a + 1, a + c) \in Seq(StateIndexes)
      /\ Len(SubSeq(e, a + 1, a + c)) = IF a + 1 <= a + c THEN a + c - (a + 1) + 1 ELSE 0
      /\ \A i \in 1..a + c - (a + 1) + 1 : SubSeq(e, a + 1, a + c)[i] = e[a + 1 + i - 1]
  BY <1>1, <1>2, SubSeqProperties
<1>4. /\ Len(SubSeq(e, a + 1, a + c)) = c
      /\ \A j \in 1..c : SubSeq(e, a + 1, a + c)[j] = e[a + j]
  BY <1>1, <1>3
<1>5. Contents(t, k) = SubSeq(e, a + 1, a + c)
  BY <1>1 DEF Contents, a, e
<1> QED BY <1>1, <1>3, <1>4, <1>5 DEF a, c, e

LEMMA StackIsSequence ==
  ASSUME NEW t, Laid(t)
  PROVE  /\ StackOf(t) \in Seq(Seq(StateIndexes))
         /\ Len(StackOf(t)) = Len(t.pathFrames)
         /\ Len(t.pathFrames) \in Nat
         /\ \A k \in 1..Len(t.pathFrames) : StackOf(t)[k] = Contents(t, k)
PROOF
<1>1. Len(t.pathFrames) \in Nat
  BY DEF Laid, Trackers
<1>2. \A k \in 1..Len(t.pathFrames) : Contents(t, k) \in Seq(StateIndexes)
  BY ContentsOfFrame
<1> QED BY <1>1, <1>2 DEF StackOf

\* Frames with the same entries have the same contents.
LEMMA SameContents ==
  ASSUME NEW t, NEW u, Laid(t), Laid(u),
         NEW k \in 1..Len(t.pathFrames), k \in 1..Len(u.pathFrames),
         First(u, k) = First(t, k), u.pathFrames[k].count = t.pathFrames[k].count,
         \A j \in 1..EndOf(t, k) : u.stateIndexEntries[j] = t.stateIndexEntries[j]
  PROVE  Contents(u, k) = Contents(t, k)
PROOF
<1> DEFINE c == t.pathFrames[k].count
<1>1. /\ Contents(t, k) \in Seq(StateIndexes) /\ Contents(u, k) \in Seq(StateIndexes)
      /\ Len(Contents(t, k)) = c /\ Len(Contents(u, k)) = c /\ c \in Nat
      /\ \A j \in 1..c : Contents(t, k)[j] = t.stateIndexEntries[First(t, k) + j]
      /\ \A j \in 1..c : Contents(u, k)[j] = u.stateIndexEntries[First(t, k) + j]
  BY ContentsOfFrame
<1>2. \A j \in 1..c : First(t, k) + j \in 1..EndOf(t, k)
  <2>1. First(t, k) \in Nat /\ EndOf(t, k) = First(t, k) + c
    BY FramesInside
  <2> HIDE DEF c
  <2> QED BY <1>1, <2>1
<1>3. \A j \in 1..Len(Contents(t, k)) : Contents(u, k)[j] = Contents(t, k)[j]
  BY <1>1, <1>2
<1> QED BY <1>1, <1>3, SeqEqual

-----------------------------------------------------------------------------
LEMMA WithFrameOpens ==
  ASSUME NEW t, Laid(t), KeptAll(t)
  PROVE  StackOf(WithFrame(t)) = Append(StackOf(t), <<>>)
PROOF
<1> DEFINE n == Len(t.pathFrames)
           u == WithFrame(t)
<1>1. /\ Laid(u) /\ Len(u.pathFrames) = n + 1
      /\ u.stateIndexEntries = t.stateIndexEntries
      /\ \A k \in 1..n : u.pathFrames[k] = t.pathFrames[k]
      /\ u.pathFrames[n + 1].count = 0
  BY WithFrameLaid
<1> HIDE DEF u
<1>2. /\ StackOf(t) \in Seq(Seq(StateIndexes)) /\ Len(StackOf(t)) = n /\ n \in Nat
      /\ \A k \in 1..n : StackOf(t)[k] = Contents(t, k)
      /\ StackOf(u) \in Seq(Seq(StateIndexes)) /\ Len(StackOf(u)) = n + 1
      /\ \A k \in 1..n + 1 : StackOf(u)[k] = Contents(u, k)
  BY <1>1, StackIsSequence
<1>3. ASSUME NEW k \in 1..n PROVE Contents(u, k) = Contents(t, k)
  <2>1. k \in 1..Len(u.pathFrames)
    BY <1>1, <1>2
  <2>2. First(u, k) = First(t, k) /\ u.pathFrames[k].count = t.pathFrames[k].count
    BY <1>1 DEF First
  <2>3. \A j \in 1..EndOf(t, k) : u.stateIndexEntries[j] = t.stateIndexEntries[j]
    BY <1>1
  <2> QED BY <1>1, <2>1, <2>2, <2>3, SameContents
<1>4. Contents(u, n + 1) = <<>>
  <2>1. n + 1 \in 1..Len(u.pathFrames)
    BY <1>1, <1>2
  <2>2. Contents(u, n + 1) \in Seq(StateIndexes) /\ Len(Contents(u, n + 1)) = 0
    BY <1>1, <2>1, ContentsOfFrame
  <2> QED BY <2>2
<1> DEFINE a == Append(StackOf(t), <<>>)
<1>5. /\ a \in Seq(Seq(StateIndexes)) /\ Len(a) = n + 1
      /\ \A k \in 1..n : a[k] = StackOf(t)[k]
      /\ a[n + 1] = <<>>
  <2>1. <<>> \in Seq(StateIndexes)
    BY EmptySeq
  <2> QED BY <1>2, <2>1, AppendProperties
<1> HIDE DEF a
<1>6. \A k \in 1..n + 1 : StackOf(u)[k] = a[k]
  <2> TAKE k \in 1..n + 1
  <2>1. k \in 1..n \/ k = n + 1
    BY <1>2
  <2> QED BY <1>2, <1>3, <1>4, <1>5, <2>1
<1>7. StackOf(u) = a
  BY <1>2, <1>5, <1>6, SeqEqual
<1> QED BY <1>7 DEF a, u

LEMMA WithStateIndexAdds ==
  ASSUME NEW t, Laid(t), KeptBelow(t), NEW s \in StateIndexes, Len(t.pathFrames) > 0
  PROVE  StackOf(WithStateIndex(t, s)) =
           [StackOf(t) EXCEPT ![Len(t.pathFrames)] = Append(@, s)]
PROOF
<1> DEFINE n == Len(t.pathFrames)
           m == Len(t.stateIndexEntries)
           u == WithStateIndex(t, s)
<1>1. /\ Laid(u) /\ Len(u.pathFrames) = n
      /\ u.stateIndexEntries = Append(t.stateIndexEntries, s)
      /\ \A k \in 1..n :
           /\ First(u, k) = First(t, k)
           /\ u.pathFrames[k].count = t.pathFrames[k].count + (IF k = n THEN 1 ELSE 0)
  BY WithStateIndexLaid
<1> HIDE DEF u
<1>2. /\ StackOf(t) \in Seq(Seq(StateIndexes)) /\ Len(StackOf(t)) = n /\ n \in Nat
      /\ \A k \in 1..n : StackOf(t)[k] = Contents(t, k)
      /\ StackOf(u) \in Seq(Seq(StateIndexes)) /\ Len(StackOf(u)) = n
      /\ \A k \in 1..n : StackOf(u)[k] = Contents(u, k)
  BY <1>1, StackIsSequence
<1>3. /\ m \in Nat
      /\ \A j \in 1..m : u.stateIndexEntries[j] = t.stateIndexEntries[j]
      /\ u.stateIndexEntries[m + 1] = s
  <2>1. t.stateIndexEntries \in Seq(StateIndexes)
    BY DEF Laid, Trackers
  <2> QED BY <1>1, <2>1, AppendProperties
<1>4. ASSUME NEW k \in 1..n PROVE EndOf(t, k) \in Nat /\ EndOf(t, k) <= m
  BY FramesInside
<1>5. ASSUME NEW k \in 1..n, k # n PROVE Contents(u, k) = Contents(t, k)
  <2>1. \A j \in 1..EndOf(t, k) : u.stateIndexEntries[j] = t.stateIndexEntries[j]
    BY <1>3, <1>4
  <2>2. u.pathFrames[k].count = t.pathFrames[k].count
    <3>1. t.pathFrames[k].count \in Nat
      BY ContentsOfFrame
    <3> QED BY <1>1, <1>5, <3>1
  <2> QED BY <1>1, <2>1, <2>2, SameContents
<1>6. Contents(u, n) = Append(Contents(t, n), s)
  <2> DEFINE c == t.pathFrames[n].count
             x == Append(Contents(t, n), s)
  <2>1. n \in 1..n /\ n \in 1..Len(u.pathFrames)
    BY <1>1, <1>2
  <2>2. /\ Contents(t, n) \in Seq(StateIndexes) /\ Len(Contents(t, n)) = c /\ c \in Nat
        /\ \A j \in 1..c : Contents(t, n)[j] = t.stateIndexEntries[First(t, n) + j]
    BY <2>1, ContentsOfFrame
  <2>3. /\ Contents(u, n) \in Seq(StateIndexes) /\ Len(Contents(u, n)) = c + 1
        /\ \A j \in 1..c + 1 : Contents(u, n)[j] = u.stateIndexEntries[First(t, n) + j]
    <3>1. u.pathFrames[n].count = c + 1 /\ First(u, n) = First(t, n)
      BY <1>1, <2>1
    <3>2. /\ Contents(u, n) \in Seq(StateIndexes)
          /\ Len(Contents(u, n)) = u.pathFrames[n].count
          /\ \A j \in 1..u.pathFrames[n].count :
               Contents(u, n)[j] = u.stateIndexEntries[First(u, n) + j]
      <4> HIDE DEF n
      <4> QED BY <1>1, <2>1, ContentsOfFrame
    <3> HIDE DEF c
    <3> QED BY <3>1, <3>2
  <2>4. /\ x \in Seq(StateIndexes) /\ Len(x) = c + 1
        /\ \A j \in 1..c : x[j] = Contents(t, n)[j]
        /\ x[c + 1] = s
    BY <2>2, AppendProperties
  <2>5. First(t, n) + c = m /\ First(t, n) \in Nat
    <3>1. First(t, n) \in Nat /\ EndOf(t, n) = First(t, n) + c
      BY <2>1, FramesInside
    <3>2. m = EndOf(t, n)
      BY <1>2 DEF Laid
    <3> QED BY <3>1, <3>2
  <2> HIDE DEF c, x
  <2>6. ASSUME NEW j \in 1..c + 1 PROVE Contents(u, n)[j] = x[j]
    <3>1. CASE j \in 1..c
      <4>1. First(t, n) + j \in 1..m
        BY <2>2, <2>5, <3>1
      <4> QED BY <1>3, <2>2, <2>3, <2>4, <3>1, <4>1
    <3>2. CASE j = c + 1
      <4>1. First(t, n) + j = m + 1
        BY <2>2, <2>5, <3>2
      <4> QED BY <1>3, <2>3, <2>4, <3>2, <4>1
    <3> QED BY <2>2, <3>1, <3>2
  <2>7. Contents(u, n) = x
    BY <2>3, <2>4, <2>6, SeqEqual
  <2> QED BY <2>7 DEF x
<1> DEFINE a == [StackOf(t) EXCEPT ![n] = Append(@, s)]
<1>7. /\ a \in Seq(Seq(StateIndexes)) /\ Len(a) = n
      /\ \A k \in 1..n : a[k] = IF k = n THEN Append(Contents(t, n), s) ELSE StackOf(t)[k]
  <2>1. n \in 1..n
    BY <1>2
  <2>2. a = [StackOf(t) EXCEPT ![n] = Append(Contents(t, n), s)]
    BY <1>2, <2>1
  <2>3. Append(Contents(t, n), s) \in Seq(StateIndexes)
    BY <2>1, ContentsOfFrame, AppendProperties
  <2> HIDE DEF a
  <2> QED BY <1>2, <2>1, <2>2, <2>3, ExceptSeq
<1> HIDE DEF a
<1>8. \A k \in 1..n : StackOf(u)[k] = a[k]
  BY <1>2, <1>5, <1>6, <1>7
<1>9. StackOf(u) = a
  BY <1>2, <1>7, <1>8, SeqEqual
<1> QED BY <1>9 DEF a, u

LEMMA DroppedContents ==
  ASSUME NEW t, Laid(t), KeptBelow(t), NEW top \in 1..Len(t.pathFrames) - 1,
         t.pathFrames[top].count > 1
  PROVE  StackOf(DroppedTo(t, top)) =
           Append(SubSeq(StackOf(t), 1, top - 1), Front(StackOf(t)[top]))
PROOF
<1> DEFINE n == Len(t.pathFrames)
           u == DroppedTo(t, top)
           c == t.pathFrames[top].count
<1>1. /\ Laid(u) /\ Len(u.pathFrames) = top
      /\ \A j \in 1..Len(u.stateIndexEntries) :
           u.stateIndexEntries[j] = t.stateIndexEntries[j]
      /\ \A k \in 1..top :
           /\ First(u, k) = First(t, k)
           /\ u.pathFrames[k].count = t.pathFrames[k].count - (IF k = top THEN 1 ELSE 0)
  BY DroppedLaid
<1> HIDE DEF u
<1>2. /\ StackOf(t) \in Seq(Seq(StateIndexes)) /\ Len(StackOf(t)) = n /\ n \in Nat
      /\ \A k \in 1..n : StackOf(t)[k] = Contents(t, k)
      /\ StackOf(u) \in Seq(Seq(StateIndexes)) /\ Len(StackOf(u)) = top
      /\ \A k \in 1..top : StackOf(u)[k] = Contents(u, k)
  BY <1>1, StackIsSequence
<1>3. top \in Nat \ {0} /\ top < n /\ top \in 1..n /\ top \in 1..top
  BY <1>2
<1>4. ASSUME NEW k \in 1..top
      PROVE  /\ EndOf(u, k) \in Nat /\ EndOf(u, k) <= Len(u.stateIndexEntries)
             /\ EndOf(u, k) = First(u, k) + u.pathFrames[k].count /\ First(u, k) \in Nat
  BY <1>1, FramesInside
<1>5. ASSUME NEW k \in 1..top, k # top PROVE Contents(u, k) = Contents(t, k)
  <2>1. k \in 1..n
    BY <1>3
  <2>2. t.pathFrames[k].count \in Nat
    BY <2>1, ContentsOfFrame
  <2>3. First(u, k) = First(t, k) /\ u.pathFrames[k].count = t.pathFrames[k].count
    BY <1>1, <1>5, <2>2
  <2>4. EndOf(t, k) = EndOf(u, k)
    BY <2>3 DEF EndOf
  <2>5. Len(u.stateIndexEntries) \in Nat
    BY <1>1 DEF Laid, Trackers
  <2>6. \A j \in 1..EndOf(t, k) : u.stateIndexEntries[j] = t.stateIndexEntries[j]
    <3>1. EndOf(u, k) \in Nat /\ EndOf(u, k) <= Len(u.stateIndexEntries)
      BY <1>4
    <3> TAKE j \in 1..EndOf(t, k)
    <3>2. j \in 1..Len(u.stateIndexEntries)
      BY <2>4, <2>5, <3>1
    <3> QED BY <1>1, <3>2
  <2> QED BY <1>1, <2>1, <2>3, <2>6, SameContents
<1>6. /\ Contents(t, top) \in Seq(StateIndexes) /\ Len(Contents(t, top)) = c /\ c \in Nat
      /\ \A j \in 1..c : Contents(t, top)[j] = t.stateIndexEntries[First(t, top) + j]
  BY <1>3, ContentsOfFrame
<1>7. /\ Contents(u, top) \in Seq(StateIndexes) /\ Len(Contents(u, top)) = c - 1
      /\ \A j \in 1..c - 1 : Contents(u, top)[j] = u.stateIndexEntries[First(t, top) + j]
  <2>1. u.pathFrames[top].count = c - 1 /\ First(u, top) = First(t, top)
    BY <1>1, <1>3
  <2>2. /\ Contents(u, top) \in Seq(StateIndexes)
        /\ Len(Contents(u, top)) = u.pathFrames[top].count
        /\ \A j \in 1..u.pathFrames[top].count :
             Contents(u, top)[j] = u.stateIndexEntries[First(u, top) + j]
    BY <1>1, <1>3, ContentsOfFrame
  <2> HIDE DEF c
  <2> QED BY <2>1, <2>2
<1>8. Contents(u, top) = Front(Contents(t, top))
  <2> DEFINE x == SubSeq(Contents(t, top), 1, c - 1)
             y == Contents(t, top)
  <2>1. \A i \in 1..c - 1 : y[i] \in StateIndexes
    <3> HIDE DEF c
    <3> QED BY <1>6
  <2>2. c - 1 \in Nat
    BY <1>6
  <2>3. x \in Seq(StateIndexes) /\ Len(x) = c - 1 /\ \A i \in 1..c - 1 : x[i] = y[i]
    <3> HIDE DEF c, y
    <3>1. /\ SubSeq(y, 1, c - 1) \in Seq(StateIndexes)
          /\ Len(SubSeq(y, 1, c - 1)) = IF 1 <= c - 1 THEN c - 1 - 1 + 1 ELSE 0
          /\ \A i \in 1..c - 1 - 1 + 1 : SubSeq(y, 1, c - 1)[i] = y[1 + i - 1]
      BY <2>1, <2>2, SubSeqProperties
    <3> QED BY <2>2, <3>1 DEF y
  <2>4. \A i \in 1..c - 1 : Contents(u, top)[i] = x[i]
    <3> TAKE i \in 1..c - 1
    <3>1. i \in 1..c
      BY <1>6
    <3>2. First(t, top) + i \in 1..Len(u.stateIndexEntries)
      <4>1. EndOf(u, top) = First(t, top) + (c - 1) /\ First(t, top) \in Nat
            /\ EndOf(u, top) <= Len(u.stateIndexEntries)
        BY <1>1, <1>3, <1>4
      <4>2. Len(u.stateIndexEntries) \in Nat
        BY <1>1 DEF Laid, Trackers
      <4> HIDE DEF c
      <4> QED BY <1>6, <4>1, <4>2
    <3>3. Contents(u, top)[i] = u.stateIndexEntries[First(t, top) + i]
      BY <1>7
    <3>4. Contents(t, top)[i] = t.stateIndexEntries[First(t, top) + i]
      BY <1>6, <3>1
    <3>5. u.stateIndexEntries[First(t, top) + i] = t.stateIndexEntries[First(t, top) + i]
      BY <1>1, <3>2
    <3>6. x[i] = y[i]
      BY <2>3
    <3> QED BY <3>3, <3>4, <3>5, <3>6
  <2>5. Contents(u, top) = x
    <3> HIDE DEF x
    <3> QED BY <1>7, <2>3, <2>4, SeqEqual
  <2> QED BY <1>6, <2>5 DEF Front
<1> DEFINE below == SubSeq(StackOf(t), 1, top - 1)
           a == Append(below, Front(StackOf(t)[top]))
<1>9. /\ below \in Seq(Seq(StateIndexes)) /\ Len(below) = top - 1
      /\ \A k \in 1..top - 1 : below[k] = StackOf(t)[k]
  <2> DEFINE y == StackOf(t)
  <2>1. \A k \in 1..top - 1 : y[k] \in Seq(StateIndexes)
    BY <1>2, <1>3
  <2>2. top - 1 \in Nat
    BY <1>3
  <2> HIDE DEF y
  <2>3. /\ SubSeq(y, 1, top - 1) \in Seq(Seq(StateIndexes))
        /\ Len(SubSeq(y, 1, top - 1)) = IF 1 <= top - 1 THEN top - 1 - 1 + 1 ELSE 0
        /\ \A i \in 1..top - 1 - 1 + 1 : SubSeq(y, 1, top - 1)[i] = y[1 + i - 1]
    BY <2>1, <2>2, SubSeqProperties
  <2>4. /\ SubSeq(y, 1, top - 1) \in Seq(Seq(StateIndexes))
        /\ Len(SubSeq(y, 1, top - 1)) = top - 1
        /\ \A i \in 1..top - 1 : SubSeq(y, 1, top - 1)[i] = y[i]
    BY <2>2, <2>3
  <2> QED BY <2>4 DEF y
<1> HIDE DEF below
<1>10. /\ a \in Seq(Seq(StateIndexes)) /\ Len(a) = top
       /\ \A k \in 1..top - 1 : a[k] = StackOf(t)[k]
       /\ a[top] = Contents(u, top)
  <2>1. Front(StackOf(t)[top]) = Contents(u, top)
    BY <1>2, <1>3, <1>8
  <2>2. /\ a \in Seq(Seq(StateIndexes)) /\ Len(a) = Len(below) + 1
        /\ \A k \in 1..Len(below) : a[k] = below[k]
        /\ a[Len(below) + 1] = Contents(u, top)
    BY <1>7, <1>9, <2>1, AppendProperties
  <2> HIDE DEF a
  <2> QED BY <1>3, <1>9, <2>2
<1> HIDE DEF a
<1>11. \A k \in 1..top : StackOf(u)[k] = a[k]
  <2> TAKE k \in 1..top
  <2>1. k = top \/ (k \in 1..top - 1 /\ k # top /\ k \in 1..n)
    BY <1>3
  <2> QED BY <1>2, <1>5, <1>10, <2>1
<1>12. StackOf(u) = a
  BY <1>2, <1>10, <1>11, SeqEqual
<1> QED BY <1>12 DEF a, u, below

-----------------------------------------------------------------------------
\* The frames that have a state left are the same in both.
LEMMA SameLiveFrames ==
  ASSUME NEW t, Laid(t)
  PROVE  LiveFrames(t.pathFrames) =
           {k \in 1..Len(StackOf(t)) :
              Len(StackOf(t)[k]) > (IF k = Len(StackOf(t)) THEN 0 ELSE 1)}
PROOF
<1>1. \A k \in 1..Len(t.pathFrames) : Len(StackOf(t)[k]) = t.pathFrames[k].count
  BY StackIsSequence, ContentsOfFrame
<1>2. Len(StackOf(t)) = Len(t.pathFrames)
  BY StackIsSequence
<1> QED BY <1>1, <1>2 DEF LiveFrames

LEMMA SettledDropsEnumerated ==
  ASSUME NEW t, Laid(t), KeptBelow(t)
  PROVE  StackOf(Settled(t)) = Stack!DropEnumerated(StackOf(t))
PROOF
<1> DEFINE n == Len(t.pathFrames)
           live == LiveFrames(t.pathFrames)
<1>1. Stack!DropEnumerated(StackOf(t)) =
        IF live = {} THEN <<>>
        ELSE IF Max(live) = n THEN StackOf(t)
        ELSE Append(SubSeq(StackOf(t), 1, Max(live) - 1), Front(StackOf(t)[Max(live)]))
  <2> DEFINE f == StackOf(t)
             alive == {k \in 1..Len(f) : Len(f[k]) > (IF k = Len(f) THEN 0 ELSE 1)}
  <2>1. Len(f) = n
    BY StackIsSequence
  <2>2. alive = live
    BY SameLiveFrames
  <2>3. Stack!DropEnumerated(f) =
          IF alive = {} THEN <<>>
          ELSE IF Max(alive) = Len(f) THEN f
          ELSE Append(SubSeq(f, 1, Max(alive) - 1), Front(f[Max(alive)]))
    <3> HIDE DEF f
    <3> QED BY Zenon DEF Stack!DropEnumerated, Stack!Max, Max, Stack!Front, Front
  <2> HIDE DEF f, alive, live, n
  <2> QED BY <2>1, <2>2, <2>3 DEF f
<1>2. n \in Nat
  BY StackIsSequence
<1> HIDE DEF live
<1>3. ASSUME live = {}, Settled(t) = Cleared(t)
      PROVE  StackOf(Settled(t)) = Stack!DropEnumerated(StackOf(t))
  <2>1. Laid(Cleared(t)) /\ Len(Cleared(t).pathFrames) = 0
    BY ClearedLaid DEF Laid
  <2>2. StackOf(Cleared(t)) \in Seq(Seq(StateIndexes)) /\ Len(StackOf(Cleared(t))) = 0
    BY <2>1, StackIsSequence
  <2>3. StackOf(Cleared(t)) = <<>>
    BY <2>2
  <2> QED BY <1>1, <1>3, <2>3
<1>4. ASSUME live # {}, Max(live) = n, Settled(t) = t
      PROVE  StackOf(Settled(t)) = Stack!DropEnumerated(StackOf(t))
  BY <1>1, <1>4
<1>5. ASSUME NEW top \in 1..n - 1, t.pathFrames[top].count > 1, live # {},
             Max(live) = top, Settled(t) = DroppedTo(t, top)
      PROVE  StackOf(Settled(t)) = Stack!DropEnumerated(StackOf(t))
  <2>1. top # n
    BY <1>2
  <2> QED BY <1>1, <1>5, <2>1, DroppedContents
<1> QED BY <1>3, <1>4, <1>5, SettledCases DEF live

LEMMA EmptyTogether ==
  ASSUME NEW t, Laid(t)
  PROVE  StackOf(t) = <<>> <=> t.pathFrames = <<>>
PROOF
<1>1. t.pathFrames \in Seq(PathFrame)
  BY DEF Laid, Trackers
<1>2. t.pathFrames = <<>> <=> Len(t.pathFrames) = 0
  BY <1>1
<1>3. StackOf(t) = <<>> <=> Len(StackOf(t)) = 0
  BY StackIsSequence
<1> QED BY <1>2, <1>3, StackIsSequence

\* The entry that tryGetStateIndex returns is the last of the topmost frame.
LEMMA TopmostIsLast ==
  ASSUME NEW t, Laid(t), KeptAll(t), Len(t.pathFrames) > 0
  PROVE  Topmost(t) = Last(Last(StackOf(t)))
PROOF
<1> DEFINE n == Len(t.pathFrames)
           c == t.pathFrames[n].count
<1>1. n \in Nat /\ n \in 1..n
  BY DEF Laid, Trackers
<1>2. Last(StackOf(t)) = Contents(t, n)
  BY <1>1, StackIsSequence DEF Last
<1>3. /\ Len(Contents(t, n)) = c /\ c \in Nat
      /\ \A j \in 1..c : Contents(t, n)[j] = t.stateIndexEntries[First(t, n) + j]
  BY <1>1, ContentsOfFrame
<1>4. c \in 1..c
  BY <1>1, <1>3 DEF KeptAll
<1>5. Last(Contents(t, n)) = t.stateIndexEntries[First(t, n) + c]
  <2> HIDE DEF c
  <2> QED BY <1>3, <1>4 DEF Last
<1>6. End(Last(t.pathFrames)) = First(t, n) + c
  BY DEF End, Last, First
<1> QED BY <1>2, <1>5, <1>6 DEF Topmost

\* The stack of the refinement mapping.
LEMMA StackOfTracker ==
  [k \in 1..Len(tracker.pathFrames) |-> FrameContents(k)] = StackOf(tracker)
PROOF BY DEF FrameContents, StackOf, Contents, First, EndOf, End

LEMMA InitIsStack == Init => Stack!Init
PROOF
<1> SUFFICES ASSUME Init PROVE Stack!Init
  OBVIOUS
<1>1. IInv
  BY InitIsLaid
<1>2. tracker.pathFrames = <<>> /\ pushed = -1 /\ got = -1
  BY DEF Init, EmptyTracker
<1>3. StackOf(tracker) = <<>>
  BY <1>1, <1>2, EmptyTogether DEF IInv
<1> QED BY <1>2, <1>3, StackOfTracker DEF Stack!Init, Stack!None

\* Every call on the tracker is the call of the same name on the stack.
LEMMA NextIsStack == IInv /\ IInv' /\ [Next]_vars => [Stack!Next]_(Stack!vars)
PROOF
<1> SUFFICES ASSUME IInv, IInv', [Next]_vars PROVE [Stack!Next]_(Stack!vars)
  OBVIOUS
<1> DEFINE a == [k \in 1..Len(tracker.pathFrames) |-> FrameContents(k)]
<1>1. a = StackOf(tracker)
  BY StackOfTracker
<1>2. a' = StackOf(tracker')
  BY DEF FrameContents, StackOf, Contents, First, EndOf, End
<1>3. /\ Laid(tracker) /\ KeptBelow(tracker) /\ (got # -1 => KeptAll(tracker))
      /\ Laid(tracker')
      /\ Len(tracker.pathFrames) \in Nat
      /\ tracker.pathFrames = <<>> <=> Len(tracker.pathFrames) = 0
  BY DEF IInv, Laid, Trackers
<1>4. /\ a = <<>> <=> tracker.pathFrames = <<>>
      /\ a' = <<>> <=> tracker'.pathFrames = <<>>
      /\ Len(a) = Len(tracker.pathFrames)
  BY <1>1, <1>2, <1>3, EmptyTogether, StackIsSequence
<1> HIDE DEF a
<1>5. CASE PushFrame
  <2>1. KeptAll(tracker)
    BY <1>3, <1>5 DEF PushFrame, KeptAll
  <2>2. a' = Append(a, <<>>)
    BY <1>1, <1>2, <1>3, <1>5, <2>1, WithFrameOpens DEF PushFrame
  <2>3. Stack!Open
    BY <1>4, <1>5, <2>2 DEF PushFrame, Stack!Open, Stack!None, a
  <2> QED BY <2>3 DEF Stack!Next
<1>6. ASSUME NEW s \in StateIndexes, PushStateIndex(s) PROVE Stack!Next
  <2>1. a' = [a EXCEPT ![Len(a)] = Append(@, s)]
    BY <1>1, <1>2, <1>3, <1>4, <1>6, WithStateIndexAdds DEF PushStateIndex
  <2>2. Stack!Add(s)
    BY <1>4, <1>6, <2>1 DEF PushStateIndex, Stack!Add, Stack!None, a
  <2> QED BY <2>2 DEF Stack!Next
<1>7. CASE TryGetStateIndex
  <2>1. a' = Stack!DropEnumerated(a)
    BY <1>1, <1>2, <1>3, <1>7, SettledDropsEnumerated DEF TryGetStateIndex
  <2>2. got' = IF a' = <<>> THEN -1 ELSE Last(Last(a'))
    <3>1. KeptAll(tracker')
      BY <1>3, <1>7, SettledLaid DEF TryGetStateIndex
    <3>2. tracker'.pathFrames # <<>> => Len(tracker'.pathFrames) > 0
      BY <1>3 DEF Laid, Trackers
    <3>3. tracker'.pathFrames # <<>> => Topmost(tracker') = Last(Last(a'))
      BY <1>2, <1>3, <3>1, <3>2, TopmostIsLast
    <3> QED BY <1>4, <1>7, <3>3 DEF TryGetStateIndex
  <2>3. Stack!Next1
    BY <1>4, <1>7, <2>1, <2>2
       DEF TryGetStateIndex, Stack!Next1, Stack!None, Stack!Last, Last, a
  <2> QED BY <2>3 DEF Stack!Next
<1>8. CASE Clear
  <2>1. tracker'.pathFrames = <<>>
    BY <1>3, <1>8, ClearedLaid DEF Clear, Laid
  <2>2. Stack!Clear
    BY <1>4, <1>8, <2>1 DEF Clear, Stack!Clear, Stack!None, a
  <2> QED BY <2>2 DEF Stack!Next
<1>9. CASE UNCHANGED vars
  BY <1>1, <1>2, <1>9 DEF vars, Stack!vars, a
<1> QED BY <1>5, <1>6, <1>7, <1>8, <1>9 DEF Next

\* For every set of state indexes and every capacity the flattened frames
\* implement the stack of sequences: pushPathFrame opens one, pushStateIndex
\* adds to the topmost, and tryGetStateIndex finds the last state left.
THEOREM ImplementsStackHolds == Spec => ImplementsStack
PROOF
<1> SUFFICES Spec => Stack!Spec
  BY DEF ImplementsStack
<1> QED BY InitIsStack, NextIsStack, TrackerInductive, PTL DEF Spec, Stack!Spec
=============================================================================
