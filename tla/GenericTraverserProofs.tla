----------------------- MODULE GenericTraverserProofs -----------------------
(***************************************************************************)
(* The properties of GenericTraverser hold for every model, every number   *)
(* of states, every capacity and every moment of a cancellation.           *)
(*                                                                         *)
(* The frames of the tracker are the source of the whole argument: what    *)
(* PathTrackerProofs says of its operations is restated for the instance   *)
(* that the traverser uses.  Then the loop over the transitions of one     *)
(* state is followed round by round, and from what it leaves behind every  *)
(* part of the invariant TraverserInv is shown to be kept.                 *)
(***************************************************************************)
EXTENDS GenericTraverser, SequenceTheorems, TLAPS

Frames == INSTANCE PathTrackerProofs
            WITH StateIndexes <- 0..MaximalStates, Capacity <- MaximalSearchDepth,
                 MaxEntries <- MaximalStates + 1,
                 pushed <- NoSource, got <- NoSource

Entries(t) == t.stateIndexEntries

-----------------------------------------------------------------------------
(***************************************************************************)
(* The operations of the path tracker, as PathTrackerProofs describe them. *)
(***************************************************************************)
LEMMA TrackerFits ==
  /\ 0..MaximalStates \subseteq Nat /\ MaximalSearchDepth \in Nat
  /\ Debug \in BOOLEAN /\ MaximalStates + 1 \in Nat
PROOF BY ModelAssumption

LEMMA SameOperations ==
  ASSUME NEW t, NEW s
  PROVE  /\ Path!WithFrame(t) = Frames!WithFrame(t)
         /\ Path!WithStateIndex(t, s) = Frames!WithStateIndex(t, s)
         /\ Path!Settled(t) = Frames!Settled(t)
         /\ Path!Topmost(t) = Frames!Topmost(t)
         /\ Path!RefusesEntry(t) = Frames!RefusesEntry(t)
PROOF
<1>1. Path!WithFrame(t) = Frames!WithFrame(t)
  BY DEF Path!WithFrame, Frames!WithFrame, Path!Frame, Frames!Frame, Path!End,
         Frames!End, Path!Last, Frames!Last
<1>2. Path!WithStateIndex(t, s) = Frames!WithStateIndex(t, s)
  BY DEF Path!WithStateIndex, Frames!WithStateIndex, Path!NoFrame, Frames!NoFrame
<1>3. Path!Settled(t) = Frames!Settled(t)
  BY DEF Path!Settled, Frames!Settled, Path!LiveFrames, Frames!LiveFrames,
         Path!End, Frames!End, Path!Max, Frames!Max
<1>4. Path!Topmost(t) = Frames!Topmost(t)
  BY DEF Path!Topmost, Frames!Topmost, Path!End, Frames!End, Path!Last, Frames!Last
<1>5. Path!RefusesEntry(t) = Frames!RefusesEntry(t)
  BY DEF Path!RefusesEntry, Frames!RefusesEntry, Path!End, Frames!End, Path!Last,
         Frames!Last
<1> QED BY <1>1, <1>2, <1>3, <1>4, <1>5

Laid(t)          == Frames!Laid(t)
KeptBelow(t)     == Frames!KeptBelow(t)
KeptAll(t)       == Frames!KeptAll(t)
First(t, k)      == Frames!First(t, k)
EndOf(t, k)      == Frames!EndOf(t, k)
WaitingPlaces(t) == Frames!WaitingPlaces(t)

LEMMA LaidNumbers ==
  ASSUME NEW t, Laid(t)
  PROVE  /\ Entries(t) \in Seq(0..MaximalStates)
         /\ Len(Entries(t)) \in Nat /\ Len(t.pathFrames) \in Nat
         /\ Len(Entries(t)) =
              IF Len(t.pathFrames) = 0 THEN 0 ELSE EndOf(t, Len(t.pathFrames))
         /\ t.lowestSplittableFrame \in Int
         /\ \A k \in 1..Len(t.pathFrames) :
              /\ First(t, k) \in Nat /\ EndOf(t, k) \in Nat
              /\ First(t, k) <= EndOf(t, k) /\ EndOf(t, k) <= Len(Entries(t))
              /\ First(t, k) = IF k = 1 THEN 0 ELSE EndOf(t, k - 1)
         /\ WaitingPlaces(t) \subseteq 1..Len(Entries(t))
PROOF
<1>1. \A k \in 1..Len(t.pathFrames) :
        /\ First(t, k) \in Nat /\ EndOf(t, k) \in Nat
        /\ First(t, k) <= EndOf(t, k) /\ EndOf(t, k) <= Len(Entries(t))
  BY Frames!FrameNumbers, TrackerFits DEF Laid, First, EndOf, Entries
<1>2. WaitingPlaces(t) \subseteq 1..Len(Entries(t))
  BY DEF WaitingPlaces, Frames!WaitingPlaces, Entries
<1>3. /\ t \in Frames!Trackers
      /\ \A k \in 1..Len(t.pathFrames) : First(t, k) = IF k = 1 THEN 0 ELSE EndOf(t, k - 1)
      /\ Len(Entries(t)) = IF Len(t.pathFrames) = 0 THEN 0 ELSE EndOf(t, Len(t.pathFrames))
  BY DEF Laid, Frames!Laid, First, EndOf, Entries
<1>4. /\ Entries(t) \in Seq(0..MaximalStates) /\ Len(Entries(t)) \in Nat
      /\ Len(t.pathFrames) \in Nat /\ t.lowestSplittableFrame \in Int
  BY <1>3 DEF Frames!Trackers, Entries
<1> QED BY <1>1, <1>2, <1>3, <1>4

LEMMA SettledTracker ==
  ASSUME NEW t, Laid(t), KeptBelow(t)
  PROVE  LET u == Path!Settled(t)
         IN  /\ Laid(u) /\ KeptAll(u) /\ KeptBelow(u)
             /\ u.lowestSplittableFrame = t.lowestSplittableFrame
             /\ WaitingPlaces(u) = WaitingPlaces(t)
             /\ Len(u.pathFrames) <= Len(t.pathFrames)
             /\ Len(Entries(u)) <= Len(Entries(t))
             /\ \A j \in 1..Len(Entries(u)) : Entries(u)[j] = Entries(t)[j]
             /\ \A k \in 1..Len(u.pathFrames) :
                  First(u, k) = First(t, k) /\ EndOf(u, k) <= EndOf(t, k)
             /\ \A k \in 1..Len(u.pathFrames) - 1 : EndOf(u, k) = EndOf(t, k)
PROOF
<1> DEFINE u == Frames!Settled(t)
<1>1. Path!Settled(t) = u
  BY SameOperations
<1>2. /\ Frames!Laid(u) /\ Frames!KeptAll(u)
      /\ u.lowestSplittableFrame = t.lowestSplittableFrame
  BY Frames!SettledLaid, TrackerFits DEF Laid, KeptBelow
<1>3. /\ Frames!WaitingPlaces(u) = Frames!WaitingPlaces(t)
      /\ Len(u.pathFrames) <= Len(t.pathFrames)
      /\ Len(u.stateIndexEntries) <= Len(t.stateIndexEntries)
      /\ \A j \in 1..Len(u.stateIndexEntries) :
           u.stateIndexEntries[j] = t.stateIndexEntries[j]
      /\ \A k \in 1..Len(u.pathFrames) :
           Frames!First(u, k) = Frames!First(t, k) /\ Frames!EndOf(u, k) <= Frames!EndOf(t, k)
      /\ \A k \in 1..Len(u.pathFrames) - 1 : Frames!EndOf(u, k) = Frames!EndOf(t, k)
  BY Frames!SettledKeepsWaiting, TrackerFits DEF Laid, KeptBelow
<1> HIDE DEF u
<1>4. Frames!KeptBelow(u)
  BY <1>2, Frames!AllKeptAreKeptBelow, TrackerFits
<1> QED BY <1>1, <1>2, <1>3, <1>4
        DEF Laid, KeptAll, KeptBelow, WaitingPlaces, Entries, First, EndOf

LEMMA FrameOnTracker ==
  ASSUME NEW t, Laid(t), KeptAll(t)
  PROVE  LET u == Path!WithFrame(t)
         IN  /\ Laid(u) /\ KeptBelow(u)
             /\ u.lowestSplittableFrame = t.lowestSplittableFrame
             /\ WaitingPlaces(u) = WaitingPlaces(t) \ {Len(Entries(t))}
             /\ Len(u.pathFrames) = Len(t.pathFrames) + 1
             /\ Entries(u) = Entries(t)
             /\ \A k \in 1..Len(t.pathFrames) : EndOf(u, k) = EndOf(t, k)
PROOF
<1> DEFINE u == Frames!WithFrame(t)
<1>1. Path!WithFrame(t) = u
  BY SameOperations
<1>2. /\ Frames!Laid(u) /\ Frames!KeptBelow(u)
      /\ u.stateIndexEntries = t.stateIndexEntries
      /\ u.lowestSplittableFrame = t.lowestSplittableFrame
      /\ Len(u.pathFrames) = Len(t.pathFrames) + 1
  BY Frames!WithFrameLaid, TrackerFits DEF Laid, KeptAll
<1>3. /\ Frames!WaitingPlaces(u) = Frames!WaitingPlaces(t) \ {Len(t.stateIndexEntries)}
      /\ \A k \in 1..Len(t.pathFrames) : Frames!EndOf(u, k) = Frames!EndOf(t, k)
  BY Frames!WithFrameWaiting, TrackerFits DEF Laid, KeptAll
<1> HIDE DEF u
<1> QED BY <1>1, <1>2, <1>3 DEF Laid, KeptBelow, WaitingPlaces, Entries, EndOf

LEMMA IndexOnTracker ==
  ASSUME NEW t, Laid(t), KeptBelow(t), NEW s \in 0..MaximalStates, Len(t.pathFrames) > 0
  PROVE  LET u == Path!WithStateIndex(t, s)
         IN  /\ Laid(u) /\ KeptBelow(u)
             /\ u.lowestSplittableFrame \in {t.lowestSplittableFrame, Len(t.pathFrames) - 1}
             /\ WaitingPlaces(u) = WaitingPlaces(t) \cup {Len(Entries(t)) + 1}
             /\ Len(u.pathFrames) = Len(t.pathFrames)
             /\ Entries(u) = Append(Entries(t), s)
             /\ \A k \in 1..Len(t.pathFrames) - 1 : EndOf(u, k) = EndOf(t, k)
PROOF
<1> DEFINE u == Frames!WithStateIndex(t, s)
<1>1. Path!WithStateIndex(t, s) = u
  BY SameOperations
<1>2. /\ Frames!Laid(u) /\ Frames!KeptBelow(u)
      /\ Len(u.pathFrames) = Len(t.pathFrames)
      /\ u.stateIndexEntries = Append(t.stateIndexEntries, s)
      /\ u.lowestSplittableFrame \in {t.lowestSplittableFrame, Len(t.pathFrames) - 1}
  BY Frames!WithStateIndexLaid, TrackerFits DEF Laid, KeptBelow
<1>3. /\ Frames!WaitingPlaces(u) = Frames!WaitingPlaces(t) \cup {Len(t.stateIndexEntries) + 1}
      /\ \A k \in 1..Len(t.pathFrames) - 1 : Frames!EndOf(u, k) = Frames!EndOf(t, k)
  BY Frames!WithStateIndexWaiting, TrackerFits DEF Laid, KeptBelow
<1> HIDE DEF u
<1> QED BY <1>1, <1>2, <1>3 DEF Laid, KeptBelow, WaitingPlaces, Entries, EndOf

\* The index that is expanded next is the last entry, which waits.
LEMMA TopmostOfTracker ==
  ASSUME NEW t, Laid(t), KeptAll(t), t.pathFrames # <<>>
  PROVE  /\ Len(t.pathFrames) > 0 /\ Len(Entries(t)) > 0
         /\ Path!Topmost(t) = Entries(t)[Len(Entries(t))]
         /\ Len(Entries(t)) \in WaitingPlaces(t)
PROOF
<1>1. Len(t.pathFrames) > 0
  BY DEF Laid, Frames!Laid, Frames!Trackers
<1>2. /\ Frames!End(Frames!Last(t.pathFrames)) = Len(Entries(t))
      /\ Len(Entries(t)) \in Nat \ {0}
  BY <1>1, Frames!TopmostIsEntry, TrackerFits DEF Laid, KeptAll, Entries
<1>3. Frames!Topmost(t) = Entries(t)[Frames!End(Frames!Last(t.pathFrames))]
  BY DEF Frames!Topmost, Entries
<1>4. Len(Entries(t)) \in WaitingPlaces(t)
  BY <1>1, Frames!LastPlaceWaits, TrackerFits DEF Laid, KeptAll, Entries, WaitingPlaces
<1> QED BY <1>1, <1>2, <1>3, <1>4, SameOperations

LEMMA FullTracker ==
  ASSUME NEW t, Laid(t), Len(t.pathFrames) > 0
  PROVE  Path!RefusesEntry(t) <=> Debug /\ Len(Entries(t)) >= MaximalSearchDepth
PROOF
<1> DEFINE n == Len(t.pathFrames)
<1>1. n \in 1..n /\ Len(Entries(t)) = Frames!EndOf(t, n)
  BY LaidNumbers DEF EndOf
<1>2. Path!End(Path!Last(t.pathFrames)) = Frames!EndOf(t, n)
  BY DEF Path!End, Path!Last, Frames!EndOf, Frames!First
<1> QED BY <1>1, <1>2 DEF Path!RefusesEntry

LEMMA FewFrames ==
  ASSUME NEW t, Laid(t), KeptAll(t)
  PROVE  Len(t.pathFrames) <= Len(Entries(t))
PROOF BY Frames!FramesWithinEntries, TrackerFits DEF Laid, KeptAll, Entries

\* A frame that has states left is not empty.
LEMMA KeptFrames ==
  ASSUME NEW t, Laid(t)
  PROVE  /\ KeptBelow(t) => \A k \in 1..Len(t.pathFrames) - 1 :
                               First(t, k) < EndOf(t, k) /\ EndOf(t, k) \in 1..Len(Entries(t))
         /\ KeptAll(t) => \A k \in 1..Len(t.pathFrames) :
                             First(t, k) < EndOf(t, k) /\ EndOf(t, k) \in 1..Len(Entries(t))
PROOF
<1>1. ASSUME NEW k \in 1..Len(t.pathFrames), t.pathFrames[k].count >= 1
      PROVE  First(t, k) < EndOf(t, k) /\ EndOf(t, k) \in 1..Len(Entries(t))
  <2>1. t.pathFrames[k].count \in Nat
    BY Frames!FramesInside, TrackerFits DEF Laid, Frames!PathFrame
  <2>2. t.pathFrames[k].count > 0
    BY <1>1, <2>1
  <2>3. \A c \in Nat : t.pathFrames[k].count > c <=> Frames!EndOf(t, k) > Frames!First(t, k) + c
    BY Frames!FrameNumbers, TrackerFits DEF Laid
  <2>4. /\ First(t, k) \in Nat /\ EndOf(t, k) \in Nat /\ EndOf(t, k) <= Len(Entries(t))
        /\ Len(Entries(t)) \in Nat
    BY LaidNumbers
  <2>5. EndOf(t, k) > First(t, k)
    <3>1. EndOf(t, k) > First(t, k) + 0
      BY <2>2, <2>3 DEF First, EndOf
    <3> QED BY <2>4, <3>1
  <2> QED BY <2>4, <2>5
<1>2. Len(t.pathFrames) \in Nat
  BY LaidNumbers
<1>3. ASSUME KeptBelow(t), NEW k \in 1..Len(t.pathFrames) - 1
      PROVE  k \in 1..Len(t.pathFrames) /\ t.pathFrames[k].count >= 1
  <2>1. k \in 1..Len(t.pathFrames) /\ k < Len(t.pathFrames)
    BY <1>2
  <2> QED BY <1>3, <2>1 DEF KeptBelow, Frames!KeptBelow
<1>4. ASSUME KeptAll(t), NEW k \in 1..Len(t.pathFrames)
      PROVE  t.pathFrames[k].count >= 1
  BY <1>4 DEF KeptAll, Frames!KeptAll
<1> QED BY <1>1, <1>3, <1>4

-----------------------------------------------------------------------------
(***************************************************************************)
(* What holds after some transitions were handled: of the storage, of the  *)
(* tracker, of the entries pushed, and of the indexes handed on.           *)
(***************************************************************************)
StatesAndStuttering == States \cup {Stuttering}

Distinct(seq) == \A i, j \in 1..Len(seq) : seq[i] = seq[j] => i = j

Stores(m, storage, from, transitions, n) ==
  /\ storage \in Seq(StatesAndStuttering)
  /\ Len(from) <= Len(storage) /\ Len(storage) <= m.room
  /\ \A i \in 1..Len(from) : storage[i] = from[i]
  /\ Distinct(storage)
  /\ \A i \in Len(from) + 1..Len(storage) : \E k \in 1..n : storage[i] = transitions[k].target

Fits(t, storage) ==
  /\ Laid(t) /\ KeptBelow(t)
  /\ Len(Entries(t)) <= Len(storage)
  /\ Debug => Len(Entries(t)) <= MaximalSearchDepth
  /\ t.lowestSplittableFrame \in Path!NoFrame..MaximalStates + 1

Pushes(t, from, base, grown) ==
  LET m == Len(Entries(from)) IN
  /\ Len(t.pathFrames) = Len(from.pathFrames) + 1
  /\ Len(Entries(t)) = m + grown
  /\ \A j \in 1..m : Entries(t)[j] = Entries(from)[j]
  /\ \A j \in 1..grown : Entries(t)[m + j] = base + j - 1
  /\ \A k \in 1..Len(from.pathFrames) : EndOf(t, k) = EndOf(from, k)
  /\ WaitingPlaces(t) = (WaitingPlaces(from) \ {m}) \cup (m + 1..m + grown)

Answers(targets, storage, transitions, n) ==
  /\ targets \in Seq(Nat) /\ Len(targets) = n
  /\ \A k \in 1..n : /\ targets[k] + 1 \in 1..Len(storage)
                     /\ storage[targets[k] + 1] = transitions[k].target

LEMMA StoresMore ==
  ASSUME NEW m \in Models, NEW from \in Seq(StatesAndStuttering),
         NEW transitions \in Seq(ModelTransitions), NEW n \in 1..Len(transitions),
         NEW storage, Stores(m, storage, from, transitions, n - 1)
  PROVE  /\ Stores(m, storage, from, transitions, n)
         /\ transitions[n].target \notin Range(storage) /\ Len(storage) < m.room
              => Stores(m, Append(storage, transitions[n].target), from, transitions, n)
PROOF
<1> DEFINE s == transitions[n].target
           after == Append(storage, s)
<1>1. /\ storage \in Seq(StatesAndStuttering) /\ Len(storage) \in Nat /\ Len(from) \in Nat
      /\ m.room \in Nat /\ n \in Nat /\ n \in 1..n /\ 1..n - 1 \subseteq 1..n
  BY ModelAssumption DEF Stores
<1>2. s \in StatesAndStuttering
  <2>1. transitions[n] \in ModelTransitions
    BY <1>1
  <2> QED BY <2>1 DEF ModelTransitions, StatesAndStuttering
<1>3. Stores(m, storage, from, transitions, n)
  BY <1>1 DEF Stores
<1>4. ASSUME s \notin Range(storage), Len(storage) < m.room
      PROVE  Stores(m, after, from, transitions, n)
  <2>1. /\ after \in Seq(StatesAndStuttering) /\ Len(after) = Len(storage) + 1
        /\ \A i \in 1..Len(storage) : after[i] = storage[i]
        /\ after[Len(storage) + 1] = s
    BY <1>1, <1>2, AppendProperties
  <2> HIDE DEF after
  <2>2. \A i \in 1..Len(storage) : storage[i] # s
    <3>1. DOMAIN storage = 1..Len(storage)
      BY <1>1
    <3> QED BY <1>4, <3>1 DEF Range
  <2>3. Distinct(after)
    <3> SUFFICES ASSUME NEW i \in 1..Len(after), NEW j \in 1..Len(after), after[i] = after[j]
                 PROVE  i = j
      BY DEF Distinct
    <3>1. CASE i \in 1..Len(storage) /\ j \in 1..Len(storage)
      BY <2>1, <3>1 DEF Stores, Distinct
    <3>2. CASE i \notin 1..Len(storage) \/ j \notin 1..Len(storage)
      BY <1>1, <2>1, <2>2, <3>2
    <3> QED BY <3>1, <3>2
  <2>4. \A i \in 1..Len(from) : after[i] = from[i]
    BY <1>1, <2>1 DEF Stores
  <2>5. ASSUME NEW i \in Len(from) + 1..Len(after)
        PROVE  \E k \in 1..n : after[i] = transitions[k].target
    <3>1. CASE i \in 1..Len(storage)
      <4>1. \E k \in 1..n - 1 : storage[i] = transitions[k].target
        BY <1>1, <2>5, <3>1 DEF Stores
      <4> QED BY <1>1, <2>1, <3>1, <4>1
    <3>2. CASE i \notin 1..Len(storage)
      <4>1. i = Len(storage) + 1
        BY <1>1, <2>1, <2>5, <3>2
      <4> QED BY <1>1, <2>1, <4>1
    <3> QED BY <3>1, <3>2
  <2>6. Len(from) <= Len(after) /\ Len(after) <= m.room
    BY <1>1, <1>4, <2>1 DEF Stores
  <2> QED BY <2>1, <2>3, <2>4, <2>5, <2>6 DEF Stores
<1> QED BY <1>3, <1>4

LEMMA PushesFrame ==
  ASSUME NEW m \in Models, NEW storage \in Seq(StatesAndStuttering),
         NEW t, Fits(t, storage), KeptAll(t)
  PROVE  /\ Fits(Path!WithFrame(t), storage)
         /\ Pushes(Path!WithFrame(t), t, Len(storage), 0)
PROOF
<1> DEFINE u == Path!WithFrame(t)
<1>1. /\ Laid(u) /\ KeptBelow(u)
      /\ u.lowestSplittableFrame = t.lowestSplittableFrame
      /\ WaitingPlaces(u) = WaitingPlaces(t) \ {Len(Entries(t))}
      /\ Len(u.pathFrames) = Len(t.pathFrames) + 1
      /\ Entries(u) = Entries(t)
      /\ \A k \in 1..Len(t.pathFrames) : EndOf(u, k) = EndOf(t, k)
  BY FrameOnTracker DEF Fits
<1> HIDE DEF u
<1>2. Len(Entries(t)) \in Nat
  BY LaidNumbers DEF Fits
<1>3. Fits(u, storage)
  BY <1>1 DEF Fits
<1>4. Pushes(u, t, Len(storage), 0)
  BY <1>1, <1>2 DEF Pushes
<1> QED BY <1>3, <1>4 DEF u

LEMMA PushesIndex ==
  ASSUME NEW m \in Models, NEW storage \in Seq(StatesAndStuttering),
         Len(storage) < m.room, NEW s,
         NEW from, Laid(from), KeptAll(from), NEW base \in Nat, NEW grown \in Nat,
         Len(storage) = base + grown,
         NEW t, Fits(t, storage), Pushes(t, from, base, grown),
         ~Path!RefusesEntry(t)
  PROVE  LET u == Path!WithStateIndex(t, Len(storage))
         IN  /\ Fits(u, Append(storage, s))
             /\ Pushes(u, from, base, grown + 1)
PROOF
<1> DEFINE n == Len(t.pathFrames)
           m0 == Len(Entries(from))
           u == Path!WithStateIndex(t, Len(storage))
<1>1. /\ Laid(t) /\ KeptBelow(t) /\ Len(Entries(t)) \in Nat /\ n \in Nat
      /\ Entries(t) \in Seq(0..MaximalStates)
      /\ m0 \in Nat /\ Len(from.pathFrames) \in Nat
      /\ WaitingPlaces(from) \subseteq 1..m0
      /\ Len(storage) \in Nat /\ Len(Append(storage, s)) = Len(storage) + 1
  BY LaidNumbers DEF Fits
<1>2. Len(storage) < MaximalStates /\ MaximalStates \in Nat
  BY <1>1, ModelAssumption
<1>3. n = Len(from.pathFrames) + 1 /\ Len(Entries(t)) = m0 + grown
  BY DEF Pushes
<1>4. /\ Laid(u) /\ KeptBelow(u)
      /\ u.lowestSplittableFrame \in {t.lowestSplittableFrame, n - 1}
      /\ WaitingPlaces(u) = WaitingPlaces(t) \cup {Len(Entries(t)) + 1}
      /\ Len(u.pathFrames) = n
      /\ Entries(u) = Append(Entries(t), Len(storage))
      /\ \A k \in 1..n - 1 : EndOf(u, k) = EndOf(t, k)
  <2>1. Len(t.pathFrames) > 0 /\ Len(storage) \in 0..MaximalStates
    BY <1>1, <1>2, <1>3
  <2> QED BY <1>1, <2>1, IndexOnTracker
<1> HIDE DEF u
<1>5. /\ Len(Entries(u)) = Len(Entries(t)) + 1
      /\ \A j \in 1..Len(Entries(t)) : Entries(u)[j] = Entries(t)[j]
      /\ Entries(u)[Len(Entries(t)) + 1] = Len(storage)
  BY <1>1, <1>2, <1>4, AppendProperties
<1>6. Fits(u, Append(storage, s))
  <2>1. Debug => Len(Entries(u)) <= MaximalSearchDepth
    <3>1. Path!RefusesEntry(t) <=> Debug /\ Len(Entries(t)) >= MaximalSearchDepth
      <4>1. Len(t.pathFrames) > 0
        BY <1>1, <1>3
      <4> QED BY <1>1, <4>1, FullTracker
    <3> QED BY <1>1, <1>5, <3>1, TrackerFits
  <2>2. u.lowestSplittableFrame \in Path!NoFrame..MaximalStates + 1
    <3>1. Len(from.pathFrames) <= m0
      BY FewFrames
    <3>2. n - 1 \in Path!NoFrame..MaximalStates + 1
      BY <1>1, <1>2, <1>3, <3>1 DEF Fits, Path!NoFrame
    <3> QED BY <1>4, <3>2 DEF Fits
  <2>3. Len(Entries(u)) <= Len(Append(storage, s))
    BY <1>1, <1>5 DEF Fits
  <2> QED BY <1>4, <2>1, <2>2, <2>3 DEF Fits
<1>7. Pushes(u, from, base, grown + 1)
  <2>1. \A j \in 1..m0 : Entries(u)[j] = Entries(from)[j]
    BY <1>1, <1>3, <1>5 DEF Pushes
  <2>2. ASSUME NEW j \in 1..grown + 1
        PROVE  Entries(u)[m0 + j] = base + j - 1
    <3>1. CASE j \in 1..grown
      <4>1. m0 + j \in 1..Len(Entries(t)) /\ Entries(t)[m0 + j] = base + j - 1
        <5>1. m0 + j \in 1..Len(Entries(t))
          BY <1>1, <1>3, <3>1
        <5>2. \A i \in 1..grown : Entries(t)[m0 + i] = base + i - 1
          BY DEF Pushes
        <5> QED BY <3>1, <5>1, <5>2
      <4> QED BY <1>5, <4>1
    <3>2. CASE j = grown + 1
      <4>1. m0 + j = Len(Entries(t)) + 1 /\ base + j - 1 = Len(storage)
        BY <1>1, <1>3, <3>2
      <4> QED BY <1>5, <4>1
    <3> QED BY <3>1, <3>2
  <2>3. \A k \in 1..Len(from.pathFrames) : EndOf(u, k) = EndOf(from, k)
    BY <1>1, <1>3, <1>4 DEF Pushes
  <2>4. WaitingPlaces(u) = (WaitingPlaces(from) \ {m0}) \cup (m0 + 1..m0 + (grown + 1))
    <3>1. m0 + 1..m0 + (grown + 1) = (m0 + 1..m0 + grown) \cup {m0 + grown + 1}
      BY <1>1
    <3>2. WaitingPlaces(t) = (WaitingPlaces(from) \ {m0}) \cup (m0 + 1..m0 + grown)
      BY DEF Pushes
    <3> QED BY <1>3, <1>4, <3>1, <3>2
  <2>5. /\ Len(u.pathFrames) = Len(from.pathFrames) + 1
        /\ Len(Entries(u)) = m0 + (grown + 1)
    BY <1>1, <1>3, <1>4, <1>5
  <2> QED BY <2>1, <2>2, <2>3, <2>4, <2>5 DEF Pushes
<1> QED BY <1>6, <1>7 DEF u

LEMMA AnswersMore ==
  ASSUME NEW targets, NEW storage \in Seq(StatesAndStuttering),
         NEW transitions \in Seq(ModelTransitions), NEW n \in 1..Len(transitions),
         Answers(targets, storage, transitions, n - 1),
         NEW after \in Seq(StatesAndStuttering), Len(storage) <= Len(after),
         \A i \in 1..Len(storage) : after[i] = storage[i],
         NEW index \in Nat, index + 1 \in 1..Len(after),
         after[index + 1] = transitions[n].target
  PROVE  Answers(Append(targets, index), after, transitions, n)
PROOF
<1> DEFINE u == Append(targets, index)
<1>1. /\ targets \in Seq(Nat) /\ Len(targets) = n - 1 /\ n \in Nat
      /\ Len(storage) \in Nat /\ Len(after) \in Nat
  BY DEF Answers
<1>2. /\ u \in Seq(Nat) /\ Len(u) = n
      /\ \A k \in 1..n - 1 : u[k] = targets[k]
      /\ u[n] = index
  BY <1>1, AppendProperties
<1> HIDE DEF u
<1>3. ASSUME NEW k \in 1..n
      PROVE  u[k] + 1 \in 1..Len(after) /\ after[u[k] + 1] = transitions[k].target
  <2>1. CASE k \in 1..n - 1
    <3>1. /\ targets[k] + 1 \in 1..Len(storage)
          /\ storage[targets[k] + 1] = transitions[k].target
      BY <2>1 DEF Answers
    <3>2. targets[k] + 1 \in 1..Len(after)
      BY <1>1, <3>1, 1..Len(storage) \subseteq 1..Len(after)
    <3> QED BY <1>2, <2>1, <3>1, <3>2
  <2>2. CASE k = n
    BY <1>2, <2>2
  <2> QED BY <1>1, <2>1, <2>2
<1> QED BY <1>2, <1>3 DEF Answers, u

-----------------------------------------------------------------------------
(***************************************************************************)
(* The loop over the transitions: what holds after n rounds.               *)
(***************************************************************************)
WorkInv(w, storage, from, transitions, n) ==
  /\ w = [contents |-> w.contents, tracker |-> w.tracker,
          targets |-> w.targets, thrown |-> w.thrown]
  /\ w.thrown \in BOOLEAN
  /\ Stores(model, w.contents, storage, transitions, n)
  /\ Fits(w.tracker, w.contents)
  /\ ~w.thrown =>
       /\ Pushes(w.tracker, from, Len(storage), Len(w.contents) - Len(storage))
       /\ Answers(w.targets, w.contents, transitions, n)

LEMMA LoopBegins ==
  ASSUME model \in Models, NEW storage \in Seq(StatesAndStuttering),
         Len(storage) <= model.room, Distinct(storage),
         NEW from, Fits(from, storage), KeptAll(from), NEW transitions
  PROVE  WorkInv(Begin(storage, from, transitions), storage, from, transitions, 0)
PROOF
<1> DEFINE w == Begin(storage, from, transitions)
<1>1. w = [contents |-> storage, tracker |-> Path!WithFrame(from), targets |-> <<>>,
           thrown |-> FALSE]
  BY DEF Begin
<1> HIDE DEF w
<1>2. Len(storage) \in Nat
  OBVIOUS
<1>3. Stores(model, storage, storage, transitions, 0)
  BY <1>2 DEF Stores
<1>4. Fits(Path!WithFrame(from), storage) /\ Pushes(Path!WithFrame(from), from, Len(storage), 0)
  BY PushesFrame
<1>5. Answers(<<>>, storage, transitions, 0)
  BY DEF Answers
<1>6. Len(storage) - Len(storage) = 0
  BY <1>2
<1>7. /\ w.contents = storage /\ w.tracker = Path!WithFrame(from)
      /\ w.targets = <<>> /\ w.thrown = FALSE
      /\ w = [contents |-> w.contents, tracker |-> w.tracker,
              targets |-> w.targets, thrown |-> w.thrown]
  BY <1>1
<1>8. WorkInv(w, storage, from, transitions, 0)
  BY <1>3, <1>4, <1>5, <1>6, <1>7 DEF WorkInv
<1> QED BY <1>8 DEF w

LEMMA WorkChanges ==
  ASSUME NEW c, NEW t, NEW ts, NEW thrown, NEW c2, NEW ts2,
         NEW w, w = [contents |-> c, tracker |-> t, targets |-> ts, thrown |-> thrown]
  PROVE  /\ [w EXCEPT !.targets = ts2]
              = [contents |-> c, tracker |-> t, targets |-> ts2, thrown |-> thrown]
         /\ [w EXCEPT !.contents = c2]
              = [contents |-> c2, tracker |-> t, targets |-> ts, thrown |-> thrown]
PROOF OBVIOUS

LEMMA LoopGoesOn ==
  ASSUME model \in Models, NEW storage \in Seq(StatesAndStuttering),
         NEW from, Laid(from), KeptAll(from),
         NEW transitions \in Seq(ModelTransitions), NEW n \in 1..Len(transitions),
         NEW w, WorkInv(w, storage, from, transitions, n - 1)
  PROVE  WorkInv(AddTarget(w, transitions[n]), storage, from, transitions, n)
PROOF
<1> DEFINE s == transitions[n].target
           c == w.contents
           t == w.tracker
           u == AddTarget(w, transitions[n])
<1>1. /\ Stores(model, c, storage, transitions, n - 1) /\ Fits(t, c)
      /\ w.thrown \in BOOLEAN
      /\ c \in Seq(StatesAndStuttering) /\ Len(c) \in Nat /\ Len(storage) \in Nat
      /\ Len(storage) <= Len(c) /\ model.room \in Nat
  BY ModelAssumption DEF WorkInv, Stores
<1>2. /\ Stores(model, c, storage, transitions, n)
      /\ s \notin Range(c) /\ Len(c) < model.room
           => Stores(model, Append(c, s), storage, transitions, n)
  BY <1>1, StoresMore
<1>3. w = [contents |-> c, tracker |-> t, targets |-> w.targets, thrown |-> w.thrown]
  BY DEF WorkInv
<1>4. CASE w.thrown
  <2>1. u = w
    BY <1>4 DEF AddTarget
  <2> QED BY <1>1, <1>2, <1>3, <1>4, <2>1 DEF WorkInv
<1>5. CASE ~w.thrown /\ s \in Range(c)
  <2> DEFINE index == (CHOOSE k \in 1..Len(c) : c[k] = s) - 1
  <2>1. u = [contents |-> c, tracker |-> t, targets |-> Append(w.targets, index),
             thrown |-> FALSE]
    <3>1. u = [w EXCEPT !.targets = Append(@, index)]
      BY <1>5 DEF AddTarget, AddKnown
    <3>2. u = [w EXCEPT !.targets = Append(w.targets, index)]
      BY <3>1
    <3> HIDE DEF index, u, c, t
    <3> DEFINE ts == w.targets
    <3>3. w = [contents |-> c, tracker |-> t, targets |-> ts, thrown |-> FALSE]
      BY <1>3, <1>5
    <3>4. u = [w EXCEPT !.targets = Append(ts, index)]
      BY <3>2
    <3> HIDE DEF ts
    <3>5. u = [contents |-> c, tracker |-> t, targets |-> Append(ts, index), thrown |-> FALSE]
      BY <3>3, <3>4, WorkChanges
    <3> QED BY <3>5 DEF ts
  <2>2. \E k \in 1..Len(c) : c[k] = s
    <3>1. DOMAIN c = 1..Len(c)
      BY <1>1
    <3> QED BY <1>5, <3>1 DEF Range
  <2>3. index \in Nat /\ index + 1 \in 1..Len(c) /\ c[index + 1] = s
    <3> DEFINE place == CHOOSE k \in 1..Len(c) : c[k] = s
    <3>1. place \in 1..Len(c) /\ c[place] = s
      BY <2>2
    <3> HIDE DEF place
    <3>2. place - 1 \in Nat /\ place - 1 + 1 = place
      BY <1>1, <3>1
    <3> QED BY <3>1, <3>2 DEF place
  <2> HIDE DEF index, u
  <2>4. Answers(w.targets, c, transitions, n - 1)
    BY <1>5 DEF WorkInv
  <2>5. Answers(Append(w.targets, index), c, transitions, n)
    BY <1>1, <2>3, <2>4, AnswersMore
  <2>6. Pushes(t, from, Len(storage), Len(c) - Len(storage))
    BY <1>5 DEF WorkInv
  <2>7. /\ u.contents = c /\ u.tracker = t /\ u.targets = Append(w.targets, index)
        /\ u.thrown = FALSE
        /\ u = [contents |-> u.contents, tracker |-> u.tracker, targets |-> u.targets,
                thrown |-> u.thrown]
    BY <2>1
  <2> HIDE DEF c, t
  <2>8. WorkInv(u, storage, from, transitions, n)
    BY <1>1, <1>2, <2>5, <2>6, <2>7 DEF WorkInv
  <2> QED BY <2>8 DEF u
<1>6. CASE ~w.thrown /\ s \notin Range(c) /\ Len(c) >= model.room
  <2>1. u = [contents |-> c, tracker |-> t, targets |-> w.targets, thrown |-> TRUE]
    <3>1. u = [w EXCEPT !.thrown = TRUE]
      BY <1>6 DEF AddTarget
    <3> HIDE DEF u
    <3> QED BY <1>3, <3>1
  <2> HIDE DEF u
  <2>2. /\ u.contents = c /\ u.tracker = t /\ u.thrown = TRUE
        /\ u = [contents |-> u.contents, tracker |-> u.tracker, targets |-> u.targets,
                thrown |-> u.thrown]
    BY <2>1
  <2>3. WorkInv(u, storage, from, transitions, n)
    BY <1>1, <1>2, <2>2 DEF WorkInv
  <2> QED BY <2>3 DEF u
<1>7. CASE ~w.thrown /\ s \notin Range(c) /\ ~(Len(c) >= model.room)
  <2> DEFINE after == Append(c, s)
             v == [contents |-> after, tracker |-> t,
                   targets |-> Append(w.targets, Len(c)), thrown |-> FALSE]
  <2>1. Len(c) < model.room /\ Stores(model, after, storage, transitions, n)
    BY <1>1, <1>2, <1>7
  <2>2. u = IF Path!RefusesEntry(t) THEN [v EXCEPT !.thrown = TRUE]
            ELSE [v EXCEPT !.tracker = Path!WithStateIndex(@, Len(c))]
    <3>1. [w EXCEPT !.contents = Append(@, s), !.targets = Append(@, Len(c))] = v
      <4> DEFINE ts == w.targets
                 more == Append(ts, Len(c))
                 thrown == w.thrown
      <4>1. w = [contents |-> c, tracker |-> t, targets |-> ts, thrown |-> thrown]
        BY <1>3
      <4>2. [w EXCEPT !.contents = Append(@, s), !.targets = Append(@, Len(c))]
              = [w EXCEPT !.contents = after, !.targets = more]
        OBVIOUS
      <4>3. thrown = FALSE
        BY <1>1, <1>7
      <4> HIDE DEF ts, c, t, after, more, thrown
      <4>4. [w EXCEPT !.contents = after, !.targets = more]
              = [[w EXCEPT !.contents = after] EXCEPT !.targets = more]
        OBVIOUS
      <4> DEFINE x == [w EXCEPT !.contents = after]
      <4>5. x = [contents |-> after, tracker |-> t, targets |-> ts, thrown |-> thrown]
        BY <4>1, WorkChanges
      <4>6. [[w EXCEPT !.contents = after] EXCEPT !.targets = more]
              = [x EXCEPT !.targets = more]
        OBVIOUS
      <4> HIDE DEF x
      <4>7. [x EXCEPT !.targets = more]
              = [contents |-> after, tracker |-> t, targets |-> more, thrown |-> thrown]
        BY <4>5, WorkChanges
      <4> QED BY <4>2, <4>3, <4>4, <4>6, <4>7 DEF ts, more
    <3> QED BY <1>7, <3>1 DEF AddTarget, AddNew
  <2>3. /\ after \in Seq(StatesAndStuttering) /\ Len(after) = Len(c) + 1
        /\ \A i \in 1..Len(c) : after[i] = c[i]
        /\ after[Len(c) + 1] = s
    <3>1. after \in Seq(StatesAndStuttering)
      BY <2>1 DEF Stores
    <3> QED BY <1>1, <3>1, AppendProperties
  <2> HIDE DEF u, after
  <2>4. CASE Path!RefusesEntry(t)
    <3>1. /\ u.contents = after /\ u.tracker = t /\ u.thrown = TRUE
          /\ u = [contents |-> u.contents, tracker |-> u.tracker, targets |-> u.targets,
                  thrown |-> u.thrown]
      BY <2>2, <2>4
    <3>2. Fits(t, after)
      <4>1. Len(Entries(t)) <= Len(after)
        <5>1. Len(Entries(t)) \in Nat /\ Len(Entries(t)) <= Len(c)
          BY <1>1, LaidNumbers DEF Fits
        <5> QED BY <1>1, <2>3, <5>1
      <4> QED BY <1>1, <4>1 DEF Fits
    <3>3. WorkInv(u, storage, from, transitions, n)
      BY <2>1, <3>1, <3>2 DEF WorkInv
    <3> QED BY <3>3 DEF u
  <2>5. CASE ~Path!RefusesEntry(t)
    <3> DEFINE grown == Len(c) - Len(storage)
    <3>1. /\ u.contents = after /\ u.tracker = Path!WithStateIndex(t, Len(c))
          /\ u.targets = Append(w.targets, Len(c)) /\ u.thrown = FALSE
          /\ u = [contents |-> u.contents, tracker |-> u.tracker, targets |-> u.targets,
                  thrown |-> u.thrown]
      BY <2>2, <2>5
    <3>2. /\ grown \in Nat /\ Len(c) = Len(storage) + grown
          /\ Len(after) - Len(storage) = grown + 1
      BY <1>1, <2>3
    <3>3. Pushes(t, from, Len(storage), grown)
      BY <1>7 DEF WorkInv
    <3> HIDE DEF grown
    <3>4. /\ Fits(Path!WithStateIndex(t, Len(c)), after)
          /\ Pushes(Path!WithStateIndex(t, Len(c)), from, Len(storage), grown + 1)
      <4> HIDE DEF c, t
      <4> QED BY <1>1, <2>1, <2>5, <3>2, <3>3, PushesIndex DEF after
    <3>5. Answers(w.targets, c, transitions, n - 1)
      BY <1>7 DEF WorkInv
    <3>6. Answers(Append(w.targets, Len(c)), after, transitions, n)
      <4>1. Len(c) + 1 \in 1..Len(after) /\ Len(c) <= Len(after)
        BY <1>1, <2>3
      <4> HIDE DEF c
      <4> QED BY <1>1, <2>3, <3>5, <4>1, AnswersMore
    <3>7. WorkInv(u, storage, from, transitions, n)
      BY <2>1, <3>1, <3>2, <3>4, <3>6 DEF WorkInv
    <3> QED BY <3>7 DEF u
  <2> QED BY <2>4, <2>5
<1> QED BY <1>1, <1>4, <1>5, <1>6, <1>7

IsWork(work, storage, pt, transitions) ==
  work = [n \in 0..Len(transitions) |->
            IF n = 0 THEN Begin(storage, pt, transitions)
            ELSE AddTarget(work[n - 1], transitions[n])]

\* The loop is well defined: there is a function that is its work, round by round.
LEMMA LoopIsFunction ==
  ASSUME NEW storage, NEW pt, NEW transitions, Len(transitions) \in Nat
  PROVE  \E work : IsWork(work, storage, pt, transitions)
PROOF
<1> DEFINE B == Begin(storage, pt, transitions)
           Is(g, N) == g = [n \in 0..N |-> IF n = 0 THEN B
                                           ELSE AddTarget(g[n - 1], transitions[n])]
           Bad == {N \in 0..Len(transitions) : ~\E g : Is(g, N)}
<1>1. Bad = {}
  <2> SUFFICES ASSUME Bad # {} PROVE FALSE
    OBVIOUS
  <2>1. Bad \in SUBSET Nat
    OBVIOUS
  <2> HIDE DEF Bad
  <2>2. PICK N \in Bad : \A k \in Bad : N <= k
    BY <2>1, Frames!LeastNumber, TrackerFits
  <2> USE DEF Bad
  <2>3. CASE N = 0
    <3>1. Is([n \in 0..0 |-> B], 0)
      OBVIOUS
    <3> QED BY <2>2, <2>3, <3>1
  <2>4. CASE N # 0
    <3>1. N - 1 \in 0..Len(transitions) /\ ~(N <= N - 1) /\ N \in Nat
      BY <2>2, <2>4
    <3>2. N - 1 \notin Bad
      BY <2>2, <3>1
    <3>3. PICK g : Is(g, N - 1)
      BY <3>1, <3>2
    <3> DEFINE h == [n \in 0..N |-> IF n = N THEN AddTarget(g[N - 1], transitions[N])
                                    ELSE g[n]]
    <3>4. ASSUME NEW n \in 0..N
          PROVE  h[n] = IF n = 0 THEN B ELSE AddTarget(h[n - 1], transitions[n])
      <4>1. CASE n = N
        BY <2>4, <3>1, <4>1
      <4>2. CASE n # N
        <5>1. n \in 0..N - 1 /\ (n # 0 => n - 1 \in 0..N - 1 /\ n - 1 # N /\ n - 1 \in 0..N)
          BY <3>1, <4>2
        <5>2. g[n] = IF n = 0 THEN B ELSE AddTarget(g[n - 1], transitions[n])
          BY <3>3, <5>1
        <5>3. h[n] = g[n] /\ (n # 0 => h[n - 1] = g[n - 1])
          BY <4>2, <5>1
        <5> HIDE DEF h
        <5> QED BY <5>2, <5>3
      <4> QED BY <4>1, <4>2
    <3>5. Is(h, N)
      <4>1. h = [n \in 0..N |-> h[n]]
        OBVIOUS
      <4> HIDE DEF h
      <4> QED BY <3>4, <4>1
    <3> QED BY <2>2, <3>5
  <2> QED BY <2>3, <2>4
<1>2. Len(transitions) \notin Bad
  BY <1>1
<1>3. PICK g : Is(g, Len(transitions))
  BY <1>2
<1> QED BY <1>3 DEF IsWork

\* What the loop leaves behind.
LEMMA LoopEnds ==
  ASSUME model \in Models, NEW storage \in Seq(StatesAndStuttering),
         Len(storage) <= model.room, Distinct(storage),
         NEW from, Fits(from, storage), KeptAll(from),
         NEW transitions \in Seq(ModelTransitions)
  PROVE  WorkInv(Worked(storage, from, transitions), storage, from, transitions,
                 Len(transitions))
PROOF
<1> DEFINE B == Begin(storage, from, transitions)
           work == CHOOSE g : IsWork(g, storage, from, transitions)
<1>1. Len(transitions) \in Nat
  OBVIOUS
<1>2. IsWork(work, storage, from, transitions)
  <2>1. \E g : IsWork(g, storage, from, transitions)
    BY <1>1, LoopIsFunction
  <2> QED BY <2>1
<1>3. Worked(storage, from, transitions) = work[Len(transitions)]
  BY DEF Worked, IsWork
<1> HIDE DEF work
<1>4. /\ work[0] = B
      /\ \A n \in 1..Len(transitions) : work[n] = AddTarget(work[n - 1], transitions[n])
  <2>1. work[0] = B
    BY <1>1, <1>2 DEF IsWork
  <2>2. ASSUME NEW n \in 1..Len(transitions)
        PROVE  work[n] = AddTarget(work[n - 1], transitions[n])
    <3>1. n \in 0..Len(transitions) /\ n # 0
      BY <1>1
    <3> QED BY <1>2, <3>1 DEF IsWork
  <2> QED BY <2>1, <2>2
<1> DEFINE Bad == {n \in 0..Len(transitions) :
                     ~WorkInv(work[n], storage, from, transitions, n)}
<1>5. Bad = {}
  <2> SUFFICES ASSUME Bad # {} PROVE FALSE
    OBVIOUS
  <2>1. Bad \in SUBSET Nat
    OBVIOUS
  <2> HIDE DEF Bad
  <2>2. PICK n \in Bad : \A k \in Bad : n <= k
    BY <2>1, Frames!LeastNumber, TrackerFits
  <2>3. n \in 0..Len(transitions) /\ ~WorkInv(work[n], storage, from, transitions, n)
    BY <2>2 DEF Bad
  <2>4. n # 0
    BY <1>4, <2>3, LoopBegins
  <2>5. n \in 1..Len(transitions) /\ n - 1 \in 0..Len(transitions) /\ ~(n <= n - 1)
    BY <1>1, <2>3, <2>4
  <2>6. n - 1 \notin Bad
    BY <2>2, <2>5
  <2>7. WorkInv(work[n - 1], storage, from, transitions, n - 1)
    BY <2>5, <2>6 DEF Bad
  <2>8. WorkInv(AddTarget(work[n - 1], transitions[n]), storage, from, transitions, n)
    <3>1. Laid(from)
      BY DEF Fits
    <3> QED BY <2>5, <2>7, <3>1, LoopGoesOn
  <2> QED BY <1>4, <2>3, <2>5, <2>8
<1>6. WorkInv(work[Len(transitions)], storage, from, transitions, Len(transitions))
  BY <1>1, <1>5
<1> QED BY <1>3, <1>6

-----------------------------------------------------------------------------
(***************************************************************************)
(* The inductive invariant.  Its parts are operators on values, so that    *)
(* they can be stated of the tracker between two rounds of the loop, when  *)
(* it is settled and the state it gives is not yet expanded.               *)
(***************************************************************************)
FromOf(m, c, source) == IF source = NoSource THEN m.initial ELSE m.next[c[source + 1]]

ExpandedOf(hs) == {h.source : h \in hs} \ {NoSource}

StateIndexesOf(c) == {n \in 0..Len(c) - 1 : c[n + 1] # Stuttering}

\* Every state index waits in the tracker or is expanded, and none does both.
Pending(c, t, hs) ==
  /\ Distinct(Entries(t))
  /\ \A j \in 1..Len(Entries(t)) : Entries(t)[j] \in StateIndexesOf(c)
  /\ \A j \in WaitingPlaces(t) : Entries(t)[j] \notin ExpandedOf(hs)
  /\ \A n \in StateIndexesOf(c) :
       n \in ExpandedOf(hs) \/ \E j \in WaitingPlaces(t) : Entries(t)[j] = n

\* The source of a frame: the last entry of the frame below it.
SourceOf(t, k) == IF k = 1 THEN NoSource ELSE Entries(t)[EndOf(t, k - 1)]

\* The entries of a frame are targets of transitions from its source.
Follows(m, c, t) ==
  \A k \in 1..Len(t.pathFrames) : \A j \in First(t, k) + 1..EndOf(t, k) :
    c[Entries(t)[j] + 1] \in Targets(FromOf(m, c, SourceOf(t, k)))

\* The modifiers were given all transitions of each source, once.
HandledOk(m, c, hs) ==
  /\ \A h \in hs : h.source = NoSource \/ h.source \in StateIndexesOf(c)
  /\ \A h \in hs : Answers(h.targets, c, FromOf(m, c, h.source), Len(FromOf(m, c, h.source)))
  /\ \A g, h \in hs : g.source = h.source => g = h

Closed(m, set) ==
  /\ Targets(m.initial) \subseteq set
  /\ \A s \in set : Targets(m.next[s]) \subseteq set

\* Only reachable states are stored.
Visited(m, c) ==
  \A set \in SUBSET States : Closed(m, set) =>
    \A n \in StateIndexesOf(c) : c[n + 1] \in set

\* The stuttering state is stored exactly with createStutteringState.
HasStuttering(m, c) == m.createStutteringState <=> \E i \in 1..Len(c) : c[i] = Stuttering

\* The state whose transitions are handled next.
NextSource(t) == IF Len(Entries(t)) = 0 THEN NoSource ELSE Entries(t)[Len(Entries(t))]

-----------------------------------------------------------------------------
LEMMA StateIndexFacts ==
  ASSUME NEW c \in Seq(StatesAndStuttering), NEW n \in StateIndexesOf(c)
  PROVE  /\ n \in Nat /\ n + 1 \in 1..Len(c) /\ c[n + 1] \in States
         /\ n < Len(c) /\ n # NoSource
PROOF
<1>1. n \in Nat /\ n + 1 \in 1..Len(c) /\ c[n + 1] # Stuttering /\ n < Len(c) /\ n # NoSource
  BY DEF StateIndexesOf, NoSource
<1>2. c[n + 1] \in States \cup {Stuttering}
  BY <1>1 DEF StatesAndStuttering
<1> QED BY <1>1, <1>2

\* Settling the tracker takes no state from the waiting ones.
LEMMA SettledKeepsPending ==
  ASSUME NEW m \in Models, NEW c \in Seq(StatesAndStuttering), NEW hs,
         NEW t, Fits(t, c), Pending(c, t, hs), Follows(m, c, t)
  PROVE  LET u == Path!Settled(t)
         IN  /\ Fits(u, c) /\ KeptAll(u) /\ Pending(c, u, hs) /\ Follows(m, c, u)
             /\ Len(Entries(u)) <= Len(Entries(t))
PROOF
<1> DEFINE u == Path!Settled(t)
<1>1. /\ Laid(u) /\ KeptAll(u) /\ KeptBelow(u)
      /\ u.lowestSplittableFrame = t.lowestSplittableFrame
      /\ WaitingPlaces(u) = WaitingPlaces(t)
      /\ Len(u.pathFrames) <= Len(t.pathFrames)
      /\ Len(Entries(u)) <= Len(Entries(t))
      /\ \A j \in 1..Len(Entries(u)) : Entries(u)[j] = Entries(t)[j]
      /\ \A k \in 1..Len(u.pathFrames) :
           First(u, k) = First(t, k) /\ EndOf(u, k) <= EndOf(t, k)
      /\ \A k \in 1..Len(u.pathFrames) - 1 : EndOf(u, k) = EndOf(t, k)
  BY SettledTracker DEF Fits
<1> HIDE DEF u
<1>2. /\ Laid(t) /\ Len(Entries(t)) \in Nat /\ Len(t.pathFrames) \in Nat
      /\ Len(Entries(u)) \in Nat /\ Len(u.pathFrames) \in Nat
      /\ WaitingPlaces(u) \subseteq 1..Len(Entries(u))
      /\ 1..Len(Entries(u)) \subseteq 1..Len(Entries(t))
      /\ 1..Len(u.pathFrames) \subseteq 1..Len(t.pathFrames)
  <2>1. /\ Laid(t) /\ Len(Entries(t)) \in Nat /\ Len(t.pathFrames) \in Nat
    BY LaidNumbers DEF Fits
  <2>2. /\ Len(Entries(u)) \in Nat /\ Len(u.pathFrames) \in Nat
        /\ WaitingPlaces(u) \subseteq 1..Len(Entries(u))
    BY <1>1, LaidNumbers
  <2> QED BY <1>1, <2>1, <2>2
<1>3. Fits(u, c)
  <2>1. Len(Entries(t)) <= Len(c) /\ Len(c) \in Nat
        /\ (Debug => Len(Entries(t)) <= MaximalSearchDepth)
    BY DEF Fits
  <2>2. Len(Entries(u)) <= Len(c) /\ (Debug => Len(Entries(u)) <= MaximalSearchDepth)
    BY <1>1, <1>2, <2>1, TrackerFits
  <2> QED BY <1>1, <2>2 DEF Fits
<1>4. Pending(c, u, hs)
  <2>1. Distinct(Entries(u))
    BY <1>1, <1>2 DEF Pending, Distinct
  <2>2. \A j \in 1..Len(Entries(u)) : Entries(u)[j] \in StateIndexesOf(c)
    BY <1>1, <1>2 DEF Pending
  <2>3. \A j \in WaitingPlaces(u) : Entries(u)[j] = Entries(t)[j]
    BY <1>1, <1>2
  <2>4. \A j \in WaitingPlaces(u) : Entries(u)[j] \notin ExpandedOf(hs)
    BY <1>1, <2>3 DEF Pending
  <2>5. \A n \in StateIndexesOf(c) :
          n \in ExpandedOf(hs) \/ \E j \in WaitingPlaces(u) : Entries(u)[j] = n
    BY <1>1, <2>3 DEF Pending
  <2> QED BY <2>1, <2>2, <2>4, <2>5 DEF Pending
<1>5. Follows(m, c, u)
  <2> SUFFICES ASSUME NEW k \in 1..Len(u.pathFrames), NEW j \in First(u, k) + 1..EndOf(u, k)
               PROVE  c[Entries(u)[j] + 1] \in Targets(FromOf(m, c, SourceOf(u, k)))
    BY DEF Follows
  <2>1. /\ k \in 1..Len(t.pathFrames) /\ First(u, k) \in Nat /\ EndOf(u, k) \in Nat
        /\ EndOf(t, k) \in Nat /\ EndOf(u, k) <= Len(Entries(u))
    BY <1>1, <1>2, LaidNumbers
  <2>2. j \in First(t, k) + 1..EndOf(t, k) /\ j \in 1..Len(Entries(u))
    BY <1>1, <1>2, <2>1
  <2>3. SourceOf(u, k) = SourceOf(t, k)
    <3>1. CASE k = 1
      BY <3>1 DEF SourceOf
    <3>2. CASE k # 1
      <4>1. k - 1 \in 1..Len(u.pathFrames) - 1 /\ k - 1 \in 1..Len(u.pathFrames)
        BY <1>2, <3>2
      <4>2. /\ EndOf(u, k - 1) = EndOf(t, k - 1) /\ EndOf(u, k - 1) \in Nat
            /\ EndOf(u, k - 1) <= Len(Entries(u))
        BY <1>1, <4>1, LaidNumbers
      <4>3. EndOf(u, k - 1) \in 1..Len(Entries(u))
        BY <1>1, <4>1, KeptFrames
      <4> QED BY <1>1, <3>2, <4>2, <4>3 DEF SourceOf
    <3> QED BY <3>1, <3>2
  <2>4. Entries(u)[j] = Entries(t)[j]
    BY <1>1, <2>2
  <2> QED BY <2>1, <2>2, <2>3, <2>4 DEF Follows
<1> QED BY <1>1, <1>3, <1>4, <1>5 DEF u

-----------------------------------------------------------------------------
(***************************************************************************)
(* Handling the transitions of the next source.                            *)
(***************************************************************************)
\* What holds before: the next source is the last entry, or there is none yet.
Ready(m, c, t, hs) ==
  /\ c \in Seq(StatesAndStuttering) /\ Len(c) <= m.room /\ Distinct(c)
  /\ Fits(t, c) /\ KeptAll(t)
  /\ Pending(c, t, hs) /\ Follows(m, c, t)
  /\ HandledOk(m, c, hs)
  /\ HasStuttering(m, c) /\ Visited(m, c)
  /\ \A h \in hs : h.source # NextSource(t)

LEMMA NextSourceFacts ==
  ASSUME NEW m \in Models, NEW c, NEW t, NEW hs, Ready(m, c, t, hs)
  PROVE  LET source      == NextSource(t)
             transitions == FromOf(m, c, source)
         IN  /\ source = NoSource \/ source \in StateIndexesOf(c)
             /\ transitions \in Seq(ModelTransitions)
             /\ m.createStutteringState \/
                  \A k \in 1..Len(transitions) : transitions[k].target # Stuttering
             /\ \A set \in SUBSET States : Closed(m, set) => Targets(transitions) \subseteq set
PROOF
<1> DEFINE source == NextSource(t)
           T == FromOf(m, c, source)
<1>1. source = NoSource \/ source \in StateIndexesOf(c)
  <2>1. CASE Len(Entries(t)) = 0
    BY <2>1 DEF NextSource
  <2>2. CASE Len(Entries(t)) # 0
    <3>1. Len(Entries(t)) \in 1..Len(Entries(t))
      BY <2>2, LaidNumbers DEF Ready, Fits
    <3> QED BY <2>2, <3>1 DEF NextSource, Ready, Pending
  <2> QED BY <2>1, <2>2
<1> HIDE DEF source
<1>2. /\ m.initial \in Seq(ModelTransitions)
      /\ \A s \in States : m.next[s] \in Seq(ModelTransitions)
      /\ m.createStutteringState \in BOOLEAN
  BY ModelAssumption
<1>3. CASE source = NoSource
  <2>1. T = m.initial
    BY <1>3 DEF FromOf
  <2>2. ~m.createStutteringState =>
          \A k \in 1..Len(T) : T[k].target # Stuttering
    <3>1. \A k \in 1..Len(T) : T[k] \in Range(m.initial)
      <4>1. DOMAIN m.initial = 1..Len(m.initial)
        BY <1>2
      <4> QED BY <2>1, <4>1 DEF Range
    <3> QED BY <3>1, ModelAssumption
  <2> QED BY <1>1, <1>2, <2>1, <2>2 DEF Closed, source
<1>4. CASE source \in StateIndexesOf(c)
  <2> DEFINE s == c[source + 1]
  <2>1. s \in States /\ source # NoSource
    BY <1>4, StateIndexFacts DEF Ready
  <2>2. T = m.next[s]
    BY <2>1 DEF FromOf
  <2>3. ~m.createStutteringState =>
          \A k \in 1..Len(T) : T[k].target # Stuttering
    <3>1. \A k \in 1..Len(T) : T[k] \in UNION {Range(m.next[r]) : r \in States}
      <4>1. DOMAIN m.next[s] = 1..Len(m.next[s])
        BY <1>2, <2>1
      <4>2. \A k \in 1..Len(T) : T[k] \in Range(m.next[s])
        BY <2>2, <4>1 DEF Range
      <4> QED BY <2>1, <4>2
    <3> QED BY <3>1, ModelAssumption
  <2>4. ASSUME NEW set \in SUBSET States, Closed(m, set)
        PROVE  Targets(T) \subseteq set
    <3>1. s \in set
      BY <1>4, <2>4 DEF Ready, Visited
    <3> QED BY <2>2, <2>4, <3>1 DEF Closed
  <2>5. T \in Seq(ModelTransitions)
    BY <1>2, <2>1, <2>2
  <2> QED BY <1>1, <1>2, <2>3, <2>4, <2>5 DEF source
<1> QED BY <1>1, <1>3, <1>4

\* The storage only grows, and only by targets of the transitions.
LEMMA StorageGrows ==
  ASSUME NEW m \in Models, NEW c, NEW t, NEW hs, Ready(m, c, t, hs),
         NEW T, T = FromOf(m, c, NextSource(t)),
         NEW d, Stores(m, d, c, T, Len(T))
  PROVE  /\ Len(c) \in Nat /\ Len(d) \in Nat /\ Len(c) <= Len(d)
         /\ StateIndexesOf(d) = StateIndexesOf(c) \cup (Len(c)..Len(d) - 1)
         /\ \A n \in StateIndexesOf(c) : n < Len(c) /\ n # NoSource /\ d[n + 1] = c[n + 1]
         /\ \A n \in Len(c)..Len(d) - 1 : d[n + 1] \in Targets(T)
         /\ FromOf(m, d, NoSource) = FromOf(m, c, NoSource)
         /\ \A n \in StateIndexesOf(c) : FromOf(m, d, n) = FromOf(m, c, n)
         /\ HasStuttering(m, d)
PROOF
<1>1. /\ c \in Seq(StatesAndStuttering) /\ d \in Seq(StatesAndStuttering)
      /\ Len(c) \in Nat /\ Len(d) \in Nat /\ Len(c) <= Len(d)
      /\ \A i \in 1..Len(c) : d[i] = c[i]
      /\ \A i, j \in 1..Len(d) : d[i] = d[j] => i = j
  BY DEF Ready, Stores, Distinct
<1>2. /\ T \in Seq(ModelTransitions)
      /\ m.createStutteringState \/ \A k \in 1..Len(T) : T[k].target # Stuttering
  BY NextSourceFacts
<1>3. HasStuttering(m, d)
  <2>1. HasStuttering(m, c) /\ 1..Len(c) \subseteq 1..Len(d)
    BY <1>1 DEF Ready
  <2>2. ASSUME NEW i \in 1..Len(d), d[i] = Stuttering, ~m.createStutteringState
        PROVE  \E j \in 1..Len(c) : c[j] = Stuttering
    <3>1. i \in 1..Len(c) \/ i \in Len(c) + 1..Len(d)
      BY <1>1
    <3>2. CASE i \in Len(c) + 1..Len(d)
      BY <1>2, <2>2, <3>2 DEF Stores
    <3> QED BY <1>1, <2>2, <3>1, <3>2
  <2> QED BY <1>1, <2>1, <2>2 DEF HasStuttering
<1>4. ASSUME NEW n \in Len(c)..Len(d) - 1
      PROVE  n \in StateIndexesOf(d) /\ d[n + 1] \in Targets(T)
  <2>1. n \in 0..Len(d) - 1 /\ n + 1 \in Len(c) + 1..Len(d) /\ n + 1 \in 1..Len(d)
    BY <1>1
  <2>2. PICK k \in 1..Len(T) : d[n + 1] = T[k].target
    BY <2>1 DEF Stores
  <2>3. d[n + 1] # Stuttering
    <3>1. CASE m.createStutteringState
      <4>1. PICK i \in 1..Len(c) : c[i] = Stuttering
        BY <3>1 DEF Ready, HasStuttering
      <4>2. i \in 1..Len(d) /\ d[i] = Stuttering /\ i # n + 1
        BY <1>1, <4>1
      <4> QED BY <1>1, <2>1, <4>2
    <3>2. CASE ~m.createStutteringState
      BY <1>2, <2>2, <3>2
    <3> QED BY <3>1, <3>2
  <2>4. T[k] \in Range(T)
    <3>1. DOMAIN T = 1..Len(T)
      BY <1>2
    <3> QED BY <2>2, <3>1 DEF Range
  <2> QED BY <2>1, <2>2, <2>3, <2>4 DEF StateIndexesOf, Targets
<1>5. ASSUME NEW n \in StateIndexesOf(c)
      PROVE  /\ n < Len(c) /\ n # NoSource /\ d[n + 1] = c[n + 1]
             /\ n \in StateIndexesOf(d) /\ FromOf(m, d, n) = FromOf(m, c, n)
  <2>1. n \in Nat /\ n + 1 \in 1..Len(c) /\ n < Len(c) /\ n # NoSource
    BY <1>1, StateIndexFacts
  <2>2. d[n + 1] = c[n + 1] /\ n \in 0..Len(d) - 1
    BY <1>1, <2>1
  <2> QED BY <2>1, <2>2 DEF StateIndexesOf, FromOf
<1>6. StateIndexesOf(d) \subseteq StateIndexesOf(c) \cup (Len(c)..Len(d) - 1)
  <2> SUFFICES ASSUME NEW n \in StateIndexesOf(d), n \notin Len(c)..Len(d) - 1
               PROVE  n \in StateIndexesOf(c)
    OBVIOUS
  <2>1. n \in 0..Len(c) - 1 /\ n + 1 \in 1..Len(c) /\ d[n + 1] # Stuttering
    BY <1>1 DEF StateIndexesOf
  <2> QED BY <1>1, <2>1 DEF StateIndexesOf
<1>7. FromOf(m, d, NoSource) = FromOf(m, c, NoSource)
  BY DEF FromOf
<1> QED BY <1>1, <1>3, <1>4, <1>5, <1>6, <1>7

LEMMA GrownKeepsHandled ==
  ASSUME NEW m \in Models, NEW c, NEW t, NEW hs, Ready(m, c, t, hs),
         NEW T, T = FromOf(m, c, NextSource(t)),
         NEW d, Stores(m, d, c, T, Len(T))
  PROVE  HandledOk(m, d, hs) /\ Visited(m, d)
PROOF
<1>1. /\ Len(c) \in Nat /\ Len(d) \in Nat /\ Len(c) <= Len(d)
      /\ StateIndexesOf(d) = StateIndexesOf(c) \cup (Len(c)..Len(d) - 1)
      /\ \A n \in StateIndexesOf(c) : d[n + 1] = c[n + 1]
      /\ \A n \in Len(c)..Len(d) - 1 : d[n + 1] \in Targets(T)
      /\ FromOf(m, d, NoSource) = FromOf(m, c, NoSource)
      /\ \A n \in StateIndexesOf(c) : FromOf(m, d, n) = FromOf(m, c, n)
  BY StorageGrows
<1>2. /\ HandledOk(m, c, hs) /\ Visited(m, c)
      /\ \A i \in 1..Len(c) : d[i] = c[i]
      /\ 1..Len(c) \subseteq 1..Len(d)
  BY <1>1 DEF Ready, Stores
<1>3. ASSUME NEW h \in hs
      PROVE  /\ FromOf(m, d, h.source) = FromOf(m, c, h.source)
             /\ Answers(h.targets, d, FromOf(m, d, h.source), Len(FromOf(m, d, h.source)))
  <2>1. FromOf(m, d, h.source) = FromOf(m, c, h.source)
    <3>1. h.source = NoSource \/ h.source \in StateIndexesOf(c)
      BY <1>2 DEF HandledOk
    <3> QED BY <1>1, <3>1
  <2> DEFINE F == FromOf(m, c, h.source)
  <2>2. Answers(h.targets, c, F, Len(F))
    BY <1>2 DEF HandledOk
  <2> HIDE DEF F
  <2>3. Answers(h.targets, d, F, Len(F))
    BY <1>2, <2>2 DEF Answers
  <2> QED BY <2>1, <2>3 DEF F
<1>4. HandledOk(m, d, hs)
  <2>1. \A h \in hs : h.source = NoSource \/ h.source \in StateIndexesOf(d)
    BY <1>1, <1>2 DEF HandledOk
  <2>2. \A g, h \in hs : g.source = h.source => g = h
    BY <1>2 DEF HandledOk
  <2> QED BY <1>3, <2>1, <2>2 DEF HandledOk
<1>5. ASSUME NEW set \in SUBSET States, Closed(m, set), NEW n \in StateIndexesOf(d)
      PROVE  d[n + 1] \in set
  <2>1. CASE n \in StateIndexesOf(c)
    BY <1>1, <1>2, <1>5, <2>1 DEF Visited
  <2>2. CASE n \in Len(c)..Len(d) - 1
    <3>1. Targets(T) \subseteq set
      BY <1>5, NextSourceFacts
    <3> QED BY <1>1, <2>2, <3>1
  <2> QED BY <1>1, <2>1, <2>2
<1> QED BY <1>4, <1>5 DEF Visited

LEMMA HandledGrows ==
  ASSUME NEW m \in Models, NEW c, NEW t, NEW hs, Ready(m, c, t, hs),
         NEW T, T = FromOf(m, c, NextSource(t)),
         NEW d, Stores(m, d, c, T, Len(T)),
         NEW ts, Answers(ts, d, T, Len(T))
  PROVE  LET new == [source |-> NextSource(t), targets |-> ts]
         IN  /\ HandledOk(m, d, hs \cup {new})
             /\ FromOf(m, d, new.source) = T
PROOF
<1> DEFINE source == NextSource(t)
           new == [source |-> source, targets |-> ts]
<1>1. /\ StateIndexesOf(d) = StateIndexesOf(c) \cup (Len(c)..Len(d) - 1)
      /\ FromOf(m, d, NoSource) = FromOf(m, c, NoSource)
      /\ \A n \in StateIndexesOf(c) : FromOf(m, d, n) = FromOf(m, c, n)
  BY StorageGrows
<1>2. HandledOk(m, d, hs)
  BY GrownKeepsHandled
<1>3. source = NoSource \/ source \in StateIndexesOf(c)
  BY NextSourceFacts
<1>4. \A h \in hs : h.source # source
  BY DEF Ready
<1>5. T = FromOf(m, c, source)
  OBVIOUS
<1> HIDE DEF source
<1>6. new.source = source /\ new.targets = ts
  OBVIOUS
<1> HIDE DEF new
<1>7. FromOf(m, d, new.source) = T
  BY <1>1, <1>3, <1>5, <1>6
<1>8. HandledOk(m, d, hs \cup {new})
  <2>1. \A h \in hs \cup {new} : h.source = NoSource \/ h.source \in StateIndexesOf(d)
    BY <1>1, <1>2, <1>3, <1>6 DEF HandledOk
  <2>2. \A h \in hs \cup {new} :
          Answers(h.targets, d, FromOf(m, d, h.source), Len(FromOf(m, d, h.source)))
    <3>1. Answers(new.targets, d, FromOf(m, d, new.source), Len(FromOf(m, d, new.source)))
      BY <1>6, <1>7
    <3>2. \A h \in hs :
            Answers(h.targets, d, FromOf(m, d, h.source), Len(FromOf(m, d, h.source)))
      BY <1>2 DEF HandledOk
    <3> QED BY <3>1, <3>2
  <2>3. \A g, h \in hs \cup {new} : g.source = h.source => g = h
    BY <1>2, <1>4, <1>6 DEF HandledOk
  <2> QED BY <2>1, <2>2, <2>3 DEF HandledOk
<1> QED BY <1>7, <1>8 DEF new, source

\* The numbers of the entries pushed.
LEMMA PushedNumbers ==
  ASSUME NEW t, Laid(t), NEW base \in Nat, NEW grown \in Nat, NEW u, Laid(u),
         Pushes(u, t, base, grown)
  PROVE  LET k == Len(Entries(t)) IN
         /\ k \in Nat /\ Len(Entries(u)) = k + grown
         /\ \A j \in 1..Len(Entries(u)) :
              \/ j \in 1..k /\ Entries(u)[j] = Entries(t)[j]
              \/ j \notin 1..k /\ j - k \in 1..grown /\ Entries(u)[j] = base + (j - k) - 1
         /\ \A j \in 1..grown : k + j \in 1..Len(Entries(u)) /\ Entries(u)[k + j] = base + j - 1
PROOF
<1> DEFINE k == Len(Entries(t))
<1>1. k \in Nat /\ Len(Entries(u)) \in Nat
  BY LaidNumbers
<1>2. /\ Len(Entries(u)) = k + grown
      /\ \A j \in 1..k : Entries(u)[j] = Entries(t)[j]
      /\ \A j \in 1..grown : Entries(u)[k + j] = base + j - 1
  BY DEF Pushes
<1> HIDE DEF k
<1>3. ASSUME NEW j \in 1..Len(Entries(u)), j \notin 1..k
      PROVE  j - k \in 1..grown /\ Entries(u)[j] = base + (j - k) - 1
  <2> DEFINE i == j - k
  <2>1. i \in 1..grown /\ k + i = j
    BY <1>1, <1>2, <1>3
  <2> HIDE DEF i
  <2>2. Entries(u)[k + i] = base + i - 1
    BY <1>2, <2>1
  <2> QED BY <2>1, <2>2 DEF i
<1>4. \A j \in 1..grown : k + j \in 1..Len(Entries(u))
  BY <1>1, <1>2
<1> QED BY <1>1, <1>2, <1>3, <1>4 DEF k

LEMMA PendingGrows ==
  ASSUME NEW m \in Models, NEW c, NEW t, NEW hs, Ready(m, c, t, hs),
         NEW T, T = FromOf(m, c, NextSource(t)),
         NEW d, Stores(m, d, c, T, Len(T)), NEW ts,
         NEW u, Laid(u), Pushes(u, t, Len(c), Len(d) - Len(c))
  PROVE  Pending(d, u, hs \cup {[source |-> NextSource(t), targets |-> ts]})
PROOF
<1> DEFINE source == NextSource(t)
           new == [source |-> source, targets |-> ts]
           grown == Len(d) - Len(c)
           base == Len(c)
           k == Len(Entries(t))
           E == Entries(t)
           F == Entries(u)
<1>1. /\ base \in Nat /\ grown \in Nat /\ Len(d) = base + grown
      /\ StateIndexesOf(d) = StateIndexesOf(c) \cup (base..base + grown - 1)
      /\ \A n \in StateIndexesOf(c) : n \in Nat /\ n < base /\ n # NoSource
  <2>1. /\ Len(c) \in Nat /\ Len(d) \in Nat /\ Len(c) <= Len(d)
        /\ StateIndexesOf(d) = StateIndexesOf(c) \cup (Len(c)..Len(d) - 1)
        /\ \A n \in StateIndexesOf(c) : n < Len(c) /\ n # NoSource
    BY StorageGrows
  <2>2. base + grown = Len(d) /\ grown \in Nat
    BY <2>1
  <2>3. \A n \in StateIndexesOf(c) : n \in Nat
    BY StateIndexFacts DEF Ready
  <2> QED BY <2>1, <2>2, <2>3
<1>2. Laid(t) /\ Pending(c, t, hs) /\ \A h \in hs : h.source # source
  BY DEF Ready, Fits
<1>3. Pushes(u, t, base, grown)
  OBVIOUS
<1>4. /\ HandledOk(m, c, hs)
      /\ \A n \in ExpandedOf(hs) : n \in StateIndexesOf(c)
  BY DEF Ready, HandledOk, ExpandedOf
<1>5. source = IF k = 0 THEN NoSource ELSE E[k]
  BY DEF NextSource
<1>6. WaitingPlaces(u) = (WaitingPlaces(t) \ {k}) \cup (k + 1..k + grown)
  BY <1>3 DEF Pushes
<1>7. ExpandedOf(hs \cup {new}) = ExpandedOf(hs) \cup ({source} \ {NoSource})
  <2>1. new.source = source
    OBVIOUS
  <2> HIDE DEF new, source
  <2> QED BY <2>1 DEF ExpandedOf
<1> HIDE DEF grown, base, source, new
<1>8. /\ k \in Nat /\ Len(F) = k + grown
      /\ \A j \in 1..Len(F) :
           \/ j \in 1..k /\ F[j] = E[j]
           \/ j \notin 1..k /\ j - k \in 1..grown /\ F[j] = base + (j - k) - 1
      /\ \A j \in 1..grown : k + j \in 1..Len(F) /\ F[k + j] = base + j - 1
  BY <1>1, <1>2, <1>3, PushedNumbers
<1>9. WaitingPlaces(t) \subseteq 1..k /\ WaitingPlaces(u) \subseteq 1..Len(F)
  BY <1>2, LaidNumbers
<1>10. /\ \A i, j \in 1..k : E[i] = E[j] => i = j
       /\ \A j \in 1..k : E[j] \in StateIndexesOf(c)
       /\ \A j \in WaitingPlaces(t) : E[j] \notin ExpandedOf(hs)
       /\ \A n \in StateIndexesOf(c) :
            n \in ExpandedOf(hs) \/ \E j \in WaitingPlaces(t) : E[j] = n
  BY <1>2 DEF Pending, Distinct
<1> HIDE DEF E, F, k
<1>11. \A i, j \in 1..Len(F) : F[i] = F[j] => i = j
  <2> SUFFICES ASSUME NEW i \in 1..Len(F), NEW j \in 1..Len(F), F[i] = F[j]
               PROVE  i = j
    OBVIOUS
  <2>1. CASE i \in 1..k /\ j \in 1..k
    BY <1>8, <1>10, <2>1
  <2>2. CASE i \in 1..k /\ j \notin 1..k
    <3>1. F[i] \in Nat /\ F[i] < base
      BY <1>1, <1>8, <1>10, <2>2
    <3>2. F[j] = base + (j - k) - 1 /\ j - k \in 1..grown
      BY <1>8, <2>2
    <3> QED BY <1>1, <3>1, <3>2
  <2>3. CASE i \notin 1..k /\ j \in 1..k
    <3>1. F[j] \in Nat /\ F[j] < base
      BY <1>1, <1>8, <1>10, <2>3
    <3>2. F[i] = base + (i - k) - 1 /\ i - k \in 1..grown
      BY <1>8, <2>3
    <3> QED BY <1>1, <3>1, <3>2
  <2>4. CASE i \notin 1..k /\ j \notin 1..k
    <3>1. /\ F[i] = base + (i - k) - 1 /\ i - k \in 1..grown
          /\ F[j] = base + (j - k) - 1 /\ j - k \in 1..grown
      BY <1>8, <2>4
    <3>2. base + (i - k) - 1 = base + (j - k) - 1
      BY <3>1
    <3>3. i \in Int /\ j \in Int /\ k \in Int /\ base \in Int
      BY <1>1, <1>8
    <3> QED BY <3>2, <3>3
  <2> QED BY <2>1, <2>2, <2>3, <2>4
<1>12. ASSUME NEW j \in 1..Len(F)
       PROVE  F[j] \in StateIndexesOf(d)
  <2>1. CASE j \in 1..k
    BY <1>1, <1>8, <1>10, <2>1
  <2>2. CASE j \notin 1..k
    <3>1. F[j] = base + (j - k) - 1 /\ j - k \in 1..grown
      BY <1>8, <2>2
    <3>2. F[j] \in base..base + grown - 1
      BY <1>1, <3>1
    <3> QED BY <1>1, <3>2
  <2> QED BY <2>1, <2>2
<1>13. ASSUME NEW j \in WaitingPlaces(u)
       PROVE  F[j] \notin ExpandedOf(hs) /\ (F[j] # source \/ source = NoSource)
  <2>1. CASE j \in WaitingPlaces(t) /\ j # k
    <3>1. j \in 1..k /\ j \in 1..Len(F)
      BY <1>8, <1>9, <1>13, <2>1
    <3>2. F[j] = E[j]
      BY <1>8, <3>1
    <3>3. k # 0 /\ k \in 1..k
      BY <1>8, <3>1
    <3> QED BY <1>5, <1>10, <2>1, <3>1, <3>2, <3>3
  <2>2. CASE j \in k + 1..k + grown
    <3>1. j \notin 1..k /\ j \in 1..Len(F)
      BY <1>1, <1>8, <2>2
    <3>2. F[j] = base + (j - k) - 1 /\ j - k \in 1..grown
      BY <1>8, <3>1
    <3>3. ~(F[j] < base)
      BY <1>1, <3>2
    <3>4. F[j] \notin StateIndexesOf(c)
      BY <1>1, <3>3
    <3>5. source = NoSource \/ source \in StateIndexesOf(c)
      BY <1>5, <1>8, <1>10
    <3> QED BY <1>4, <3>4, <3>5
  <2> QED BY <1>6, <2>1, <2>2
<1>14. ASSUME NEW n \in StateIndexesOf(d)
       PROVE  n \in ExpandedOf(hs) \/ (n = source /\ n # NoSource)
                \/ \E j \in WaitingPlaces(u) : F[j] = n
  <2>1. CASE n \in StateIndexesOf(c) /\ n \notin ExpandedOf(hs)
    <3>1. PICK j \in WaitingPlaces(t) : E[j] = n
      BY <1>10, <2>1
    <3>2. CASE j = k
      BY <1>1, <1>5, <1>8, <1>9, <2>1, <3>1, <3>2
    <3>3. CASE j # k
      <4>1. j \in WaitingPlaces(u)
        BY <1>6, <3>1, <3>3
      <4>2. j \in 1..k /\ j \in 1..Len(F)
        BY <1>9, <4>1, <3>1
      <4> QED BY <1>8, <3>1, <4>1, <4>2
    <3> QED BY <3>2, <3>3
  <2>2. CASE n \in base..base + grown - 1
    <3> DEFINE j == n - base + 1
    <3>1. j \in 1..grown /\ base + j - 1 = n /\ k + j \in k + 1..k + grown
      BY <1>1, <1>8, <2>2
    <3> HIDE DEF j
    <3>2. F[k + j] = n /\ k + j \in WaitingPlaces(u)
      BY <1>6, <1>8, <3>1
    <3> QED BY <3>2
  <2> QED BY <1>1, <2>1, <2>2
<1>15. Pending(d, u, hs \cup {new})
  <2>1. Distinct(F)
    BY <1>11 DEF Distinct
  <2>2. \A j \in WaitingPlaces(u) : F[j] \notin ExpandedOf(hs \cup {new})
    BY <1>7, <1>13
  <2>3. \A n \in StateIndexesOf(d) :
          n \in ExpandedOf(hs \cup {new}) \/ \E j \in WaitingPlaces(u) : F[j] = n
    BY <1>7, <1>14
  <2> QED BY <1>12, <2>1, <2>2, <2>3 DEF Pending, F
<1> QED BY <1>15 DEF new, source

LEMMA FollowsGrows ==
  ASSUME NEW m \in Models, NEW c, NEW t, NEW hs, Ready(m, c, t, hs),
         NEW T, T = FromOf(m, c, NextSource(t)),
         NEW d, Stores(m, d, c, T, Len(T)),
         NEW u, Laid(u), Pushes(u, t, Len(c), Len(d) - Len(c))
  PROVE  Follows(m, d, u)
PROOF
<1> DEFINE source == NextSource(t)
           grown == Len(d) - Len(c)
           base == Len(c)
           n == Len(Entries(t))
           E == Entries(t)
           F == Entries(u)
           frames == Len(t.pathFrames)
<1>1. /\ base \in Nat /\ grown \in Nat /\ Len(d) = base + grown
      /\ \A i \in StateIndexesOf(c) : d[i + 1] = c[i + 1]
      /\ \A i \in base..base + grown - 1 : d[i + 1] \in Targets(T)
      /\ FromOf(m, d, NoSource) = FromOf(m, c, NoSource)
      /\ \A i \in StateIndexesOf(c) : FromOf(m, d, i) = FromOf(m, c, i)
  <2>1. /\ Len(c) \in Nat /\ Len(d) \in Nat /\ Len(c) <= Len(d)
        /\ \A i \in StateIndexesOf(c) : d[i + 1] = c[i + 1]
        /\ \A i \in Len(c)..Len(d) - 1 : d[i + 1] \in Targets(T)
        /\ FromOf(m, d, NoSource) = FromOf(m, c, NoSource)
        /\ \A i \in StateIndexesOf(c) : FromOf(m, d, i) = FromOf(m, c, i)
    BY StorageGrows
  <2>2. base + grown = Len(d) /\ grown \in Nat
    BY <2>1
  <2> QED BY <2>1, <2>2
<1>2. /\ Laid(t) /\ KeptAll(t) /\ Follows(m, c, t)
      /\ \A j \in 1..n : E[j] \in StateIndexesOf(c)
  BY DEF Ready, Fits, Pending
<1>3. Pushes(u, t, base, grown)
  OBVIOUS
<1>4. source = IF n = 0 THEN NoSource ELSE E[n]
  BY DEF NextSource
<1>5. T = FromOf(m, c, source)
  OBVIOUS
<1> HIDE DEF grown, base, source
<1>6. /\ n \in Nat /\ Len(F) = n + grown
      /\ \A j \in 1..Len(F) :
           \/ j \in 1..n /\ F[j] = E[j]
           \/ j \notin 1..n /\ j - n \in 1..grown /\ F[j] = base + (j - n) - 1
  BY <1>1, <1>2, <1>3, PushedNumbers
<1>7. /\ Len(u.pathFrames) = frames + 1
      /\ \A k \in 1..frames : EndOf(u, k) = EndOf(t, k)
  BY <1>3 DEF Pushes
<1>8. /\ frames \in Nat
      /\ n = IF frames = 0 THEN 0 ELSE EndOf(t, frames)
      /\ \A k \in 1..frames :
           /\ First(t, k) \in Nat /\ EndOf(t, k) \in Nat /\ EndOf(t, k) <= n
           /\ First(t, k) = IF k = 1 THEN 0 ELSE EndOf(t, k - 1)
      /\ Len(F) = EndOf(u, frames + 1)
      /\ \A k \in 1..frames + 1 :
           First(u, k) = IF k = 1 THEN 0 ELSE EndOf(u, k - 1)
  <2>1. frames \in Nat /\ frames + 1 # 0
    BY <1>2, LaidNumbers
  <2> QED BY <1>2, <1>7, <2>1, LaidNumbers
<1>9. \A k \in 1..frames : EndOf(t, k) \in 1..n
  BY <1>2, KeptFrames
<1> HIDE DEF E, F, n
<1>10. ASSUME NEW k \in 1..frames
       PROVE  First(u, k) = First(t, k) /\ SourceOf(u, k) = SourceOf(t, k)
  <2>1. CASE k = 1
    BY <1>8, <1>10, <2>1 DEF SourceOf
  <2>2. CASE k # 1
    <3>1. k - 1 \in 1..frames /\ k \in 1..frames + 1
      BY <1>8, <2>2
    <3>2. EndOf(u, k - 1) = EndOf(t, k - 1) /\ EndOf(t, k - 1) \in 1..n
      BY <1>7, <1>9, <3>1
    <3>3. EndOf(t, k - 1) \in 1..Len(F)
      BY <1>1, <1>6, <3>2
    <3>4. F[EndOf(t, k - 1)] = E[EndOf(t, k - 1)]
      BY <1>6, <3>2, <3>3
    <3> QED BY <1>8, <2>2, <3>1, <3>2, <3>4 DEF SourceOf, E, F
  <2> QED BY <2>1, <2>2
<1>11. ASSUME NEW k \in 1..frames
       PROVE  FromOf(m, d, SourceOf(t, k)) = FromOf(m, c, SourceOf(t, k))
  <2>1. CASE k = 1
    BY <1>1, <2>1 DEF SourceOf
  <2>2. CASE k # 1
    <3>1. k - 1 \in 1..frames
      BY <1>8, <2>2
    <3>2. E[EndOf(t, k - 1)] \in StateIndexesOf(c)
      BY <1>2, <1>9, <3>1 DEF E
    <3> QED BY <1>1, <2>2, <3>2 DEF SourceOf, E
  <2> QED BY <2>1, <2>2
<1>12. SourceOf(u, frames + 1) = source /\ FromOf(m, d, source) = T
  <2>1. CASE frames = 0
    BY <1>1, <1>4, <1>5, <1>8, <2>1 DEF SourceOf
  <2>2. CASE frames # 0
    <3>1. frames \in 1..frames /\ frames + 1 # 1 /\ frames + 1 - 1 = frames
      BY <1>8, <2>2
    <3>2. EndOf(u, frames) = n /\ n \in 1..n /\ n \in 1..Len(F)
      BY <1>1, <1>6, <1>7, <1>8, <1>9, <2>2, <3>1
    <3>3. F[n] = E[n] /\ n # 0
      BY <1>6, <3>2
    <3>4. E[n] \in StateIndexesOf(c)
      BY <1>2, <3>2 DEF E, n
    <3>5. SourceOf(u, frames + 1) = E[n]
      BY <3>1, <3>2, <3>3 DEF SourceOf, F
    <3> QED BY <1>1, <1>4, <1>5, <3>3, <3>4, <3>5
  <2> QED BY <2>1, <2>2
<1>13. ASSUME NEW k \in 1..frames + 1, NEW j \in First(u, k) + 1..EndOf(u, k)
       PROVE  d[F[j] + 1] \in Targets(FromOf(m, d, SourceOf(u, k)))
  <2>1. CASE k \in 1..frames
    <3>1. j \in First(t, k) + 1..EndOf(t, k)
      BY <1>7, <1>10, <1>13, <2>1
    <3>2. j \in 1..n /\ j \in 1..Len(F)
      <4>1. First(t, k) \in Nat /\ EndOf(t, k) \in Nat /\ EndOf(t, k) <= n
        BY <1>8, <2>1
      <4> QED BY <1>1, <1>6, <3>1, <4>1
    <3>3. F[j] = E[j] /\ E[j] \in StateIndexesOf(c)
      BY <1>2, <1>6, <3>2 DEF E, n
    <3>4. c[E[j] + 1] \in Targets(FromOf(m, c, SourceOf(t, k)))
      BY <1>2, <2>1, <3>1 DEF Follows, E
    <3> QED BY <1>1, <1>10, <1>11, <2>1, <3>3, <3>4
  <2>2. CASE k = frames + 1
    <3>1. First(u, k) = n /\ EndOf(u, k) = n + grown
      <4>1. k = 1 <=> frames = 0
        BY <1>8, <2>2
      <4>2. frames # 0 => frames \in 1..frames /\ k - 1 = frames
        BY <1>8, <2>2
      <4> QED BY <1>6, <1>7, <1>8, <2>2, <4>1, <4>2
    <3>2. j \in 1..Len(F) /\ j \notin 1..n
      BY <1>1, <1>6, <1>13, <3>1
    <3>3. j - n \in 1..grown /\ F[j] = base + (j - n) - 1
      BY <1>6, <3>2
    <3>4. F[j] \in base..base + grown - 1
      BY <1>1, <3>3
    <3> QED BY <1>1, <1>12, <2>2, <3>4
  <2> QED BY <1>8, <2>1, <2>2
<1> QED BY <1>7, <1>13 DEF Follows, F

-----------------------------------------------------------------------------
Running == {"traversing", "finished", "stopped"}

ReachedOk(m, c, hs, hit) == hit <=> \E h \in hs : Hit(FromOf(m, c, h.source))

TraverserInv ==
  /\ model \in Models
  /\ status \in Running \cup {"created", "thrown"}
  /\ contents \in Seq(StatesAndStuttering)
  /\ Len(contents) <= model.room /\ Distinct(contents)
  /\ Fits(tracker, contents)
  /\ HandledOk(model, contents, handled)
  /\ Visited(model, contents)
  /\ reached \in BOOLEAN /\ canceled \in BOOLEAN
  /\ ReachedOk(model, contents, handled, reached)
  /\ reached => canceled
  /\ status = "created" => contents = <<>> /\ tracker = Path!EmptyTracker /\ handled = {}
  /\ status # "created" => HasStuttering(model, contents)
  /\ status \in Running =>
       /\ Pending(contents, tracker, handled)
       /\ Follows(model, contents, tracker)
       /\ \E h \in handled : h.source = NoSource
  /\ status = "finished" => tracker.pathFrames = <<>>
  /\ status = "stopped" => KeptAll(tracker)

LEMMA EmptyIsLaid ==
  /\ Laid(Path!EmptyTracker) /\ KeptAll(Path!EmptyTracker) /\ KeptBelow(Path!EmptyTracker)
  /\ Entries(Path!EmptyTracker) = <<>> /\ Path!EmptyTracker.pathFrames = <<>>
  /\ Path!EmptyTracker.lowestSplittableFrame = Path!NoFrame
PROOF
<1> DEFINE t == Frames!EmptyTracker
<1>1. Path!EmptyTracker = t
  BY DEF Path!EmptyTracker, Frames!EmptyTracker, Path!NoFrame, Frames!NoFrame
<1>2. /\ t.pathFrames = <<>> /\ t.stateIndexEntries = <<>>
      /\ t.lowestSplittableFrame = Path!NoFrame
  BY DEF Frames!EmptyTracker, Path!NoFrame, Frames!NoFrame
<1>3. Frames!Laid(t) /\ Frames!KeptAll(t) /\ Frames!KeptBelow(t)
  <2>1. t \in Frames!Trackers
    BY DEF Frames!EmptyTracker, Frames!NoFrame, Frames!Trackers
  <2> HIDE DEF t
  <2> QED BY <1>2, <2>1 DEF Frames!Laid, Frames!KeptAll, Frames!KeptBelow
<1> HIDE DEF t
<1> QED BY <1>1, <1>2, <1>3 DEF Laid, KeptAll, KeptBelow, Entries

LEMMA InitIsTraverserInv == Init => TraverserInv
PROOF
<1> SUFFICES ASSUME Init PROVE TraverserInv
  OBVIOUS
<1>1. /\ model \in Models /\ status = "created" /\ contents = <<>>
      /\ tracker = Path!EmptyTracker /\ handled = {} /\ reached = FALSE /\ canceled = FALSE
  BY DEF Init
<1>2. model.room \in Nat
  BY <1>1, ModelAssumption
<1>3. /\ contents \in Seq(StatesAndStuttering) /\ Len(contents) <= model.room
      /\ Distinct(contents)
  BY <1>1, <1>2 DEF Distinct
<1>4. Fits(tracker, contents)
  <2>1. Laid(tracker) /\ KeptBelow(tracker) /\ Len(Entries(tracker)) = 0 /\ Len(contents) = 0
    BY <1>1, EmptyIsLaid
  <2>2. tracker.lowestSplittableFrame \in Path!NoFrame..MaximalStates + 1
    BY <1>1, EmptyIsLaid, TrackerFits, ModelAssumption DEF Path!NoFrame
  <2> QED BY <2>1, <2>2, TrackerFits DEF Fits
<1>5. HandledOk(model, contents, handled)
  BY <1>1 DEF HandledOk
<1>6. Visited(model, contents)
  BY <1>1 DEF Visited, StateIndexesOf
<1>7. ReachedOk(model, contents, handled, reached)
  BY <1>1 DEF ReachedOk
<1> QED BY <1>1, <1>3, <1>4, <1>5, <1>6, <1>7 DEF TraverserInv, Running

\* An index that was given to a state stays that state's, and what a modifier
\* was given stays given.
Grows ==
  /\ Len(contents) <= Len(contents')
  /\ \A n \in 1..Len(contents) : contents'[n] = contents[n]
  /\ handled \subseteq handled'

\* What handling the transitions of the next source makes of the invariant.
LEMMA HandlingKeepsInv ==
  ASSUME model \in Models, NEW c, NEW t, Ready(model, c, t, handled),
         HandleTransitions(NextSource(t), FromOf(model, c, NextSource(t)), c, t),
         model' = model, reached \in BOOLEAN, canceled \in BOOLEAN,
         ReachedOk(model, c, handled, reached), reached => canceled,
         NextSource(t) = NoSource \/ \E h \in handled : h.source = NoSource,
         contents = <<>> \/ contents = c
  PROVE  TraverserInv' /\ Grows
PROOF
<1> DEFINE source == NextSource(t)
           T == FromOf(model, c, source)
           w == Worked(c, t, T)
           new == [source |-> source, targets |-> w.targets]
<1>1. T \in Seq(ModelTransitions)
  BY NextSourceFacts
<1>2. WorkInv(w, c, t, T, Len(T))
  <2>1. /\ c \in Seq(StatesAndStuttering) /\ Len(c) <= model.room /\ Distinct(c)
        /\ Fits(t, c) /\ KeptAll(t)
    BY DEF Ready
  <2> QED BY <1>1, <2>1, LoopEnds
<1>3. /\ contents' = w.contents /\ tracker' = w.tracker
      /\ w.thrown => status' = "thrown" /\ UNCHANGED <<handled, reached, canceled>>
      /\ ~w.thrown =>
           /\ status' = "traversing"
           /\ handled' = handled \cup {new}
           /\ reached' = (reached \/ Hit(T))
           /\ canceled' = (canceled \/ Hit(T))
  BY DEF HandleTransitions
<1> HIDE DEF w, T
<1>4. /\ w.thrown \in BOOLEAN
      /\ Stores(model, contents', c, T, Len(T)) /\ Fits(tracker', contents')
  BY <1>2, <1>3 DEF WorkInv
<1>5. T = FromOf(model, c, NextSource(t))
  BY DEF T
<1>6. HandledOk(model, contents', handled) /\ Visited(model, contents')
  BY <1>4, <1>5, GrownKeepsHandled
<1>7. HasStuttering(model, contents')
  BY <1>4, <1>5, StorageGrows
<1>8. ReachedOk(model, contents', handled, reached)
  <2>1. \A h \in handled : FromOf(model, contents', h.source) = FromOf(model, c, h.source)
    <3>1. \A h \in handled : h.source = NoSource \/ h.source \in StateIndexesOf(c)
      BY DEF Ready, HandledOk
    <3>2. /\ FromOf(model, contents', NoSource) = FromOf(model, c, NoSource)
          /\ \A n \in StateIndexesOf(c) : FromOf(model, contents', n) = FromOf(model, c, n)
      BY <1>4, <1>5, StorageGrows
    <3> QED BY <3>1, <3>2
  <2> QED BY <2>1 DEF ReachedOk
<1>9. /\ contents' \in Seq(StatesAndStuttering) /\ Len(contents') <= model.room
      /\ Distinct(contents')
  BY <1>4 DEF Stores
<1>12. Grows
  <2>1. Len(c) <= Len(contents') /\ \A n \in 1..Len(c) : contents'[n] = c[n]
    BY <1>4 DEF Stores
  <2>2. Len(contents') \in Nat
    BY <1>9
  <2>3. CASE contents = <<>>
    <3>1. Len(contents) = 0
      BY <2>3
    <3> QED BY <1>3, <1>4, <2>2, <3>1 DEF Grows
  <2>4. CASE contents = c
    BY <1>3, <1>4, <2>1, <2>4 DEF Grows
  <2> QED BY <2>3, <2>4
<1>10. CASE w.thrown
  <2>1. /\ status' = "thrown" /\ handled' = handled /\ reached' = reached
        /\ canceled' = canceled
    BY <1>3, <1>10
  <2> QED BY <1>4, <1>6, <1>7, <1>8, <1>9, <1>12, <2>1 DEF TraverserInv, Running
<1>11. CASE ~w.thrown
  <2>1. /\ status' = "traversing" /\ handled' = handled \cup {new}
        /\ reached' = (reached \/ Hit(T)) /\ canceled' = (canceled \/ Hit(T))
    BY <1>3, <1>11
  <2>2. /\ Pushes(tracker', t, Len(c), Len(contents') - Len(c))
        /\ Answers(w.targets, contents', T, Len(T))
    BY <1>2, <1>3, <1>11 DEF WorkInv
  <2>3. Laid(tracker')
    BY <1>4 DEF Fits
  <2>4. HandledOk(model, contents', handled') /\ FromOf(model, contents', new.source) = T
    BY <1>4, <1>5, <2>1, <2>2, HandledGrows
  <2>5. Pending(contents', tracker', handled')
    BY <1>4, <1>5, <2>1, <2>2, <2>3, PendingGrows
  <2>6. Follows(model, contents', tracker')
    BY <1>4, <1>5, <2>2, <2>3, FollowsGrows
  <2>7. \E h \in handled' : h.source = NoSource
    <3>1. new.source = source /\ new \in handled'
      BY <2>1
    <3> QED BY <2>1, <3>1
  <2> HIDE DEF new
  <2>8. ReachedOk(model, contents', handled', reached')
    BY <1>8, <2>1, <2>4 DEF ReachedOk
  <2>9. reached' \in BOOLEAN /\ canceled' \in BOOLEAN /\ (reached' => canceled')
    BY <2>1
  <2> QED BY <1>4, <1>6, <1>7, <1>9, <1>12, <2>1, <2>4, <2>5, <2>6, <2>7, <2>8, <2>9
          DEF TraverserInv, Running
<1> QED BY <1>4, <1>10, <1>11

LEMMA StartKeepsInv == TraverserInv /\ Start => TraverserInv' /\ Grows
PROOF
<1> SUFFICES ASSUME TraverserInv, Start PROVE TraverserInv' /\ Grows
  OBVIOUS
<1> DEFINE c == ClearedStorage
<1>1. /\ model \in Models /\ tracker = Path!EmptyTracker /\ handled = {}
      /\ HandleTransitions(NoSource, model.initial, c, tracker)
      /\ model' = model /\ reached \in BOOLEAN /\ canceled \in BOOLEAN
      /\ ReachedOk(model, contents, handled, reached) /\ (reached => canceled)
      /\ contents = <<>>
  BY DEF TraverserInv, Start
<1>2. /\ c \in Seq(StatesAndStuttering) /\ Len(c) <= 1 /\ Distinct(c)
      /\ \A i \in 1..Len(c) : c[i] = Stuttering
      /\ Len(c) \in Nat
      /\ HasStuttering(model, c)
  <2>1. CASE model.createStutteringState
    <3>1. c = <<Stuttering>>
      BY <2>1 DEF ClearedStorage
    <3> HIDE DEF c
    <3>2. Len(c) = 1 /\ 1 \in 1..Len(c) /\ c[1] = Stuttering
      BY <3>1
    <3> QED BY <2>1, <3>1, <3>2 DEF StatesAndStuttering, Distinct, HasStuttering
  <2>2. CASE ~model.createStutteringState
    <3>1. c = <<>>
      BY <2>2 DEF ClearedStorage
    <3> HIDE DEF c
    <3> QED BY <2>2, <3>1 DEF Distinct, HasStuttering
  <2> QED BY <2>1, <2>2
<1> HIDE DEF c
<1>3. Len(c) <= model.room
  BY <1>1, <1>2, ModelAssumption
<1>4. StateIndexesOf(c) = {}
  BY <1>2 DEF StateIndexesOf
<1>5. /\ Laid(tracker) /\ KeptAll(tracker) /\ KeptBelow(tracker)
      /\ Len(Entries(tracker)) = 0 /\ Len(tracker.pathFrames) = 0
      /\ tracker.lowestSplittableFrame = Path!NoFrame
  BY <1>1, EmptyIsLaid
<1>6. Fits(tracker, c)
  <2>1. tracker.lowestSplittableFrame \in Path!NoFrame..MaximalStates + 1
    BY <1>5, TrackerFits, ModelAssumption DEF Path!NoFrame
  <2> QED BY <1>2, <1>5, <2>1, TrackerFits DEF Fits
<1>7. Ready(model, c, tracker, handled)
  <2>1. Pending(c, tracker, handled)
    BY <1>4, <1>5, LaidNumbers DEF Pending, Distinct
  <2>2. Follows(model, c, tracker)
    BY <1>5 DEF Follows
  <2>3. HandledOk(model, c, handled)
    BY <1>1 DEF HandledOk
  <2>4. Visited(model, c)
    BY <1>4 DEF Visited
  <2> QED BY <1>1, <1>2, <1>3, <1>5, <1>6, <2>1, <2>2, <2>3, <2>4 DEF Ready
<1>8. NextSource(tracker) = NoSource /\ FromOf(model, c, NoSource) = model.initial
  BY <1>5 DEF NextSource, FromOf
<1>9. ReachedOk(model, c, handled, reached)
  BY <1>1 DEF ReachedOk
<1> QED BY <1>1, <1>7, <1>8, <1>9, HandlingKeepsInv

LEMMA SettledInv ==
  ASSUME TraverserInv, status = "traversing"
  PROVE  /\ Fits(Settled, contents) /\ KeptAll(Settled)
         /\ Pending(contents, Settled, handled) /\ Follows(model, contents, Settled)
PROOF
<1>1. /\ model \in Models /\ contents \in Seq(StatesAndStuttering)
      /\ Fits(tracker, contents) /\ Pending(contents, tracker, handled)
      /\ Follows(model, contents, tracker)
  BY DEF TraverserInv, Running
<1>2. Settled = Path!Settled(tracker)
  BY DEF Settled
<1> QED BY <1>1, <1>2, SettledKeepsPending

LEMMA FinishKeepsInv == TraverserInv /\ Finish => TraverserInv'
PROOF
<1> SUFFICES ASSUME TraverserInv, Finish PROVE TraverserInv'
  OBVIOUS
<1>1. /\ status = "traversing" /\ Settled.pathFrames = <<>>
      /\ tracker' = Settled /\ status' = "finished"
      /\ UNCHANGED <<model, contents, handled, reached, canceled>>
  BY DEF Finish
<1>2. /\ Fits(tracker', contents) /\ Pending(contents, tracker', handled)
      /\ Follows(model, contents, tracker')
  BY <1>1, SettledInv
<1> QED BY <1>1, <1>2 DEF TraverserInv, Running

LEMMA StopKeepsInv == TraverserInv /\ Stop => TraverserInv'
PROOF
<1> SUFFICES ASSUME TraverserInv, Stop PROVE TraverserInv'
  OBVIOUS
<1>1. /\ status = "traversing" /\ tracker' = Settled /\ status' = "stopped"
      /\ UNCHANGED <<model, contents, handled, reached, canceled>>
  BY DEF Stop
<1>2. /\ Fits(tracker', contents) /\ KeptAll(tracker')
      /\ Pending(contents, tracker', handled) /\ Follows(model, contents, tracker')
  BY <1>1, SettledInv
<1> QED BY <1>1, <1>2 DEF TraverserInv, Running

LEMMA ExpandKeepsInv == TraverserInv /\ Expand => TraverserInv' /\ Grows
PROOF
<1> SUFFICES ASSUME TraverserInv, Expand PROVE TraverserInv' /\ Grows
  OBVIOUS
<1> DEFINE c == contents
           t == Settled
           index == Path!Topmost(t)
<1>1. /\ status = "traversing" /\ t.pathFrames # <<>>
      /\ HandleTransitions(index, model.next[c[index + 1]], c, t)
      /\ model' = model
  BY DEF Expand
<1>2. /\ Fits(t, c) /\ KeptAll(t) /\ Pending(c, t, handled) /\ Follows(model, c, t)
  BY <1>1, SettledInv
<1>3. /\ model \in Models /\ c \in Seq(StatesAndStuttering) /\ Len(c) <= model.room
      /\ Distinct(c) /\ HandledOk(model, c, handled) /\ Visited(model, c)
      /\ reached \in BOOLEAN /\ canceled \in BOOLEAN
      /\ ReachedOk(model, c, handled, reached) /\ (reached => canceled)
      /\ HasStuttering(model, c) /\ \E h \in handled : h.source = NoSource
  BY <1>1 DEF TraverserInv, Running
<1>4. /\ Len(Entries(t)) > 0 /\ index = Entries(t)[Len(Entries(t))]
      /\ Len(Entries(t)) \in WaitingPlaces(t)
      /\ Len(Entries(t)) \in 1..Len(Entries(t))
  <2>1. Laid(t)
    BY <1>2 DEF Fits
  <2> HIDE DEF t
  <2> QED BY <1>1, <1>2, <2>1, TopmostOfTracker, LaidNumbers
<1> HIDE DEF t, index
<1>5. index = NextSource(t)
  BY <1>4 DEF NextSource
<1>6. index \in StateIndexesOf(c) /\ index \notin ExpandedOf(handled)
  BY <1>2, <1>4 DEF Pending
<1>7. index # NoSource
  BY <1>3, <1>6, StateIndexFacts
<1>8. FromOf(model, c, NextSource(t)) = model.next[c[index + 1]]
  BY <1>5, <1>7 DEF FromOf
<1>9. \A h \in handled : h.source # NextSource(t)
  BY <1>5, <1>6, <1>7 DEF ExpandedOf
<1>10. Ready(model, c, t, handled)
  BY <1>2, <1>3, <1>9 DEF Ready
<1>11. HandleTransitions(NextSource(t), FromOf(model, c, NextSource(t)), c, t)
  BY <1>1, <1>5, <1>8
<1>12. contents = c
  OBVIOUS
<1> HIDE DEF c
<1> QED BY <1>1, <1>3, <1>10, <1>11, <1>12, HandlingKeepsInv

LEMMA NextKeepsTraverserInv == TraverserInv /\ [Next]_vars => TraverserInv'
PROOF
<1> SUFFICES ASSUME TraverserInv, [Next]_vars PROVE TraverserInv'
  OBVIOUS
<1>1. CASE Start
  BY <1>1, StartKeepsInv
<1>2. CASE Finish
  BY <1>2, FinishKeepsInv
<1>3. CASE Stop
  BY <1>3, StopKeepsInv
<1>4. CASE Expand
  BY <1>4, ExpandKeepsInv
<1>5. CASE Cancel
  BY <1>5 DEF Cancel, TraverserInv, Running
<1>6. CASE UNCHANGED vars
  BY <1>6 DEF vars, TraverserInv
<1> QED BY <1>1, <1>2, <1>3, <1>4, <1>5, <1>6 DEF Next, Worker

THEOREM TraverserInductive == Spec => []TraverserInv
PROOF
<1>1. Init => TraverserInv
  BY InitIsTraverserInv
<1>2. TraverserInv /\ [Next]_vars => TraverserInv'
  BY NextKeepsTraverserInv
<1> QED BY <1>1, <1>2, PTL DEF Spec

LEMMA NextGrows == TraverserInv /\ [Next]_vars => Grows
PROOF
<1> SUFFICES ASSUME TraverserInv, [Next]_vars PROVE Grows
  OBVIOUS
<1>1. Len(contents) \in Nat
  BY DEF TraverserInv
<1>2. CASE Start
  BY <1>2, StartKeepsInv
<1>3. CASE Expand
  BY <1>3, ExpandKeepsInv
<1>4. CASE Finish \/ Stop \/ Cancel \/ UNCHANGED vars
  <2>1. UNCHANGED <<contents, handled>>
    BY <1>4 DEF Finish, Stop, Cancel, vars
  <2> QED BY <1>1, <2>1 DEF Grows
<1> QED BY <1>2, <1>3, <1>4 DEF Next, Worker

\* What the modifiers keep of a state is its index, which stays valid: no step
\* of the traversal moves a state in the storage, drops one, or takes back what
\* it handed on, also when the traversal stops or throws.
THEOREM IndexesStayValid == Spec => [][Grows]_vars
PROOF
<1>1. TraverserInv /\ [Next]_vars => [Grows]_vars
  BY NextGrows
<1> QED BY <1>1, TraverserInductive, PTL DEF Spec

-----------------------------------------------------------------------------
(***************************************************************************)
(* The properties of the runs follow from the invariant.                   *)
(***************************************************************************)
LEMMA TrackerHasType ==
  ASSUME NEW m \in Models, NEW c, Len(c) \in Nat, Len(c) <= m.room,
         Fits(tracker, c)
  PROVE  Path!TypeOK
PROOF
<1> DEFINE t == tracker
<1>1. /\ Laid(t) /\ Len(Entries(t)) <= Len(c)
      /\ (Debug => Len(Entries(t)) <= MaximalSearchDepth)
      /\ t.lowestSplittableFrame \in Path!NoFrame..MaximalStates + 1
  BY DEF Fits
<1>2. /\ Entries(t) \in Seq(0..MaximalStates) /\ Len(Entries(t)) \in Nat
      /\ \A k \in 1..Len(t.pathFrames) :
           /\ First(t, k) \in Nat /\ EndOf(t, k) \in Nat
           /\ First(t, k) <= EndOf(t, k) /\ EndOf(t, k) <= Len(Entries(t))
  BY <1>1, LaidNumbers
<1>3. MaximalStates \in Nat /\ Len(Entries(t)) <= MaximalStates
  BY <1>1, <1>2, ModelAssumption
<1>4. Len(Entries(t)) <= IF Debug THEN MaximalSearchDepth ELSE MaximalStates + 1
  BY <1>1, <1>2, <1>3
<1>5. ASSUME NEW k \in 1..Len(t.pathFrames)
      PROVE  t.pathFrames[k] \in [indexOfFirstStateIndexEntry : 0..MaximalStates + 1,
                                  count : 0..MaximalStates + 1]
  <2> DEFINE frame == t.pathFrames[k]
             first == frame.indexOfFirstStateIndexEntry
             count == frame.count
  <2>1. /\ frame \in [indexOfFirstStateIndexEntry : Nat, count : Nat]
        /\ Frames!EndOf(t, k) = first + count /\ Frames!First(t, k) = first
    BY <1>1, Frames!FramesInside, TrackerFits
       DEF Laid, Frames!PathFrame, Frames!EndOf, Frames!First
  <2>2. /\ first + count <= Len(Entries(t)) /\ first \in Nat /\ count \in Nat
    BY <1>2, <2>1 DEF EndOf, First
  <2>3. frame = [indexOfFirstStateIndexEntry |-> first, count |-> count]
    BY <2>1
  <2> HIDE DEF frame, first, count
  <2>4. first \in 0..MaximalStates + 1 /\ count \in 0..MaximalStates + 1
    BY <1>2, <1>3, <2>2
  <2> QED BY <2>3, <2>4 DEF frame
<1>6. {NoSource, NoSource} \subseteq (0..MaximalStates) \cup {-1}
  BY DEF NoSource
<1> QED BY <1>1, <1>2, <1>4, <1>5, <1>6 DEF Path!TypeOK, Entries

LEMMA InvMeansTypeOK == TraverserInv => TypeOK
PROOF
<1> SUFFICES ASSUME TraverserInv PROVE TypeOK
  OBVIOUS
<1>1. /\ model \in Models
      /\ status \in {"created", "traversing", "finished", "stopped", "thrown"}
      /\ contents \in Seq(StatesAndStuttering) /\ Len(contents) <= model.room
      /\ Fits(tracker, contents) /\ HandledOk(model, contents, handled)
      /\ reached \in BOOLEAN /\ canceled \in BOOLEAN /\ Len(contents) \in Nat
  BY DEF TraverserInv, Running
<1>2. Path!TypeOK
  BY <1>1, TrackerHasType
<1>3. ASSUME NEW h \in handled
      PROVE  /\ h.source \in Indexes \cup {NoSource}
             /\ Range(h.targets) \subseteq Indexes
  <2>1. h.source = NoSource \/ h.source \in StateIndexesOf(contents)
    BY <1>1 DEF HandledOk
  <2>2. h.source \in Indexes \cup {NoSource}
    BY <2>1 DEF StateIndexesOf, Indexes
  <2> DEFINE F == FromOf(model, contents, h.source)
             ts == h.targets
  <2>3. Answers(ts, contents, F, Len(F))
    BY <1>1 DEF HandledOk
  <2> HIDE DEF F, ts
  <2>4. ts \in Seq(Nat) /\ \A k \in 1..Len(ts) : ts[k] + 1 \in 1..Len(contents)
    BY <2>3 DEF Answers
  <2>5. \A k \in 1..Len(ts) : ts[k] \in Indexes
    <3> TAKE k \in 1..Len(ts)
    <3>1. ts[k] + 1 \in 1..Len(contents) /\ ts[k] \in Nat
      BY <2>4
    <3> QED BY <1>1, <3>1 DEF Indexes
  <2>6. DOMAIN ts = 1..Len(ts)
    BY <2>4
  <2> QED BY <2>2, <2>5, <2>6 DEF Range, ts
<1> QED BY <1>1, <1>2, <1>3 DEF TypeOK, StatesAndStuttering

\* Every variable keeps to its domain: the indexes that are handed on are
\* indexes of stored states, and neither the storage nor the tracker outgrows
\* what it has room for.
THEOREM TypeCorrect == Spec => []TypeOK
PROOF BY InvMeansTypeOK, TraverserInductive, PTL

\* No state is lost and none is expanded twice, for every model, every capacity
\* and every moment of a cancellation.
THEOREM PendingStatesAreTrackedHolds == Spec => []PendingStatesAreTracked
PROOF
<1>1. TraverserInv => PendingStatesAreTracked
  <2> SUFFICES ASSUME TraverserInv, status = "traversing"
               PROVE  LET entries  == tracker.stateIndexEntries
                          frames   == tracker.pathFrames
                          onPath   == {entries[Path!End(frames[k])] :
                                         k \in {j \in 1..Len(frames) - 1 : frames[j].count > 0}}
                          waiting  == Range(entries) \ onPath
                      IN  /\ IsInjective(entries)
                          /\ waiting \cap Expanded = {}
                          /\ \A g, h \in handled : g.source = h.source => g = h
                          /\ {n \in Indexes : contents[n + 1] # Stuttering}
                               = waiting \cup Expanded
    BY DEF PendingStatesAreTracked
  <2> DEFINE t == tracker
             E == Entries(t)
             onPath == {E[Path!End(t.pathFrames[k])] :
                          k \in {j \in 1..Len(t.pathFrames) - 1 : t.pathFrames[j].count > 0}}
             waiting == Range(E) \ onPath
  <2>1. /\ contents \in Seq(StatesAndStuttering)
        /\ Laid(t) /\ KeptBelow(t) /\ HandledOk(model, contents, handled)
        /\ Pending(contents, t, handled)
    BY DEF TraverserInv, Running, Fits
  <2>2. /\ Len(E) \in Nat /\ E \in Seq(0..MaximalStates)
        /\ DOMAIN E = 1..Len(E) /\ WaitingPlaces(t) \subseteq 1..Len(E)
    BY <2>1, LaidNumbers
  <2>3. IsInjective(E)
    BY <2>1, <2>2 DEF Pending, Distinct, IsInjective
  <2>4. \A k \in 1..Len(t.pathFrames) - 1 :
          t.pathFrames[k].count > 0 /\ EndOf(t, k) \in 1..Len(E)
    <3> TAKE k \in 1..Len(t.pathFrames) - 1
    <3>1. k \in 1..Len(t.pathFrames) /\ k < Len(t.pathFrames)
      BY <2>1, LaidNumbers
    <3>2. t.pathFrames[k].count \in Nat /\ t.pathFrames[k].count >= 1
      BY <2>1, <3>1, Frames!FramesInside, TrackerFits
         DEF Laid, KeptBelow, Frames!KeptBelow, Frames!PathFrame
    <3> QED BY <2>1, <3>2, KeptFrames
  <2>5. onPath = {E[EndOf(t, k)] : k \in 1..Len(t.pathFrames) - 1}
    BY <2>4 DEF Path!End, EndOf, Frames!EndOf, Frames!First
  <2>6. WaitingPlaces(t) = 1..Len(E) \ {EndOf(t, k) : k \in 1..Len(t.pathFrames) - 1}
    BY DEF WaitingPlaces, Frames!WaitingPlaces, Entries, EndOf
  <2> HIDE DEF onPath, t, E
  <2>7. waiting = {E[j] : j \in WaitingPlaces(t)}
    <3>1. \A j \in 1..Len(E) : E[j] \in onPath <=> j \notin WaitingPlaces(t)
      <4> TAKE j \in 1..Len(E)
      <4>1. ASSUME NEW k \in 1..Len(t.pathFrames) - 1
            PROVE  E[EndOf(t, k)] = E[j] <=> EndOf(t, k) = j
        BY <2>1, <2>4 DEF Pending, Distinct, E
      <4> QED BY <2>5, <2>6, <4>1
    <3>2. Range(E) = {E[j] : j \in 1..Len(E)}
      BY <2>2 DEF Range
    <3> QED BY <2>2, <3>1, <3>2
  <2> HIDE DEF waiting
  <2>8. Expanded = ExpandedOf(handled)
    BY DEF Expanded, ExpandedOf
  <2>9. /\ \A n \in ExpandedOf(handled) : n \in StateIndexesOf(contents)
        /\ \A g, h \in handled : g.source = h.source => g = h
    BY <2>1 DEF HandledOk, ExpandedOf
  <2>10. {n \in Indexes : contents[n + 1] # Stuttering} = StateIndexesOf(contents)
    BY DEF Indexes, StateIndexesOf
  <2>11. waiting \cap Expanded = {}
    BY <2>1, <2>7, <2>8 DEF Pending, E
  <2>12. StateIndexesOf(contents) = waiting \cup Expanded
    <3>1. \A j \in WaitingPlaces(t) : E[j] \in StateIndexesOf(contents)
      BY <2>1, <2>2 DEF Pending, E
    <3>2. \A n \in StateIndexesOf(contents) :
            n \in ExpandedOf(handled) \/ \E j \in WaitingPlaces(t) : E[j] = n
      BY <2>1 DEF Pending, E
    <3> QED BY <2>7, <2>8, <2>9, <3>1, <3>2
  <2> QED BY <2>3, <2>9, <2>10, <2>11, <2>12 DEF waiting, onPath, E, t, Entries
<1> QED BY <1>1, TraverserInductive, PTL

LEMMA ClosedIsClosed ==
  ASSUME NEW set PROVE ClosedUnderNext(set) <=> Closed(model, set)
PROOF BY DEF ClosedUnderNext, Closed

\* What is stored is reachable.
LEMMA StoredIsReachable ==
  ASSUME TraverserInv, NEW n \in StateIndexesOf(contents)
  PROVE  contents[n + 1] \in Reachable
PROOF
<1>1. contents[n + 1] \in States
  BY StateIndexFacts DEF TraverserInv
<1>2. \A set \in SUBSET States : ClosedUnderNext(set) => contents[n + 1] \in set
  BY ClosedIsClosed DEF TraverserInv, Visited
<1> QED BY <1>1, <1>2 DEF Reachable

\* Without the stuttering state, every index is that of a state.
LEMMA OnlyStatesAreStored ==
  ASSUME TraverserInv, ~model.createStutteringState
  PROVE  contents \in Seq(States) /\ StateIndexesOf(contents) = 0..Len(contents) - 1
PROOF
<1>1. contents \in Seq(StatesAndStuttering) /\ Len(contents) \in Nat
  BY DEF TraverserInv
<1>2. \A k \in 1..Len(contents) : contents[k] # Stuttering
  <2>1. CASE status = "created"
    <3>1. Len(contents) = 0
      BY <2>1 DEF TraverserInv
    <3> QED BY <3>1
  <2>2. CASE status # "created"
    BY <2>2 DEF TraverserInv, HasStuttering
  <2> QED BY <2>1, <2>2
<1>3. \A k \in 1..Len(contents) : contents[k] \in States
  BY <1>1, <1>2 DEF StatesAndStuttering
<1>4. \A n \in 0..Len(contents) - 1 : n + 1 \in 1..Len(contents)
  BY <1>1
<1> QED BY <1>1, <1>2, <1>3, <1>4 DEF StateIndexesOf

\* A finished traversal has nothing waiting.
LEMMA FinishedHasExpandedAll ==
  ASSUME TraverserInv, status = "finished"
  PROVE  /\ Expanded = StateIndexesOf(contents)
         /\ Reachable = {contents[n + 1] : n \in StateIndexesOf(contents)}
         /\ \E h \in handled : h.source = NoSource
PROOF
<1>1. /\ model \in Models /\ contents \in Seq(StatesAndStuttering)
      /\ HandledOk(model, contents, handled)
      /\ Pending(contents, tracker, handled)
      /\ \E h \in handled : h.source = NoSource
      /\ Laid(tracker) /\ tracker.pathFrames = <<>>
  BY DEF TraverserInv, Running, Fits
<1>2. WaitingPlaces(tracker) = {}
  <2>1. Len(tracker.pathFrames) = 0
    BY <1>1
  <2>2. Len(Entries(tracker)) = 0
    BY <1>1, <2>1, LaidNumbers
  <2> QED BY <1>1, <2>2, LaidNumbers
<1>3. Expanded = StateIndexesOf(contents)
  <2>1. \A n \in ExpandedOf(handled) : n \in StateIndexesOf(contents)
    BY <1>1 DEF HandledOk, ExpandedOf
  <2>2. \A n \in StateIndexesOf(contents) : n \in ExpandedOf(handled)
    BY <1>1, <1>2 DEF Pending
  <2> QED BY <2>1, <2>2 DEF Expanded, ExpandedOf
<1> DEFINE S == {contents[n + 1] : n \in StateIndexesOf(contents)}
<1>4. S \in SUBSET States
  BY <1>1, StateIndexFacts
\* What the transitions of a source lead to is stored.
<1>5. ASSUME NEW h \in handled
      PROVE  Targets(FromOf(model, contents, h.source)) \subseteq S
  <2> DEFINE F == FromOf(model, contents, h.source)
             ts == h.targets
  <2>1. F \in Seq(ModelTransitions)
    <3>1. CASE h.source = NoSource
      BY <1>1, <3>1, ModelAssumption DEF FromOf
    <3>2. CASE h.source \in StateIndexesOf(contents)
      <4>1. contents[h.source + 1] \in States /\ h.source # NoSource
        BY <1>1, <3>2, StateIndexFacts
      <4> QED BY <1>1, <4>1, ModelAssumption DEF FromOf
    <3> QED BY <1>1, <3>1, <3>2 DEF HandledOk
  <2>2. Answers(ts, contents, F, Len(F))
    BY <1>1 DEF HandledOk
  <2> HIDE DEF F, ts
  <2>3. ASSUME NEW tr \in Range(F), tr.target # Stuttering
        PROVE  tr.target \in S
    <3>1. PICK k \in 1..Len(F) : tr = F[k]
      <4>1. DOMAIN F = 1..Len(F)
        BY <2>1
      <4> QED BY <4>1 DEF Range
    <3>2. ts[k] + 1 \in 1..Len(contents) /\ contents[ts[k] + 1] = tr.target /\ ts[k] \in Nat
      BY <2>2, <3>1 DEF Answers
    <3>3. ts[k] \in StateIndexesOf(contents)
      BY <1>1, <2>3, <3>2 DEF StateIndexesOf
    <3> QED BY <3>2, <3>3
  <2> HIDE DEF S
  <2>4. Targets(F) \subseteq S
    BY <2>3 DEF Targets
  <2> QED BY <2>4 DEF F
<1>6. ClosedUnderNext(S)
  <2>1. Targets(model.initial) \subseteq S
    <3>1. PICK h \in handled : h.source = NoSource
      BY <1>1
    <3>2. FromOf(model, contents, h.source) = model.initial
      BY <3>1 DEF FromOf
    <3> HIDE DEF S
    <3> QED BY <1>5, <3>2
  <2>2. ASSUME NEW s \in S
        PROVE  Targets(model.next[s]) \subseteq S
    <3>1. PICK n \in StateIndexesOf(contents) : s = contents[n + 1]
      BY <2>2
    <3>2. PICK h \in handled : h.source = n
      BY <1>3 DEF Expanded
    <3>3. n # NoSource
      BY <1>1, StateIndexFacts
    <3>4. FromOf(model, contents, h.source) = model.next[s]
      BY <3>1, <3>2, <3>3 DEF FromOf
    <3> HIDE DEF S
    <3> QED BY <1>5, <3>4
  <2> HIDE DEF S
  <2> QED BY <2>1, <2>2 DEF ClosedUnderNext
<1>7. Reachable \subseteq S
  <2> HIDE DEF S
  <2> QED BY <1>4, <1>6 DEF Reachable
<1>8. S \subseteq Reachable
  BY StoredIsReachable
<1> QED BY <1>1, <1>3, <1>7, <1>8

\* A traversal that finishes has found every reachable state, nothing else, and
\* has given the modifiers every transition of each, whatever the model.
THEOREM FinishedIsCompleteHolds == Spec => []FinishedIsComplete
PROOF
<1>1. TraverserInv => FinishedIsComplete
  <2> SUFFICES ASSUME TraverserInv, status = "finished"
               PROVE  /\ Stored \ {Stuttering} = Reachable
                      /\ {contents[n + 1] : n \in Expanded} = Reachable
                      /\ \A h \in handled :
                           LET from == IF h.source = NoSource THEN model.initial
                                       ELSE model.next[contents[h.source + 1]]
                           IN  [m \in 1..Len(h.targets) |-> contents[h.targets[m] + 1]]
                                 = [m \in 1..Len(from) |-> from[m].target]
    BY DEF FinishedIsComplete
  <2>1. /\ contents \in Seq(StatesAndStuttering) /\ Len(contents) \in Nat
        /\ HandledOk(model, contents, handled)
    BY DEF TraverserInv
  <2>2. /\ Expanded = StateIndexesOf(contents)
        /\ Reachable = {contents[n + 1] : n \in StateIndexesOf(contents)}
    BY FinishedHasExpandedAll
  <2>3. Stored \ {Stuttering} = {contents[n + 1] : n \in StateIndexesOf(contents)}
    <3>1. Stored = {contents[i] : i \in 1..Len(contents)}
      <4>1. DOMAIN contents = 1..Len(contents)
        BY <2>1
      <4> QED BY <4>1 DEF Stored, Range
    <3>2. ASSUME NEW i \in 1..Len(contents), contents[i] # Stuttering
          PROVE  \E n \in StateIndexesOf(contents) : contents[i] = contents[n + 1]
      <4> DEFINE n == i - 1
      <4>1. n \in 0..Len(contents) - 1 /\ n + 1 = i
        BY <2>1
      <4> HIDE DEF n
      <4>2. n \in StateIndexesOf(contents)
        BY <3>2, <4>1 DEF StateIndexesOf
      <4> QED BY <4>1, <4>2
    <3>3. ASSUME NEW n \in StateIndexesOf(contents)
          PROVE  n + 1 \in 1..Len(contents) /\ contents[n + 1] # Stuttering
      BY <2>1 DEF StateIndexesOf
    <3> QED BY <3>1, <3>2, <3>3
  <2>4. ASSUME NEW h \in handled
        PROVE  LET from == IF h.source = NoSource THEN model.initial
                           ELSE model.next[contents[h.source + 1]]
               IN  [m \in 1..Len(h.targets) |-> contents[h.targets[m] + 1]]
                     = [m \in 1..Len(from) |-> from[m].target]
    <3> DEFINE F == FromOf(model, contents, h.source)
               ts == h.targets
    <3>1. F = IF h.source = NoSource THEN model.initial
              ELSE model.next[contents[h.source + 1]]
      BY DEF FromOf
    <3>2. Answers(ts, contents, F, Len(F))
      BY <2>1 DEF HandledOk
    <3> HIDE DEF F, ts
    <3>3. Len(ts) = Len(F) /\ \A m \in 1..Len(F) : contents[ts[m] + 1] = F[m].target
      BY <3>2 DEF Answers
    <3>4. [m \in 1..Len(ts) |-> contents[ts[m] + 1]] = [m \in 1..Len(F) |-> F[m].target]
      BY <3>3
    <3> QED BY <3>1, <3>4 DEF ts
  <2> QED BY <2>2, <2>3, <2>4
<1> QED BY <1>1, TraverserInductive, PTL

LEMMA InvMeansCorrect == TraverserInv => ReachabilityIsCorrect
PROOF
<1> SUFFICES ASSUME TraverserInv PROVE ReachabilityIsCorrect
  OBVIOUS
<1>1. /\ HandledOk(model, contents, handled) /\ (reached => canceled)
      /\ reached \in BOOLEAN
      /\ contents \in Seq(StatesAndStuttering)
      /\ reached <=> \E h \in handled : Hit(FromOf(model, contents, h.source))
  BY DEF TraverserInv, ReachedOk
<1>2. ASSUME NEW h \in handled, Hit(FromOf(model, contents, h.source))
      PROVE  LabelReachable
  <2>1. CASE h.source = NoSource
    <3>1. Hit(model.initial)
      BY <1>2, <2>1 DEF FromOf
    <3> QED BY <3>1 DEF Hit, LabelReachable
  <2>2. CASE h.source \in StateIndexesOf(contents)
    <3> DEFINE s == contents[h.source + 1]
    <3>1. s \in Reachable /\ h.source # NoSource
      BY <1>1, <2>2, StoredIsReachable, StateIndexFacts
    <3>2. Hit(model.next[s])
      BY <1>2, <3>1 DEF FromOf
    <3> HIDE DEF s
    <3> QED BY <3>1, <3>2 DEF Hit, LabelReachable
  <2> QED BY <1>1, <2>1, <2>2 DEF HandledOk
<1>3. ASSUME status = "finished", LabelReachable
      PROVE  reached
  <2>1. /\ Expanded = StateIndexesOf(contents)
        /\ Reachable = {contents[n + 1] : n \in StateIndexesOf(contents)}
        /\ \E h \in handled : h.source = NoSource
    BY <1>3, FinishedHasExpandedAll
  <2>2. Hit(model.initial) \/ \E s \in Reachable : Hit(model.next[s])
    BY <1>3 DEF LabelReachable, Hit
  <2>3. CASE Hit(model.initial)
    <3>1. PICK h \in handled : h.source = NoSource
      BY <2>1
    <3>2. FromOf(model, contents, h.source) = model.initial
      BY <3>1 DEF FromOf
    <3> QED BY <1>1, <2>3, <3>2
  <2>4. CASE \E s \in Reachable : Hit(model.next[s])
    <3>1. PICK s \in Reachable : Hit(model.next[s])
      BY <2>4
    <3>2. PICK n \in StateIndexesOf(contents) : s = contents[n + 1]
      BY <2>1
    <3>3. PICK h \in handled : h.source = n
      BY <2>1 DEF Expanded
    <3>4. n # NoSource
      BY <1>1, StateIndexFacts
    <3>5. FromOf(model, contents, h.source) = model.next[s]
      BY <3>2, <3>3, <3>4 DEF FromOf
    <3> QED BY <1>1, <3>1, <3>5
  <2> QED BY <2>2, <2>3, <2>4
<1>4. LabelReachable \in BOOLEAN
  BY DEF LabelReachable
<1> QED BY <1>1, <1>2, <1>3, <1>4 DEF ReachabilityIsCorrect

\* The flag of the modifier is never set without a reachable transition whose
\* label satisfies the formula, and is set when a traversal finishes and there
\* is one.
THEOREM ReachabilityIsCorrectHolds == Spec => []ReachabilityIsCorrect
PROOF BY InvMeansCorrect, TraverserInductive, PTL

\* The last states of the frames are a path of the model whenever a traversal
\* is stopped, by the modifier or by another thread.
THEOREM LastStatesFormPathHolds == Spec => []LastStatesFormPath
PROOF
<1>1. TraverserInv => LastStatesFormPath
  <2> SUFFICES ASSUME TraverserInv, status = "stopped"
               PROVE  LET frames == tracker.pathFrames
                          state(k) ==
                            contents[tracker.stateIndexEntries[Path!End(frames[k])] + 1]
                      IN  \A k \in 1..Len(frames) :
                            IF k = 1 THEN state(k) \in Targets(model.initial)
                            ELSE state(k) \in Targets(model.next[state(k - 1)])
    BY DEF LastStatesFormPath
  <2> DEFINE t == tracker
             state(k) == contents[t.stateIndexEntries[Path!End(t.pathFrames[k])] + 1]
  <2>1. /\ contents \in Seq(StatesAndStuttering) /\ Laid(t) /\ KeptAll(t)
        /\ Pending(contents, t, handled) /\ Follows(model, contents, t)
    BY DEF TraverserInv, Running, Fits
  <2>2. \A k \in 1..Len(t.pathFrames) : state(k) = contents[Entries(t)[EndOf(t, k)] + 1]
    BY DEF Path!End, EndOf, Frames!EndOf, Frames!First, Entries
  <2> HIDE DEF state
  <2> SUFFICES ASSUME NEW k \in 1..Len(t.pathFrames)
               PROVE  IF k = 1 THEN state(k) \in Targets(model.initial)
                      ELSE state(k) \in Targets(model.next[state(k - 1)])
    BY DEF state
  <2>3. EndOf(t, k) \in First(t, k) + 1..EndOf(t, k)
    <3>1. First(t, k) \in Nat /\ EndOf(t, k) \in Nat /\ First(t, k) < EndOf(t, k)
      BY <2>1, LaidNumbers, KeptFrames
    <3> QED BY <3>1
  <2>4. state(k) \in Targets(FromOf(model, contents, SourceOf(t, k)))
    BY <2>1, <2>2, <2>3 DEF Follows
  <2>5. CASE k = 1
    BY <2>4, <2>5 DEF SourceOf, FromOf
  <2>6. CASE k # 1
    <3>1. k - 1 \in 1..Len(t.pathFrames)
      BY <2>1, <2>6, LaidNumbers
    <3>2. EndOf(t, k - 1) \in 1..Len(Entries(t))
      BY <2>1, <3>1, KeptFrames
    <3> DEFINE n == Entries(t)[EndOf(t, k - 1)]
    <3>3. n \in StateIndexesOf(contents)
      BY <2>1, <3>2 DEF Pending
    <3>4. n # NoSource /\ SourceOf(t, k) = n
      BY <2>1, <2>6, <3>3, StateIndexFacts DEF SourceOf
    <3>5. state(k - 1) = contents[n + 1]
      BY <2>2, <3>1
    <3> HIDE DEF n
    <3>6. FromOf(model, contents, SourceOf(t, k)) = model.next[state(k - 1)]
      BY <3>4, <3>5 DEF FromOf
    <3> QED BY <2>4, <2>6, <3>6
  <2> QED BY <2>5, <2>6
<1> QED BY <1>1, TraverserInductive, PTL
=============================================================================
