---------------------------- MODULE PathTracker ----------------------------
(***************************************************************************)
(* pemc::PathTracker (src/pemc/generic_traverser/path_tracker.{h,cc}): the *)
(* stack of a depth-first enumeration, flattened: all frames share one     *)
(* vector of state indexes, and a frame is an offset and a count in it.    *)
(* The operations are operators on the value of a tracker, for a module    *)
(* that calls several of them in one step to compose.                      *)
(***************************************************************************)
EXTENDS Integers, Sequences, SequencesExt

CONSTANTS
  StateIndexes,   \* the state indexes a client pushes
  Capacity,       \* the capacity given to the constructor
  Debug,          \* TRUE: a build with DEBUG, which checks the capacity
  MaxEntries      \* bound: how many entries and frames a client has at once

ASSUME TrackerAssumption ==
  /\ StateIndexes \subseteq Nat
  /\ Capacity \in Nat
  /\ Debug \in BOOLEAN
  /\ MaxEntries \in Nat

NoFrame == -1

Frame(first, count) == [indexOfFirstStateIndexEntry |-> first, count |-> count]

EmptyTracker ==
  [pathFrames |-> <<>>, stateIndexEntries |-> <<>>, lowestSplittableFrame |-> NoFrame]

End(frame) == frame.indexOfFirstStateIndexEntry + frame.count

\* Slip: a frame begins where the previous one begins.
FrameOverPrevious(tracker) ==
  LET frames == tracker.pathFrames IN
  [tracker EXCEPT !.pathFrames =
     Append(frames, Frame(IF frames = <<>> THEN 0
                          ELSE Last(frames).indexOfFirstStateIndexEntry, 0))]

WithFrame(tracker) ==
  LET frames == tracker.pathFrames IN
  [tracker EXCEPT !.pathFrames =
     Append(frames, Frame(IF frames = <<>> THEN 0 ELSE End(Last(frames)), 0))]

\* Slip: room for one entry more than the capacity.
RefusesEntryBeyond(tracker) == Debug /\ End(Last(tracker.pathFrames)) > Capacity

\* Only a DEBUG build throws when the tracker is full.
RefusesEntry(tracker) == Debug /\ End(Last(tracker.pathFrames)) >= Capacity

WithStateIndex(tracker, s) ==
  LET n     == Len(tracker.pathFrames)
      count == tracker.pathFrames[n].count + 1
  IN  [pathFrames |-> [tracker.pathFrames EXCEPT ![n].count = count],
       stateIndexEntries |-> Append(tracker.stateIndexEntries, s),
       lowestSplittableFrame |->
         IF tracker.lowestSplittableFrame = NoFrame /\ count > 1
         THEN n - 1 ELSE tracker.lowestSplittableFrame]

(***************************************************************************)
(* tryGetStateIndex pops the frames that are enumerated, taking one state  *)
(* from the frame below each, until a frame with states remains: that is   *)
(* the highest frame with a state left besides the one being expanded.     *)
(***************************************************************************)
LiveFrames(frames) ==
  {k \in 1..Len(frames) : frames[k].count > (IF k = Len(frames) THEN 0 ELSE 1)}

\* Slip: the entry of the expanded state stays in the vector.
SettledKeepingEntries(tracker) ==
  LET frames == tracker.pathFrames
      live   == LiveFrames(frames)
      top    == Max(live)
      frame  == [frames[top] EXCEPT !.count = @ - 1]
  IN  IF live = {} THEN [tracker EXCEPT !.pathFrames = <<>>, !.stateIndexEntries = <<>>]
      ELSE IF top = Len(frames) THEN tracker
      ELSE [tracker EXCEPT
              !.pathFrames = Append(SubSeq(frames, 1, top - 1), frame),
              !.stateIndexEntries = SubSeq(@, 1, End(frame) + 1)]

Settled(tracker) ==
  LET frames == tracker.pathFrames
      live   == LiveFrames(frames)
      top    == Max(live)
      frame  == [frames[top] EXCEPT !.count = @ - 1]
  IN  IF live = {} THEN [tracker EXCEPT !.pathFrames = <<>>, !.stateIndexEntries = <<>>]
      ELSE IF top = Len(frames) THEN tracker
      ELSE [tracker EXCEPT
              !.pathFrames = Append(SubSeq(frames, 1, top - 1), frame),
              !.stateIndexEntries = SubSeq(@, 1, End(frame))]

\* What tryGetStateIndex returns once the tracker is settled and not empty.
Topmost(tracker) == tracker.stateIndexEntries[End(Last(tracker.pathFrames))]

\* clear() leaves lowestSplittableFrame as it is.
Cleared(tracker) ==
  [tracker EXCEPT !.pathFrames = <<>>, !.stateIndexEntries = <<>>]

\* vector(steps) has steps zeros, and push_back goes after them.
CurrentPath(tracker) ==
  LET live == SelectSeq(tracker.pathFrames, LAMBDA f : f.count > 0)
  IN  [k \in 1..Len(tracker.pathFrames) |-> 0]
        \o [k \in 1..Len(live) |-> tracker.stateIndexEntries[End(live[k])]]

-----------------------------------------------------------------------------
(***************************************************************************)
(* A client of one tracker calls as GenericTraverser's worker does: it     *)
(* pushes a frame for the state it got, pushes that state's successors,    *)
(* and asks for the next state.                                            *)
(***************************************************************************)
VARIABLES
  tracker,   \* the members of the PathTracker
  pushed,    \* the argument of the last call, if that was pushStateIndex, or -1
  got        \* the result of the last call, if that was tryGetStateIndex, or -1

vars == <<tracker, pushed, got>>

Init == tracker = EmptyTracker /\ pushed = -1 /\ got = -1

PushFrame ==
  /\ got # -1 \/ tracker.pathFrames = <<>>
  /\ Len(tracker.pathFrames) < MaxEntries
  /\ tracker' = WithFrame(tracker)
  /\ pushed' = -1 /\ got' = -1

PushStateIndex(s) ==
  /\ got = -1 /\ tracker.pathFrames # <<>>
  /\ Len(tracker.stateIndexEntries) < MaxEntries
  /\ ~RefusesEntry(tracker)
  /\ tracker' = WithStateIndex(tracker, s)
  /\ pushed' = s
  /\ UNCHANGED got

TryGetStateIndex ==
  /\ tracker.pathFrames # <<>>
  /\ tracker' = Settled(tracker)
  /\ pushed' = -1
  /\ got' = IF tracker'.pathFrames = <<>> THEN -1 ELSE Topmost(tracker')

Clear ==
  /\ tracker' = Cleared(tracker)
  /\ pushed' = -1 /\ got' = -1

Next ==
  \/ PushFrame
  \/ \E s \in StateIndexes : PushStateIndex(s)
  \/ TryGetStateIndex
  \/ Clear

Spec == Init /\ [][Next]_vars

-----------------------------------------------------------------------------
\* The members keep to their domains, and a DEBUG build to the capacity.
TypeOK ==
  /\ tracker.stateIndexEntries \in Seq(StateIndexes)
  /\ Len(tracker.stateIndexEntries) <= IF Debug THEN Capacity ELSE MaxEntries
  /\ \A k \in 1..Len(tracker.pathFrames) :
       tracker.pathFrames[k] \in
         [indexOfFirstStateIndexEntry : 0..MaxEntries, count : 0..MaxEntries]
  /\ tracker.lowestSplittableFrame \in NoFrame..MaxEntries
  /\ {pushed, got} \subseteq StateIndexes \cup {-1}

\* The frames tile the vector of entries, so that the place where the next
\* entry goes is the end of the topmost frame (the assertion of the DEBUG
\* build in pushStateIndex), and the space of removed entries is used again.
FramesTileEntries ==
  LET frames == tracker.pathFrames IN
  /\ \A k \in 1..Len(frames) :
       frames[k].indexOfFirstStateIndexEntry =
         IF k = 1 THEN 0 ELSE End(frames[k - 1])
  /\ Len(tracker.stateIndexEntries) =
       IF frames = <<>> THEN 0 ELSE End(Last(frames))

FrameContents(k) ==
  LET frame == tracker.pathFrames[k] IN
  SubSeq(tracker.stateIndexEntries, frame.indexOfFirstStateIndexEntry + 1, End(frame))

Stack == INSTANCE PathStack
           WITH stack <- [k \in 1..Len(tracker.pathFrames) |-> FrameContents(k)],
                given <- pushed, found <- got

\* The flattened frames implement a stack of sequences: what pushStateIndex is
\* given comes to the top, and tryGetStateIndex finds the last one left.
ImplementsStack == Stack!Spec

\* getCurrentPath "returns the sequence of topmost states of each frame,
\* starting with the oldest one" (path_tracker.h:93-95).
PathHasTopmostStates ==
  got # -1 =>
    CurrentPath(tracker) =
      [k \in 1..Len(tracker.pathFrames) |-> Last(FrameContents(k))]
=============================================================================
