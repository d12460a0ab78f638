----------------------------- MODULE PathStack -----------------------------
(***************************************************************************)
(* What pemc::PathTracker promises: a stack of frames, each a sequence of  *)
(* state indexes.  The last one of every frame but the topmost is being    *)
(* expanded; the last ones of all frames are the path to the current state.*)
(***************************************************************************)
EXTENDS Integers, Sequences, SequencesExt

CONSTANT StateIndexes

VARIABLES
  stack,
  given,   \* what the last call added, or None
  found    \* what the last call found, or None

vars == <<stack, given, found>>

None == -1

Tops(frames) == [k \in 1..Len(frames) |-> Last(frames[k])]

\* Drop the enumerated frames, and with each the state that it came from.
DropEnumerated(frames) ==
  LET live == {k \in 1..Len(frames) :
                 Len(frames[k]) > (IF k = Len(frames) THEN 0 ELSE 1)}
      top  == Max(live)
  IN  IF live = {} THEN <<>>
      ELSE IF top = Len(frames) THEN frames
      ELSE Append(SubSeq(frames, 1, top - 1), Front(frames[top]))

Init == stack = <<>> /\ given = None /\ found = None

\* A state was found and its successors are going to be pushed, or the first
\* frame is.
Open ==
  /\ found # None \/ stack = <<>>
  /\ stack' = Append(stack, <<>>)
  /\ given' = None /\ found' = None

Add(s) ==
  /\ found = None /\ stack # <<>>
  /\ stack' = [stack EXCEPT ![Len(stack)] = Append(@, s)]
  /\ given' = s
  /\ UNCHANGED found

Next1 ==
  /\ stack # <<>>
  /\ stack' = DropEnumerated(stack)
  /\ given' = None
  /\ found' = IF stack' = <<>> THEN None ELSE Last(Last(stack'))

Clear == stack' = <<>> /\ given' = None /\ found' = None

Next == Open \/ (\E s \in StateIndexes : Add(s)) \/ Next1 \/ Clear

Spec == Init /\ [][Next]_vars
=============================================================================
