--------------------------- MODULE MCStateStorage ---------------------------
(***************************************************************************)
(* Values of StateStorage's constants for TLC, and the functions of        *)
(* RawMemory that it rests on, evaluated for small buffers.                *)
(***************************************************************************)
EXTENDS StateStorage, RawMemory, TLC

CONSTANTS t1, t2, a, b, c

TwoThreads == {t1, t2}
ABC == {a, b, c}

\* a and b start in the same slot; c has one cache line only, a's and b's.
CollidingHash == a :> <<0, 6>> @@ b :> <<4, 3>> @@ c :> <<1, 5>>

\* Two adjacent buffers that differ in one byte d of a memory, or in none.
Adjacent(size, d) == [address \in 0..2 * size |-> IF address = d THEN 1 ELSE 0]

ASSUME BlockwiseIsBytewise ==
  \A size \in 0..24 : \A d \in 0..2 * size :
    LET memory == Adjacent(size, d)
        copied == copyBuffers(memory, 0, size, size)
    IN  /\ areBuffersEqual(memory, 0, size, size) <=> SameBytes(memory, 0, size, size)
        /\ areBuffersEqual(memory, 0, size, size)
             <=> HashInput(memory, 0, size) = HashInput(memory, size, size)
        /\ areBuffersEqual(copied, 0, size, size)
        /\ copied[2 * size] = memory[2 * size]
=============================================================================
