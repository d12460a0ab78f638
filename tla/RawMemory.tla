----------------------------- MODULE RawMemory -----------------------------
(***************************************************************************)
(* The functions of src/pemc/basic/raw_memory.cc by which StateStorage     *)
(* tells state vectors apart and keeps them.  A memory is a function from  *)
(* addresses to bytes and a buffer is an address.  The loops go over the   *)
(* buffers in blocks of 8, then at most one of 4, then of 1 byte; a block  *)
(* is an offset and a width.                                               *)
(***************************************************************************)
EXTENDS Integers

Words(size)      == {<<8 * i, 8>> : i \in 0..(size \div 8) - 1}
HalfWords(size)  == {<<o, 4>> : o \in IF size % 8 >= 4 THEN {8 * (size \div 8)} ELSE {}}
Singles(size)    == LET rest == IF size % 8 >= 4 THEN (size % 8) - 4 ELSE size % 8
                    IN  {<<size - rest + i, 1>> : i \in 0..rest - 1}

Blocks(size) == Words(size) \cup HalfWords(size) \cup Singles(size)

\* The value that a reinterpret_cast of the address reads.
Value(memory, address, width) == [j \in 0..width - 1 |-> memory[address + j]]

areBuffersEqual(memory, buffer1, buffer2, size) ==
  \/ buffer1 = buffer2
  \/ \A b \in Blocks(size) :
       Value(memory, buffer1 + b[1], b[2]) = Value(memory, buffer2 + b[1], b[2])

\* The buffers do not overlap, as in every call: a vector is copied from the
\* serialized state into the slot that is reserved for it.
Overlap(buffer1, buffer2, size) ==
  buffer1 < buffer2 + size /\ buffer2 < buffer1 + size

CopiedTo(destination, size) ==
  UNION {(destination + b[1])..(destination + b[1] + b[2] - 1) : b \in Blocks(size)}

copyBuffers(memory, source, destination, size) ==
  [a \in DOMAIN memory |->
     IF a \in CopiedTo(destination, size) THEN memory[source + (a - destination)]
                                         ELSE memory[a]]

\* What hashBuffer mixes into the hash: the words of 4 bytes in their order,
\* the bytes that are left, and the size.  The mixing itself is not modelled.
HashInput(memory, buffer, size) ==
  [blocks |-> [i \in 0..(size \div 4) - 1 |-> Value(memory, buffer + 4 * i, 4)],
   tail   |-> Value(memory, buffer + 4 * (size \div 4), size % 4),
   size   |-> size]

\* What the functions have to be: comparison byte by byte.
SameBytes(memory, buffer1, buffer2, size) ==
  \A i \in 0..size - 1 : memory[buffer1 + i] = memory[buffer2 + i]
=============================================================================
