----------------------------- MODULE ReadSlice -----------------------------
(***************************************************************************)
(* Which bytes of a file's content fsh_fusedataloader_fileReader() copies  *)
(* for a read of size bytes at offset.  The lengths are unsigned words:    *)
(* off_t is converted when it is compared and added.                       *)
(***************************************************************************)
EXTENDS Integers, Sequences

CONSTANT Word   \* how many values a size_t has

ASSUME ReadSliceAssumption == Word \in Nat \ {0}

\* What the kernel asks for: a positive size, and an end that fits an off_t.
KernelRead(size, offset) ==
  /\ size \in Nat \ {0}
  /\ offset \in Nat
  /\ offset + size < Word \div 2

\* Fault: the short read at the end starts over.
SliceRestarting(content, size, offset) ==
  IF offset >= Len(content) THEN << >>
  ELSE IF (offset + size) % Word > Len(content)
         THEN SubSeq(content, 1, Len(content) - offset)
         ELSE SubSeq(content, offset + 1, offset + size)

Slice(content, size, offset) ==
  IF offset >= Len(content) THEN << >>
  ELSE IF (offset + size) % Word > Len(content)
         THEN SubSeq(content, offset + 1, Len(content))
         ELSE SubSeq(content, offset + 1, offset + size)

-----------------------------------------------------------------------------
\* The reference definition: the bytes at offset..offset + size - 1 that
\* exist, and no other.
IsRange(s, content, size, offset) ==
  /\ Len(s) <= size
  /\ \A i \in 1..Len(s) : offset + i <= Len(content) /\ s[i] = content[offset + i]
  /\ \A i \in 1..size : offset + i <= Len(content) => i <= Len(s)
=============================================================================
