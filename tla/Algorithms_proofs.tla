--------------------------- MODULE Algorithms_proofs ---------------------------
(***************************************************************************)
(* Proofs about the functions that keep no state.  Each is first a lemma   *)
(* about every input; the theorems say the same of the specification the   *)
(* run checks, for all its bounds.                                         *)
(***************************************************************************)
EXTENDS MCAlgorithms, PathMatch_proofs, FiniteSetTheorems, SequenceTheorems

-----------------------------------------------------------------------------
(* fsh_fusedataloader_fileReader()                                         *)

LEMMA SliceIsRange ==
  ASSUME NEW S, NEW content \in Seq(S), NEW size, NEW offset, KernelRead(size, offset)
  PROVE  /\ Slice(content, size, offset) \in Seq(S)
         /\ IsRange(Slice(content, size, offset), content, size, offset)
<1>1. size \in Nat /\ offset \in Nat /\ size > 0 /\ (offset + size) % Word = offset + size
  BY ReadSliceAssumption DEF KernelRead
<1> QED BY <1>1 DEF Slice, IsRange

\* There is only one such sequence of bytes.
LEMMA RangeUnique ==
  ASSUME NEW S, NEW content \in Seq(S), NEW size \in Nat, NEW offset \in Nat,
         NEW r \in Seq(S), NEW s \in Seq(S),
         IsRange(r, content, size, offset), IsRange(s, content, size, offset)
  PROVE  r = s
<1>1. Len(r) <= Len(s) /\ Len(s) <= Len(r)
  <2>1. ASSUME NEW a \in Seq(S), NEW b \in Seq(S), Len(a) > Len(b),
               IsRange(a, content, size, offset), IsRange(b, content, size, offset)
        PROVE  FALSE
    <3>1. Len(a) \in 1..Len(a) /\ Len(a) \in 1..size
      BY <2>1 DEF IsRange
    <3> QED BY <2>1, <3>1 DEF IsRange
  <2> QED BY <2>1
<1>2. Len(r) = Len(s)
  BY <1>1
<1>3. \A i \in 1..Len(r) : r[i] = s[i]
  BY <1>2 DEF IsRange
<1> QED BY <1>2, <1>3, SeqEqual

\* Two reads, one behind the other, are one read.
LEMMA SlicesJoin ==
  ASSUME NEW S, NEW content \in Seq(S), NEW size \in Nat \ {0}, NEW next \in Nat \ {0},
         NEW offset, KernelRead(size + next, offset)
  PROVE  Slice(content, size, offset) \o Slice(content, next, offset + size)
           = Slice(content, size + next, offset)
<1> DEFINE a == Slice(content, size, offset)
           b == Slice(content, next, offset + size)
           c == Slice(content, size + next, offset)
<1>1. KernelRead(size, offset) /\ KernelRead(next, offset + size) /\ offset \in Nat
  BY ReadSliceAssumption DEF KernelRead
<1>2. /\ a \in Seq(S) /\ IsRange(a, content, size, offset)
      /\ b \in Seq(S) /\ IsRange(b, content, next, offset + size)
      /\ c \in Seq(S) /\ IsRange(c, content, size + next, offset)
  BY <1>1, SliceIsRange
<1> HIDE DEF a, b, c
<1>3. /\ a \o b \in Seq(S) /\ Len(a \o b) = Len(a) + Len(b)
      /\ \A i \in 1..(Len(a) + Len(b)) :
           (a \o b)[i] = IF i <= Len(a) THEN a[i] ELSE b[i - Len(a)]
  BY <1>2, ConcatProperties
<1>4. Len(b) > 0 => Len(a) = size
  <2>1. ASSUME Len(b) > 0 PROVE Len(a) = size
    <3>1. offset + size + 1 <= Len(content)
      BY <1>1, <1>2, <2>1 DEF IsRange
    <3>2. size \in 1..size /\ offset + size <= Len(content)
      BY <1>1, <3>1
    <3> QED BY <1>2, <3>2 DEF IsRange
  <2> QED BY <2>1
<1>5. IsRange(a \o b, content, size + next, offset)
  <2>1. Len(a \o b) <= size + next
    BY <1>2, <1>3 DEF IsRange
  <2>2. ASSUME NEW i \in 1..Len(a \o b)
        PROVE  offset + i <= Len(content) /\ (a \o b)[i] = content[offset + i]
    <3>1. CASE i <= Len(a)
      BY <1>2, <1>3, <3>1 DEF IsRange
    <3>2. CASE i > Len(a)
      <4>1. Len(a) = size /\ i - size \in 1..Len(b) /\ (a \o b)[i] = b[i - size]
        BY <1>2, <1>3, <1>4, <3>2
      <4> QED BY <1>1, <1>2, <4>1 DEF IsRange
    <3> QED BY <1>2, <3>1, <3>2
  <2>3. ASSUME NEW i \in 1..(size + next), offset + i <= Len(content)
        PROVE  i <= Len(a \o b)
    <3>1. CASE i <= size
      BY <1>2, <1>3, <2>3, <3>1 DEF IsRange
    <3>2. CASE i > size
      <4>1. size \in 1..size /\ offset + size <= Len(content)
        BY <1>1, <2>3, <3>2
      <4>2. Len(a) = size
        BY <1>2, <4>1 DEF IsRange
      <4>3. i - size \in 1..next /\ (offset + size) + (i - size) <= Len(content)
        BY <1>1, <2>3, <3>2
      <4>4. i - size <= Len(b)
        BY <1>2, <4>3 DEF IsRange
      <4> QED BY <1>2, <1>3, <4>2, <4>4
    <3> QED BY <3>1, <3>2
  <2> QED BY <2>1, <2>2, <2>3 DEF IsRange
<1>6. a \o b = c
  <2>1. size + next \in Nat
    OBVIOUS
  <2> QED BY <1>1, <1>2, <1>3, <1>5, <2>1, RangeUnique
<1> QED BY <1>6 DEF a, b, c

-----------------------------------------------------------------------------
(* escapeURL()                                                             *)

\* Each round adds one escape to the count, or none.
LEMMA EscapesCount ==
  ASSUME NEW p, NEW n \in Nat \ {0}
  PROVE  /\ Escapes(p, n - 1) \in Nat
         /\ Escapes(p, n) = Escapes(p, n - 1) + IF Escaped(p, n) THEN 1 ELSE 0
<1> DEFINE E(m) == {i \in 1..m : Escaped(p, i)}
<1>1. IsFiniteSet(E(n - 1))
  <2>1. IsFiniteSet(1..(n - 1))
    BY FS_Interval
  <2> QED BY <2>1, FS_Subset
<1>2. Cardinality(E(n - 1)) \in Nat
  BY <1>1, FS_CardinalityType
<1>3. Escapes(p, n) = Cardinality(E(n)) /\ Escapes(p, n - 1) = Cardinality(E(n - 1))
  BY DEF Escapes
<1>4. CASE ~Escaped(p, n)
  <2>1. E(n) = E(n - 1)
    BY <1>4
  <2> HIDE DEF E
  <2> QED BY <1>2, <1>3, <1>4, <2>1
<1>5. CASE Escaped(p, n)
  <2>1. E(n) = E(n - 1) \cup {n} /\ n \notin E(n - 1)
    BY <1>5
  <2> HIDE DEF E
  <2>2. Cardinality(E(n - 1) \cup {n}) = Cardinality(E(n - 1)) + 1
    BY <1>1, <2>1, FS_AddElement
  <2> QED BY <1>2, <1>3, <1>5, <2>1, <2>2
<1> QED BY <1>4, <1>5

\* Whatever the path, and however many of its characters are escaped.
LEMMA EscapedInBounds ==
  ASSUME NEW p \in Seq(Chars)
  PROVE  InBounds(p)
<1> SUFFICES ASSUME NEW n \in Rounds(p) PROVE LastWritten(p, n) < BufferSize(p, n)
  BY DEF InBounds
<1>1. StrNLen(p) \in Nat /\ n \in Nat \ {0} /\ n <= StrNLen(p) + 1
  BY PathMatchAssumption DEF Rounds, StrNLen
<1>2. /\ Escapes(p, n - 1) \in Nat
      /\ Escapes(p, n) = Escapes(p, n - 1) + IF Escaped(p, n) THEN 1 ELSE 0
  BY <1>1, EscapesCount
<1> QED BY <1>1, <1>2 DEF LastWritten, BufferSize

-----------------------------------------------------------------------------
(* The URL, and what a server reads of it.  What is escaped is joined and  *)
(* read back by recursion: first, that there are such functions at all.    *)

\* What sprintf("%%%02X") writes, a server reads back.
LEMMA EscapeBytes ==
  ASSUME NEW c \in 1..255
  PROVE  /\ Escape(c) \in Seq(Int)
         /\ c \in Kept => Escape(c) = <<c>> /\ c # Percent
         /\ c \notin Kept =>
              /\ Len(Escape(c)) = 3 /\ Escape(c)[1] = Percent /\ c \notin {35, 63}
              /\ 16 * Digit(Escape(c)[2]) + Digit(Escape(c)[3]) = c
<1>1. c \in Kept => Escape(c) = <<c>> /\ c # Percent
  BY DEF Escape, Kept, Percent
<1>2. c \notin Kept => c \notin {35, 63}
  BY DEF Kept
<1>3. (c \div 16) \in 0..15 /\ (c % 16) \in 0..15 /\ 16 * (c \div 16) + (c % 16) = c
  <2>1. (c % 16) \in 0..15
    OBVIOUS
  <2>2. (c \div 16) \in 0..15
    OBVIOUS
  <2>3. c = 16 * (c \div 16) + (c % 16)
    OBVIOUS
  <2> QED BY <2>1, <2>2, <2>3
<1>4. \A n \in 0..15 : HexDigit(n) \in Int /\ Digit(HexDigit(n)) = n
  BY DEF HexDigit, Digit
<1>5. ASSUME c \notin Kept
      PROVE  /\ Escape(c) \in Seq(Int) /\ Len(Escape(c)) = 3 /\ Escape(c)[1] = Percent
             /\ 16 * Digit(Escape(c)[2]) + Digit(Escape(c)[3]) = c
  <2>1. PICK h \in Int, l \in Int :
          /\ Escape(c) = <<Percent, h, l>>
          /\ Digit(h) = c \div 16 /\ Digit(l) = c % 16
    <3>1. Escape(c) = <<Percent, HexDigit(c \div 16), HexDigit(c % 16)>>
      BY <1>5 DEF Escape, Encode
    <3> QED BY <1>3, <1>4, <3>1
  <2>2. Percent \in Int
    BY DEF Percent
  <2>3. /\ Escape(c) \in Seq(Int) /\ Len(Escape(c)) = 3 /\ Escape(c)[1] = Percent
        /\ Escape(c)[2] = h /\ Escape(c)[3] = l
    BY <2>1, <2>2
  <2>4. PICK x \in Int, y \in Int : x = c \div 16 /\ y = c % 16
    BY <1>3
  <2>5. Digit(h) = x /\ Digit(l) = y /\ 16 * x + y = c
    BY <1>3, <2>1, <2>4
  <2>6. Digit(Escape(c)[2]) = x /\ Digit(Escape(c)[3]) = y
    BY <2>3, <2>5
  <2> QED BY <2>3, <2>5, <2>6
<1>6. c \in Kept => Escape(c) \in Seq(Int)
  <2>1. <<c>> \in Seq(Int)
    OBVIOUS
  <2> QED BY <1>1, <2>1
<1> QED BY <1>1, <1>2, <1>5, <1>6

\* Joining sequences from the left, one after the other.
Joined(seqs, P) ==
  /\ P[0] = << >>
  /\ \A k \in 0..Len(seqs) : P[k] \in Seq(Int)
  /\ \A k \in 1..Len(seqs) : P[k] = P[k - 1] \o seqs[k]
  /\ FlattenSeq(seqs) = P[Len(seqs)]

\* What FlattenSeq() makes of the first i sequences, once it has the i - 1
\* before; and a table of it that is right as far as k.
Join(seqs, f, i) == IF i = 1 THEN seqs[i] ELSE f[i - 1] \o seqs[i]
JoinedTo(seqs, f, k) ==
  /\ f = [i \in 1..Len(seqs) |-> f[i]]
  /\ \A i \in 1..Len(seqs) : i <= k => f[i] = Join(seqs, f, i)

LEMMA FlattenJoins ==
  ASSUME NEW seqs \in Seq(Seq(Int)), Len(seqs) >= 1
  PROVE  \E P : Joined(seqs, P)
<1> DEFINE n == Len(seqs)
           Equation(f) == f = [i \in 1..n |-> IF i = 1 THEN seqs[i] ELSE f[i - 1] \o seqs[i]]
           flatten == CHOOSE f : Equation(f)
           T == {k \in Nat : \E f : JoinedTo(seqs, f, k)}
<1>1. FlattenSeq(seqs) = flatten[n]
  BY DEF FlattenSeq
<1>2. n \in Nat
  OBVIOUS
<1>3. 0 \in T
  <2>1. JoinedTo(seqs, seqs, 0)
    BY DEF JoinedTo
  <2> QED BY <2>1
<1>4. ASSUME NEW k \in T PROVE k + 1 \in T
  <2>1. PICK f : JoinedTo(seqs, f, k)
    OBVIOUS
  <2> DEFINE g == [i \in 1..n |-> IF i = k + 1 THEN Join(seqs, f, i) ELSE f[i]]
  <2>2. ASSUME NEW i \in 1..n, i <= k + 1 PROVE g[i] = Join(seqs, g, i)
    <3>1. i # 1 => i - 1 \in 1..n /\ i - 1 # k + 1 /\ g[i - 1] = f[i - 1]
      BY <1>2, <2>2
    <3>2. g[i] = IF i = k + 1 THEN Join(seqs, f, i) ELSE f[i]
      OBVIOUS
    <3> HIDE DEF g
    <3>3. Join(seqs, g, i) = Join(seqs, f, i)
      BY <3>1 DEF Join
    <3> QED BY <2>1, <2>2, <3>2, <3>3 DEF JoinedTo
  <2>3. g = [i \in 1..n |-> g[i]]
    OBVIOUS
  <2> HIDE DEF g
  <2>4. JoinedTo(seqs, g, k + 1)
    BY <2>2, <2>3 DEF JoinedTo
  <2> QED BY <2>4
<1>5. T = Nat
  <2>1. T \in SUBSET Nat
    OBVIOUS
  <2> HIDE DEF T
  <2> QED BY <1>3, <1>4, <2>1, Inductive
<1>6. Equation(flatten)
  <2>1. PICK f : JoinedTo(seqs, f, n)
    <3>1. n \in T
      BY <1>2, <1>5
    <3> QED BY <3>1
  <2>2. f = [i \in 1..n |-> f[i]] /\ \A i \in 1..n : f[i] = Join(seqs, f, i)
    BY <1>2, <2>1 DEF JoinedTo
  <2>3. [i \in 1..n |-> f[i]] = [i \in 1..n |-> IF i = 1 THEN seqs[i] ELSE f[i - 1] \o seqs[i]]
    BY <2>2 DEF Join
  <2>4. Equation(f)
    BY <2>2, <2>3
  <2> HIDE DEF Equation
  <2> QED BY <2>4
<1> HIDE DEF flatten, T
<1>7. \A i \in 1..n : flatten[i] = IF i = 1 THEN seqs[i] ELSE flatten[i - 1] \o seqs[i]
  BY <1>6
<1> DEFINE P == [k \in 0..n |-> IF k = 0 THEN << >> ELSE flatten[k]]
<1>8. P[0] = << >> /\ FlattenSeq(seqs) = P[n]
  BY <1>1, <1>2
<1>9. ASSUME NEW k \in 1..n PROVE P[k] = P[k - 1] \o seqs[k]
  <2>1. seqs[k] \in Seq(Int) /\ k - 1 \in 0..n
    OBVIOUS
  <2>2. P[k] = flatten[k]
    OBVIOUS
  <2>3. CASE k = 1
    <3>1. P[k - 1] = << >> /\ flatten[k] = seqs[k]
      BY <1>7, <1>8, <2>3
    <3> QED BY <2>1, <2>2, <3>1, ConcatEmptySeq
  <2>4. CASE k # 1
    <3>1. k - 1 # 0
      BY <2>4
    <3>2. P[k - 1] = flatten[k - 1]
      BY <2>1, <3>1
    <3>3. flatten[k] = flatten[k - 1] \o seqs[k]
      BY <1>7, <2>4
    <3> QED BY <2>2, <3>2, <3>3
  <2> QED BY <2>3, <2>4
<1> HIDE DEF P
<1>10. \A k \in 0..n : P[k] \in Seq(Int)
  <2> DEFINE U == {k \in Nat : k <= n => P[k] \in Seq(Int)}
  <2>1. 0 \in U
    BY <1>8, EmptySeq
  <2>2. ASSUME NEW k \in U PROVE k + 1 \in U
    <3>1. SUFFICES ASSUME k + 1 <= n PROVE P[k + 1] \in Seq(Int)
      OBVIOUS
    <3>2. k + 1 \in 1..n /\ (k + 1) - 1 = k /\ P[k] \in Seq(Int)
      BY <3>1
    <3>3. seqs[k + 1] \in Seq(Int)
      BY <3>2
    <3>4. P[k + 1] = P[k] \o seqs[k + 1]
      BY <1>9, <3>2
    <3> QED BY <3>2, <3>3, <3>4, ConcatProperties
  <2>3. U \in SUBSET Nat
    OBVIOUS
  <2> HIDE DEF U
  <2>4. U = Nat
    BY <2>1, <2>2, <2>3, Inductive
  <2> QED BY <1>2, <2>4 DEF U
<1>11. Joined(seqs, P)
  BY <1>8, <1>9, <1>10 DEF Joined
<1> QED BY <1>11

\* What Decode() makes of a URL from byte i on, once it has what follows.
Reading(s, from, i) ==
  IF i > Len(s) \/ s[i] \in {35, 63} THEN << >>
  ELSE IF s[i] # Percent THEN <<s[i]>> \o from[i + 1]
  ELSE IF i + 2 > Len(s) THEN <<0>>
  ELSE <<16 * Digit(s[i + 1]) + Digit(s[i + 2])>> \o from[i + 3]

\* It depends on what is behind byte i only.
LEMMA ReadingAhead ==
  ASSUME NEW s \in Seq(Int), NEW i \in Nat, NEW f, NEW g,
         i <= Len(s) => f[i + 1] = g[i + 1] /\ f[i + 3] = g[i + 3]
  PROVE  Reading(s, f, i) = Reading(s, g, i)
<1>1. CASE i > Len(s)
  BY <1>1 DEF Reading
<1>2. CASE i <= Len(s)
  BY <1>2 DEF Reading
<1> QED BY <1>1, <1>2

\* A table of it that is right on the last k bytes.
ReadTo(s, f, k) ==
  /\ f = [i \in Nat |-> f[i]]
  /\ \A i \in Nat : i + k > Len(s) => f[i] = Reading(s, f, i)

LEMMA DecodeReads ==
  ASSUME NEW s \in Seq(Int)
  PROVE  \E D : Decode(s) = D[1] /\ \A i \in Nat : D[i] = Reading(s, D, i)
<1> DEFINE n == Len(s)
           Equation(f) ==
             f = [i \in Nat |->
                    IF i > Len(s) \/ s[i] \in {35, 63} THEN << >>
                    ELSE IF s[i] # Percent THEN <<s[i]>> \o f[i + 1]
                    ELSE IF i + 2 > Len(s) THEN <<0>>
                    ELSE <<16 * Digit(s[i + 1]) + Digit(s[i + 2])>> \o f[i + 3]]
           from == CHOOSE f : Equation(f)
           T == {k \in Nat : \E f : ReadTo(s, f, k)}
<1>1. Decode(s) = from[1]
  BY DEF Decode
<1>2. n \in Nat
  OBVIOUS
<1>3. 0 \in T
  <2> DEFINE f == [i \in Nat |-> << >>]
  <2>1. \A i \in Nat : i > Len(s) => Reading(s, f, i) = << >>
    BY DEF Reading
  <2>2. ReadTo(s, f, 0)
    BY <1>2, <2>1 DEF ReadTo
  <2> QED BY <2>2
<1>4. ASSUME NEW k \in T PROVE k + 1 \in T
  <2>1. PICK f : ReadTo(s, f, k)
    OBVIOUS
  <2> DEFINE g == [i \in Nat |-> IF i + k = n THEN Reading(s, f, i) ELSE f[i]]
  <2>2. ASSUME NEW i \in Nat, i + (k + 1) > n PROVE g[i] = Reading(s, g, i)
    <3>1. g[i + 1] = f[i + 1] /\ g[i + 3] = f[i + 3]
      BY <1>2, <2>2
    <3>2. g[i] = IF i + k = n THEN Reading(s, f, i) ELSE f[i]
      OBVIOUS
    <3> HIDE DEF g
    <3>3. Reading(s, g, i) = Reading(s, f, i)
      BY <3>1, ReadingAhead
    <3>4. i + k # n => i + k > n
      BY <1>2, <2>2
    <3> QED BY <2>1, <3>2, <3>3, <3>4 DEF ReadTo
  <2>3. g = [i \in Nat |-> g[i]]
    OBVIOUS
  <2> HIDE DEF g
  <2>4. ReadTo(s, g, k + 1)
    BY <2>2, <2>3 DEF ReadTo
  <2> QED BY <2>4
<1>5. T = Nat
  <2>1. T \in SUBSET Nat
    OBVIOUS
  <2> HIDE DEF T
  <2> QED BY <1>3, <1>4, <2>1, Inductive
<1> HIDE DEF T
<1>6. Equation(from)
  <2>1. PICK f : ReadTo(s, f, n + 1)
    <3>1. n + 1 \in T
      BY <1>2, <1>5
    <3> QED BY <3>1 DEF T
  <2>2. f = [i \in Nat |-> f[i]] /\ \A i \in Nat : f[i] = Reading(s, f, i)
    BY <1>2, <2>1 DEF ReadTo
  <2>3. [i \in Nat |-> f[i]] = [i \in Nat |-> Reading(s, f, i)]
    BY <2>2
  <2>4. Equation(f)
    BY <2>2, <2>3 DEF Reading
  <2> HIDE DEF Equation
  <2> QED BY <2>4
<1> HIDE DEF from
<1>7. \A i \in Nat : from[i] = Reading(s, from, i)
  BY <1>6 DEF Reading
<1> QED BY <1>1, <1>7

\* What is read is a sequence of numbers.
LEMMA ReadingTyped ==
  ASSUME NEW s \in Seq(Int), NEW D, \A i \in Nat : D[i] = Reading(s, D, i)
  PROVE  \A i \in Nat \ {0} : D[i] \in Seq(Int)
<1> DEFINE T == {k \in Nat : \A i \in Nat \ {0} : i + k > Len(s) => D[i] \in Seq(Int)}
<1>1. 0 \in T
  <2>1. ASSUME NEW i \in Nat \ {0}, i > Len(s) PROVE D[i] \in Seq(Int)
    BY <2>1, EmptySeq, ZenonT(30) DEF Reading
  <2> QED BY <2>1
<1>2. ASSUME NEW k \in T PROVE k + 1 \in T
  <2>1. SUFFICES ASSUME NEW i \in Nat \ {0}, i + (k + 1) > Len(s) PROVE D[i] \in Seq(Int)
    OBVIOUS
  <2>2. Len(s) \in Nat /\ i \in Nat \ {0} /\ i + 1 \in Nat \ {0} /\ i + 3 \in Nat \ {0}
    OBVIOUS
  <2>3. D[i + 1] \in Seq(Int) /\ D[i + 3] \in Seq(Int)
    BY <2>1, <2>2
  <2>4. \A e \in Int : <<e>> \in Seq(Int)
    OBVIOUS
  <2>5. << >> \in Seq(Int) /\ <<0>> \in Seq(Int)
    BY <2>4, EmptySeq
  <2>6. i <= Len(s) => <<s[i]>> \o D[i + 1] \in Seq(Int)
    BY <2>3, <2>4, ConcatProperties
  <2>7. i + 2 <= Len(s) =>
          <<16 * Digit(s[i + 1]) + Digit(s[i + 2])>> \o D[i + 3] \in Seq(Int)
    <3>1. SUFFICES ASSUME i + 2 <= Len(s)
          PROVE <<16 * Digit(s[i + 1]) + Digit(s[i + 2])>> \o D[i + 3] \in Seq(Int)
      OBVIOUS
    <3>2. s[i + 1] \in Int /\ s[i + 2] \in Int
      BY <2>2, <3>1
    <3>3. \A h \in Int : Digit(h) \in Int
      BY DEF Digit
    <3>4. \A x, y \in Int : 16 * x + y \in Int
      OBVIOUS
    <3>5. 16 * Digit(s[i + 1]) + Digit(s[i + 2]) \in Int
      BY <3>2, <3>3, <3>4
    <3> QED BY <2>3, <2>4, <3>5, ConcatProperties
  <2>8. D[i] = Reading(s, D, i)
    OBVIOUS
  <2> HIDE DEF T
  <2> QED BY <2>2, <2>5, <2>6, <2>7, <2>8, SMTT(30) DEF Reading
<1>3. T = Nat
  <2>1. T \in SUBSET Nat
    OBVIOUS
  <2> HIDE DEF T
  <2> QED BY <1>1, <1>2, <2>1, Inductive
<1> HIDE DEF T
<1>4. \A k \in Nat : \A i \in Nat \ {0} : i + k > Len(s) => D[i] \in Seq(Int)
  BY <1>3 DEF T
<1> QED
  <2>1. ASSUME NEW i \in Nat \ {0} PROVE D[i] \in Seq(Int)
    <3>1. Len(s) + 1 \in Nat /\ i + (Len(s) + 1) > Len(s)
      OBVIOUS
    <3> QED BY <1>4, <3>1
  <2> QED BY <2>1

\* Where the escaped characters come to be in what is joined.
Placed(seqs, P, k) ==
  /\ Len(P[k]) = Len(P[k - 1]) + Len(seqs[k])
  /\ Len(P[k]) <= Len(P[Len(seqs)])
  /\ \A x \in 1..Len(seqs[k]) : P[Len(seqs)][Len(P[k - 1]) + x] = seqs[k][x]

LEMMA JoinedPlaces ==
  ASSUME NEW seqs \in Seq(Seq(Int)), NEW P, Joined(seqs, P), NEW k \in 1..Len(seqs)
  PROVE  Placed(seqs, P, k)
<1> DEFINE n == Len(seqs)
           T == {m \in Nat : k + m <= n =>
                   /\ Len(P[k]) <= Len(P[k + m])
                   /\ \A x \in 1..Len(P[k]) : P[k + m][x] = P[k][x]}
<1>1. n \in Nat /\ k - 1 \in 0..n /\ k \in 0..n
  OBVIOUS
<1>2. /\ \A i \in 0..n : P[i] \in Seq(Int) /\ Len(P[i]) \in Nat
      /\ \A i \in 1..n : P[i] = P[i - 1] \o seqs[i] /\ seqs[i] \in Seq(Int)
  <2>1. \A i \in 0..n : P[i] \in Seq(Int)
    BY DEF Joined
  <2>2. \A i \in 1..n : P[i] = P[i - 1] \o seqs[i]
    BY DEF Joined
  <2>3. \A i \in 1..n : seqs[i] \in Seq(Int)
    OBVIOUS
  <2> HIDE DEF n
  <2>4. \A i \in 0..n : Len(P[i]) \in Nat
    BY <2>1, LenProperties
  <2> QED BY <2>1, <2>2, <2>3, <2>4
<1>3. 0 \in T
  BY <1>1, <1>2
<1>4. ASSUME NEW m \in T PROVE m + 1 \in T
  <2>1. SUFFICES ASSUME k + (m + 1) <= n
                 PROVE  /\ Len(P[k]) <= Len(P[k + (m + 1)])
                        /\ \A x \in 1..Len(P[k]) : P[k + (m + 1)][x] = P[k][x]
    OBVIOUS
  <2>2. /\ k + m <= n /\ k + m \in 0..n /\ k + (m + 1) \in 1..n
        /\ (k + (m + 1)) - 1 = k + m
    BY <2>1, <1>1
  <2>3. /\ Len(P[k]) <= Len(P[k + m])
        /\ \A x \in 1..Len(P[k]) : P[k + m][x] = P[k][x]
    BY <2>2
  <2> HIDE DEF T, n
  <2>4. PICK a, b : a = P[k + m] /\ b = seqs[k + (m + 1)]
    OBVIOUS
  <2>5. P[k + (m + 1)] = a \o b /\ a \in Seq(Int) /\ b \in Seq(Int)
    BY <1>2, <2>2, <2>4
  <2>6. /\ Len(a \o b) = Len(a) + Len(b)
        /\ \A x \in 1..(Len(a) + Len(b)) : (a \o b)[x] = IF x <= Len(a) THEN a[x] ELSE b[x - Len(a)]
    BY <2>5, ConcatProperties
  <2>7. Len(a) \in Nat /\ Len(b) \in Nat /\ Len(P[k]) \in Nat
    BY <1>1, <1>2, <2>5
  <2> DEFINE j == Len(P[k])
  <2>8. j \in Nat /\ j <= Len(a) /\ \A x \in 1..j : a[x] = P[k][x]
    BY <2>3, <2>4, <2>7
  <2> HIDE DEF j
  <2>9. j <= Len(a \o b)
    BY <2>6, <2>7, <2>8
  <2>10. ASSUME NEW x \in 1..j PROVE (a \o b)[x] = P[k][x]
    <3>1. x \in 1..(Len(a) + Len(b)) /\ x <= Len(a)
      BY <2>7, <2>8
    <3> QED BY <2>6, <2>8, <3>1
  <2> QED BY <2>5, <2>9, <2>10 DEF j
<1>5. T = Nat
  <2>1. T \in SUBSET Nat
    OBVIOUS
  <2> HIDE DEF T
  <2> QED BY <1>3, <1>4, <2>1, Inductive
<1>6. /\ Len(P[k]) <= Len(P[n])
      /\ \A x \in 1..Len(P[k]) : P[n][x] = P[k][x]
  <2>1. n - k \in Nat /\ k + (n - k) = n
    BY <1>1
  <2> HIDE DEF n
  <2>2. n - k \in T
    <3> HIDE DEF T
    <3> QED BY <1>5, <2>1
  <2> QED BY <2>1, <2>2
<1> HIDE DEF T, n
<1>7. PICK a, b : a = P[k - 1] /\ b = seqs[k]
  OBVIOUS
<1>8. P[k] = a \o b /\ a \in Seq(Int) /\ b \in Seq(Int)
  BY <1>1, <1>2, <1>7 DEF n
<1>9. /\ Len(a \o b) = Len(a) + Len(b)
      /\ \A x \in 1..(Len(a) + Len(b)) : (a \o b)[x] = IF x <= Len(a) THEN a[x] ELSE b[x - Len(a)]
  BY <1>8, ConcatProperties
<1>10. Len(a) \in Nat /\ Len(b) \in Nat
  BY <1>8
<1>11. ASSUME NEW x \in 1..Len(b) PROVE P[n][Len(a) + x] = b[x]
  <2>1. Len(a) + x \in 1..(Len(a) + Len(b)) /\ ~(Len(a) + x <= Len(a)) /\ (Len(a) + x) - Len(a) = x
    BY <1>10
  <2>2. (a \o b)[Len(a) + x] = b[x]
    BY <1>9, <2>1
  <2> QED BY <1>6, <1>8, <1>9, <2>1, <2>2
<1> QED BY <1>6, <1>7, <1>8, <1>9, <1>11 DEF n, Placed

\* URL s, which may be cut, carries path p with character k behind byte at[k - 1].
Written(p, at, s) ==
  /\ p \in Seq(1..255) /\ s \in Seq(Int)
  /\ at \in [0..Len(p) -> Nat] /\ at[0] = 0 /\ Len(s) <= at[Len(p)]
  /\ \A k \in 1..Len(p) :
       /\ at[k] = at[k - 1] + Len(Escape(p[k])) /\ at[k] <= at[Len(p)]
       /\ \A x \in 1..Len(Escape(p[k])) :
            at[k - 1] + x <= Len(s) => s[at[k - 1] + x] = Escape(p[k])[x]

ReadsOf(s, D) == \A i \in Nat : D[i] = Reading(s, D, i)

LEMMA WrittenTyped ==
  ASSUME NEW p, NEW at, NEW s, Written(p, at, s), NEW k \in 1..Len(p)
  PROVE  p[k] \in 1..255 /\ Len(s) \in Nat /\ at[k - 1] \in Nat /\ at[k] \in Nat
<1>1. p \in Seq(1..255) /\ s \in Seq(Int) /\ at \in [0..Len(p) -> Nat]
  BY DEF Written
<1>2. p[k] \in 1..255 /\ Len(p) \in Nat
  BY <1>1, ElementOfSeq
<1>3. k - 1 \in 0..Len(p) /\ k \in 0..Len(p) /\ Len(s) \in Nat
  BY <1>1, <1>2
<1> QED BY <1>1, <1>2, <1>3

\* A character that is there and does not end a path is read back ...
LEMMA ReadsCharacter ==
  ASSUME NEW p, NEW at, NEW s, Written(p, at, s), NEW D, ReadsOf(s, D),
         NEW k \in 1..Len(p), p[k] \notin {35, 63}, at[k] <= Len(s)
  PROVE  D[at[k - 1] + 1] = <<p[k]>> \o D[at[k] + 1]
<1> DEFINE c == p[k]
           e == Escape(c)
           a == at[k - 1]
<1>1. /\ c \in 1..255 /\ Len(s) \in Nat /\ a \in Nat
      /\ at[k] = a + Len(e) /\ \A x \in 1..Len(e) : a + x <= Len(s) => s[a + x] = e[x]
  BY WrittenTyped, ZenonT(30) DEF Written
<1>2. /\ c \in Kept => e = <<c>> /\ c # Percent
      /\ c \notin Kept => /\ Len(e) = 3 /\ e[1] = Percent
                          /\ 16 * Digit(e[2]) + Digit(e[3]) = c
  BY <1>1, EscapeBytes
<1>3. D[a + 1] = Reading(s, D, a + 1)
  BY <1>1 DEF ReadsOf
<1>4. CASE c \in Kept
  <2>1. Len(e) = 1 /\ e[1] = c
    BY <1>2, <1>4
  <2> HIDE DEF c, e, a
  <2>2. s[a + 1] = c /\ a + 1 <= Len(s) /\ at[k] + 1 = (a + 1) + 1
    BY <1>1, <2>1
  <2>3. c \notin {35, 63} /\ c # Percent
    BY <1>2, <1>4 DEF c
  <2>4. D[a + 1] = <<c>> \o D[at[k] + 1]
    BY <1>1, <1>3, <2>2, <2>3 DEF Reading
  <2> QED BY <2>4 DEF c, a
<1>5. CASE c \notin Kept
  <2>1. Len(e) = 3 /\ e[1] = Percent /\ 16 * Digit(e[2]) + Digit(e[3]) = c
    BY <1>2, <1>5
  <2> HIDE DEF c, e, a
  <2>2. /\ s[a + 1] = Percent /\ s[(a + 1) + 1] = e[2] /\ s[(a + 1) + 2] = e[3]
        /\ (a + 1) + 2 <= Len(s) /\ at[k] + 1 = (a + 1) + 3
    <3>1. a + 3 <= Len(s) /\ at[k] = a + 3
      BY <1>1, <2>1
    <3>2. s[a + 1] = e[1] /\ s[a + 2] = e[2] /\ s[a + 3] = e[3]
      BY <1>1, <2>1, <3>1
    <3>3. (a + 1) + 1 = a + 2 /\ (a + 1) + 2 = a + 3 /\ (a + 3) + 1 = (a + 1) + 3
      BY <1>1
    <3> QED BY <2>1, <3>1, <3>2, <3>3
  <2>3. Percent \notin {35, 63}
    BY DEF Percent
  <2>4. Reading(s, D, a + 1) = <<16 * Digit(s[(a + 1) + 1]) + Digit(s[(a + 1) + 2])>> \o D[(a + 1) + 3]
    BY <1>1, <2>2, <2>3, SMTT(30) DEF Reading
  <2> QED BY <1>3, <2>1, <2>2, <2>4 DEF c, a
<1> QED BY <1>4, <1>5

\* ... and at the first that is cut off, or does, the path ends.
LEMMA ReadsEnd ==
  ASSUME NEW p, NEW at, NEW s, Written(p, at, s), NEW D, ReadsOf(s, D),
         NEW k \in 1..Len(p), p[k] \in {35, 63} \/ at[k] > Len(s), at[k - 1] <= Len(s)
  PROVE  D[at[k - 1] + 1] \in {<< >>, <<0>>}
<1> DEFINE c == p[k]
           e == Escape(c)
           a == at[k - 1]
<1>1. /\ c \in 1..255 /\ Len(s) \in Nat /\ a \in Nat
      /\ at[k] = a + Len(e) /\ \A x \in 1..Len(e) : a + x <= Len(s) => s[a + x] = e[x]
  BY WrittenTyped, ZenonT(30) DEF Written
<1>2. /\ c \in Kept => e = <<c>>
      /\ c \notin Kept => Len(e) = 3 /\ e[1] = Percent /\ c \notin {35, 63}
  BY <1>1, EscapeBytes
<1>3. D[a + 1] = Reading(s, D, a + 1)
  BY <1>1 DEF ReadsOf
<1>4. a <= Len(s) /\ (c \in {35, 63} \/ a + Len(e) > Len(s))
  BY <1>1
<1>5. CASE c \in Kept
  <2>1. Len(e) = 1 /\ e[1] = c
    BY <1>2, <1>5
  <2> HIDE DEF c, e, a
  <2>2. a + 1 > Len(s) \/ (s[a + 1] = c /\ c \in {35, 63})
    BY <1>1, <1>4, <2>1
  <2>3. D[a + 1] = << >>
    BY <1>1, <1>3, <2>2 DEF Reading
  <2> QED BY <2>3 DEF a
<1>6. CASE c \notin Kept
  <2>1. Len(e) = 3 /\ e[1] = Percent /\ c \notin {35, 63}
    BY <1>2, <1>6
  <2> HIDE DEF c, e, a
  <2>2. a + 1 > Len(s) \/ (a + 1 <= Len(s) /\ s[a + 1] = Percent /\ (a + 1) + 2 > Len(s))
    BY <1>1, <1>4, <2>1
  <2>3. Percent \notin {35, 63}
    BY DEF Percent
  <2>4. D[a + 1] = << >> \/ D[a + 1] = <<0>>
    BY <1>1, <1>3, <2>2, <2>3 DEF Reading
  <2> QED BY <2>4 DEF a
<1> QED BY <1>5, <1>6

\* So the characters before one that ends the path are read, and what follows.
LEMMA ReadsPrefix ==
  ASSUME NEW p, NEW at, NEW s, Written(p, at, s), NEW D, ReadsOf(s, D),
         NEW m \in 0..Len(p), \A k \in 1..m : p[k] \notin {35, 63} /\ at[k] <= Len(s)
  PROVE  /\ D[1] = SubSeq(p, 1, m) \o D[at[m] + 1]
         /\ D[at[m] + 1] \in Seq(Int) /\ at[m] <= Len(s)
<1>0. ASSUME NEW q \in 1..Len(p), p[q] \notin {35, 63}, at[q] <= Len(s)
      PROVE  D[at[q - 1] + 1] = <<p[q]>> \o D[at[q] + 1]
  BY <1>0, ReadsCharacter
<1> DEFINE Good(k) == D[1] = SubSeq(p, 1, k) \o D[at[k] + 1]
           T == {k \in Nat : k <= m => Good(k)}
<1>1. /\ p \in Seq(Int) /\ Len(p) \in Nat /\ Len(s) \in Nat
      /\ at \in [0..Len(p) -> Nat] /\ at[0] = 0
  <2>1. p \in Seq(1..255) /\ s \in Seq(Int) /\ at \in [0..Len(p) -> Nat] /\ at[0] = 0
    BY DEF Written
  <2>2. p \in Seq(Int)
    <3>1. 1..255 \subseteq Int
      OBVIOUS
    <3> QED BY <2>1, <3>1, SeqMonotonic
  <2> QED BY <2>1, <2>2, LenProperties
<1>2. \A k \in 0..Len(p) : D[at[k] + 1] \in Seq(Int)
  <2>1. \A k \in 0..Len(p) : at[k] + 1 \in Nat \ {0}
    BY <1>1
  <2>2. \A i \in Nat \ {0} : D[i] \in Seq(Int)
    BY ReadingTyped DEF ReadsOf, Written
  <2> QED BY <2>1, <2>2
<1> HIDE DEF Good
<1>3. 0 \in T
  <2>1. SubSeq(p, 1, 0) = << >>
    BY SubSeqEmpty
  <2>2. D[1] \in Seq(Int) /\ at[0] + 1 = 1
    BY <1>1, <1>2
  <2> QED BY <2>1, <2>2, ConcatEmptySeq DEF Good
<1>4. ASSUME NEW k \in T PROVE k + 1 \in T
  <2>1. SUFFICES ASSUME k + 1 <= m PROVE Good(k + 1)
    OBVIOUS
  <2>2. /\ k + 1 \in 1..Len(p) /\ (k + 1) - 1 = k /\ k + 1 \in 1..m
        /\ k \in 0..Len(p) /\ k + 1 \in 0..Len(p) /\ k <= m
    BY <1>1, <2>1
  <2>3. D[1] = SubSeq(p, 1, k) \o D[at[k] + 1]
    BY <2>2 DEF Good
  <2> HIDE DEF T
  <2>4. PICK q : q = k + 1
    OBVIOUS
  <2>5. D[at[k] + 1] = <<p[q]>> \o D[at[q] + 1]
    <3>1. q \in 1..Len(p) /\ q - 1 = k /\ q \in 1..m
      BY <2>2, <2>4
    <3>2. p[q] \notin {35, 63} /\ at[q] <= Len(s)
      BY <3>1
    <3>3. D[at[q - 1] + 1] = <<p[q]>> \o D[at[q] + 1]
      BY <1>0, <3>1, <3>2
    <3> QED BY <3>1, <3>3
  <2>6. SubSeq(p, 1, q) = SubSeq(p, 1, k) \o <<p[q]>>
    <3>1. q \in 1..Len(p) /\ q - 1 = k /\ 1 \in 1..Len(p)
      BY <1>1, <2>2, <2>4
    <3> QED BY <1>1, <3>1, SubSeqRecursiveSecond
  <2>7. /\ SubSeq(p, 1, k) \in Seq(Int) /\ <<p[q]>> \in Seq(Int) /\ D[at[q] + 1] \in Seq(Int)
    <3>1. q \in 1..Len(p) /\ q \in 0..Len(p)
      BY <2>2, <2>4
    <3>2. p[q] \in Int
      BY <1>1, <3>1, ElementOfSeq
    <3>3. SubSeq(p, 1, k) \in Seq(Int)
      BY <1>1, <2>2
    <3> QED BY <1>2, <3>1, <3>2, <3>3
  <2>8. (SubSeq(p, 1, k) \o <<p[q]>>) \o D[at[q] + 1] = SubSeq(p, 1, k) \o (<<p[q]>> \o D[at[q] + 1])
    <3>1. \A x, y, z \in Seq(Int) : (x \o y) \o z = x \o (y \o z)
      BY ConcatAssociative, SMTT(30)
    <3> QED BY <2>7, <3>1, Zenon
  <2> QED BY <2>3, <2>4, <2>5, <2>6, <2>8 DEF Good
<1>5. T = Nat
  <2>1. T \in SUBSET Nat
    OBVIOUS
  <2> HIDE DEF T
  <2> QED BY <1>3, <1>4, <2>1, Inductive
<1>6. D[1] = SubSeq(p, 1, m) \o D[at[m] + 1]
  <2>1. m \in Nat
    BY <1>1
  <2>2. m \in T
    <3> HIDE DEF T
    <3> QED BY <1>5, <2>1
  <2>3. Good(m)
    BY <2>1, <2>2
  <2> QED BY <2>3 DEF Good
<1>7. at[m] <= Len(s)
  <2>1. CASE m = 0
    BY <1>1, <2>1
  <2>2. CASE m # 0
    BY <1>1, <2>2
  <2> QED BY <2>1, <2>2
<1> QED BY <1>1, <1>2, <1>6, <1>7

\* A server reads the path back from what was written of it exactly when
\* nothing was cut off and nothing ends it.
LEMMA ReadsBack ==
  ASSUME NEW p, NEW at, NEW s, Written(p, at, s), NEW D, ReadsOf(s, D)
  PROVE  D[1] = p <=> /\ at[Len(p)] <= Len(s)
                      /\ \A i \in 1..Len(p) : p[i] \notin {35, 63}
<1> DEFINE n == Len(p)
           Bad == {k \in 1..n : p[k] \in {35, 63} \/ at[k] > Len(s)}
<1>1. /\ p \in Seq(Int) /\ p \in Seq(1..255) /\ n \in Nat /\ Len(s) \in Nat /\ s \in Seq(Int)
      /\ at \in [0..n -> Nat] /\ at[0] = 0 /\ Len(s) <= at[n]
      /\ \A k \in 1..n : at[k] <= at[n]
  <2>1. /\ p \in Seq(1..255) /\ s \in Seq(Int) /\ at \in [0..Len(p) -> Nat] /\ at[0] = 0
        /\ Len(s) <= at[Len(p)] /\ \A k \in 1..n : at[k] <= at[n]
    BY DEF Written
  <2>2. p \in Seq(Int)
    <3>1. 1..255 \subseteq Int
      OBVIOUS
    <3> QED BY <2>1, <3>1, SeqMonotonic
  <2> QED BY <2>1, <2>2, LenProperties
<1> HIDE DEF n
<1>2. Bad \in SUBSET Nat
  BY <1>1
<1>3. CASE Bad = {}
  <2>1. \A k \in 1..n : p[k] \notin {35, 63} /\ at[k] <= Len(s)
    <3>1. ASSUME NEW k \in 1..n PROVE p[k] \notin {35, 63} /\ ~(at[k] > Len(s)) /\ at[k] \in Nat
      <4>1. k \in 0..n
        BY <1>1
      <4>2. at[k] \in Nat
        BY <1>1, <4>1
      <4> QED BY <1>3, <4>2
    <3> QED BY <1>1, <3>1
  <2>2. n \in 0..n
    BY <1>1
  <2>3. /\ D[1] = SubSeq(p, 1, n) \o D[at[n] + 1]
        /\ D[at[n] + 1] \in Seq(Int) /\ at[n] <= Len(s)
    BY <2>1, <2>2, ReadsPrefix DEF n
  <2>4. D[at[n] + 1] = << >>
    <3>1. at[n] + 1 > Len(s) /\ at[n] + 1 \in Nat
      BY <1>1, <2>2, <2>3
    <3> QED BY <3>1 DEF ReadsOf, Reading
  <2>5. SubSeq(p, 1, n) = p
    BY <1>1, SubSeqFull DEF n
  <2>6. D[1] = p
    BY <1>1, <2>3, <2>4, <2>5, ConcatEmptySeq
  <2>7. at[n] <= Len(s) /\ \A i \in 1..n : p[i] \notin {35, 63}
    BY <2>1, <2>3
  <2> QED BY <2>6, <2>7 DEF n
<1>4. CASE Bad # {}
  <2>1. PICK k \in Bad : \A j \in Bad : k <= j
    BY <1>2, <1>4, LeastElement
  <2>3. /\ k \in 1..n /\ (p[k] \in {35, 63} \/ at[k] > Len(s))
        /\ \A j \in 1..(k - 1) : p[j] \notin {35, 63} /\ at[j] <= Len(s)
    <3>1. \A j \in 1..(k - 1) : j \in 1..n /\ j \notin Bad
      BY <1>1, <2>1
    <3>2. \A j \in 1..n : j \in 0..n
      BY <1>1
    <3>3. \A j \in 1..(k - 1) : at[j] \in Nat
      BY <1>1, <3>1, <3>2
    <3> QED BY <1>1, <2>1, <3>1, <3>3
  <2> HIDE DEF Bad
  <2>4. k - 1 \in 0..n /\ k \in 0..n
    BY <1>1, <2>3
  <2>5. PICK rest : rest = D[at[k - 1] + 1]
    OBVIOUS
  <2>6. /\ D[1] = SubSeq(p, 1, k - 1) \o rest
        /\ rest \in Seq(Int) /\ at[k - 1] <= Len(s)
    <3>1. PICK m : m = k - 1
      OBVIOUS
    <3>2. m \in 0..Len(p) /\ \A j \in 1..m : p[j] \notin {35, 63} /\ at[j] <= Len(s)
      BY <2>3, <2>4, <3>1 DEF n
    <3>3. /\ D[1] = SubSeq(p, 1, m) \o D[at[m] + 1]
          /\ D[at[m] + 1] \in Seq(Int) /\ at[m] <= Len(s)
      BY <3>2, ReadsPrefix, Zenon
    <3> QED BY <2>5, <3>1, <3>3
  <2>7. rest \in {<< >>, <<0>>}
    BY <2>3, <2>5, <2>6, ReadsEnd DEF n
  <2>8. SubSeq(p, 1, k - 1) \in Seq(Int) /\ Len(SubSeq(p, 1, k - 1)) = k - 1
    <3>1. k - 1 \in Nat /\ k - 1 <= Len(p)
      BY <1>1, <2>4 DEF n
    <3> QED BY <1>1, <3>1
  <2>9. D[1] # p
    <3>1. PICK q : q = SubSeq(p, 1, k - 1)
      OBVIOUS
    <3>2. q \in Seq(Int) /\ Len(q) = k - 1 /\ D[1] = q \o rest /\ k \in Nat \ {0}
      BY <1>1, <2>3, <2>6, <2>8, <3>1
    <3>3. CASE rest = << >>
      <4>1. D[1] = q
        BY <3>2, <3>3, ConcatEmptySeq
      <4>2. Len(p) # k - 1
        BY <2>3 DEF n
      <4> QED BY <3>2, <4>1, <4>2
    <3>4. CASE rest = <<0>>
      <4>1. Len(rest) = 1 /\ rest[1] = 0 /\ rest \in Seq(Int)
        BY <3>4
      <4>2. k \in 1..(Len(q) + Len(rest)) /\ ~(k <= Len(q)) /\ k - Len(q) = 1
        BY <3>2, <4>1
      <4>3. (q \o rest)[k] = IF k <= Len(q) THEN q[k] ELSE rest[k - Len(q)]
        BY <3>2, <4>1, <4>2, ConcatProperties
      <4>4. D[1][k] = 0
        BY <3>2, <4>1, <4>2, <4>3
      <4>5. p[k] \in 1..255
        BY <1>1, <2>3, ElementOfSeq DEF n
      <4> QED BY <4>4, <4>5
    <3> QED BY <2>7, <3>3, <3>4
  <2>10. ~(at[n] <= Len(s) /\ \A i \in 1..n : p[i] \notin {35, 63})
    <3>1. at[k] <= at[n] /\ at[k] \in Nat /\ at[n] \in Nat /\ Len(s) \in Nat
      BY <1>1, <2>3, <2>4
    <3>2. CASE p[k] \in {35, 63}
      BY <2>3, <3>2
    <3>3. CASE at[k] > Len(s)
      BY <3>1, <3>3
    <3> QED BY <2>3, <3>2, <3>3
  <2> QED BY <2>9, <2>10 DEF n
<1> QED BY <1>3, <1>4 DEF n

\* A path that is accepted is copied whole, and what is left of the URL behind
\* the base is what was escaped, up to the room there is.
LEMMA AskedOf ==
  ASSUME NEW p \in Seq(Chars), Accepted(p)
  PROVE  /\ Room \in Nat
         /\ EscapedURL(p) = FlattenSeq([i \in 1..Len(p) |-> Escape(p[i])])
         /\ EscapedURL(p) \in Seq(Int) => Asked(p) = Decode(Cut(EscapedURL(p), Room))
<1>1. Room \in Nat /\ Len(BaseURL) \in Nat /\ Room < MaxPathLen + 1 /\ BaseURL \in Seq(Int)
  <2>1. Len(BaseURL) \in Nat /\ MaxPathLen \in Nat /\ MaxPathLen > Len(BaseURL) + 1
    BY UrlPathAssumption, PathMatchAssumption
  <2>2. BaseURL \in Seq(Int)
    <3>1. 1..255 \subseteq Int
      OBVIOUS
    <3> QED BY <3>1, UrlPathAssumption, SeqMonotonic
  <2> QED BY <2>1, <2>2 DEF Room
<1>2. Copied(p) = p
  <2>1. Len(p) \in Nat /\ Len(p) < MaxPathLen + 1
    BY <1>1, PathMatchAssumption DEF Accepted
  <2> QED BY <2>1, SubSeqFull DEF Copied, Cut
<1>3. EscapedURL(p) = FlattenSeq([i \in 1..Len(p) |-> Escape(p[i])])
  <2>1. DOMAIN p = 1..Len(p)
    OBVIOUS
  <2> QED BY <1>2, <2>1 DEF EscapedURL
<1>4. ASSUME EscapedURL(p) \in Seq(Int)
      PROVE  Asked(p) = Decode(Cut(EscapedURL(p), Room))
  <2> DEFINE e == EscapedURL(p)
             c == Cut(e, Room)
  <2>1. c \in Seq(Int)
    BY <1>1, <1>4 DEF Cut
  <2> HIDE DEF c
  <2>2. URL(p) = BaseURL \o c
    BY DEF URL, c
  <2>3. SubSeq(BaseURL \o c, Len(BaseURL) + 1, Len(BaseURL \o c)) = c
    <3> DEFINE r == SubSeq(BaseURL \o c, Len(BaseURL) + 1, Len(BaseURL \o c))
    <3>1. /\ BaseURL \o c \in Seq(Int) /\ Len(BaseURL \o c) = Len(BaseURL) + Len(c)
          /\ \A i \in 1..(Len(BaseURL) + Len(c)) :
               (BaseURL \o c)[i] = IF i <= Len(BaseURL) THEN BaseURL[i] ELSE c[i - Len(BaseURL)]
      BY <1>1, <2>1, ConcatProperties
    <3>2. Len(c) \in Nat
      BY <2>1
    <3>3. r \in Seq(Int) /\ Len(r) = Len(c) /\ \A i \in 1..Len(c) : r[i] = (BaseURL \o c)[Len(BaseURL) + i]
      BY <1>1, <3>1, <3>2, SMTT(30)
    <3>4. \A i \in 1..Len(c) : (BaseURL \o c)[Len(BaseURL) + i] = c[i]
      BY <1>1, <3>1, <3>2
    <3> HIDE DEF r
    <3>5. r = c
      BY <2>1, <3>3, <3>4, SeqEqual
    <3> QED BY <3>5 DEF r
  <2> QED BY <2>2, <2>3 DEF Asked, c
<1> QED BY <1>1, <1>3, <1>4

\* The server is asked for the folder itself exactly when the escaped path is
\* not cut and has no '#' or '?', whatever the path and the base.
LEMMA AskedIsPath ==
  ASSUME NEW p \in Seq(Chars), Accepted(p)
  PROVE  Asked(p) = p <=> /\ Len(EscapedURL(p)) <= Room
                          /\ \A i \in DOMAIN p : p[i] \notin {35, 63}
<1> DEFINE n == Len(p)
           seqs == [i \in 1..n |-> Escape(p[i])]
           e == EscapedURL(p)
           s == Cut(e, Room)
<1>1. n \in Nat \ {0} /\ p \in Seq(1..255) /\ DOMAIN p = 1..n
  <2>1. p \in Seq(1..255)
    <3>1. PICK T : T = 1..255
      OBVIOUS
    <3>2. Chars \subseteq T
      BY <3>1, UrlPathAssumption
    <3>3. p \in Seq(T)
      BY <3>2, SeqMonotonic
    <3> QED BY <3>1, <3>3
  <2> QED BY <2>1 DEF Accepted
<1>2. seqs \in Seq(Seq(Int)) /\ Len(seqs) = n
  <2>1. ASSUME NEW i \in 1..n PROVE Escape(p[i]) \in Seq(Int)
    <3>1. p[i] \in 1..255
      BY <1>1, ElementOfSeq
    <3> QED BY <3>1, EscapeBytes
  <2> QED BY <1>1, <2>1
<1>3. \A k \in 1..n : seqs[k] = Escape(p[k])
  OBVIOUS
<1> HIDE DEF seqs
<1>4. PICK P : Joined(seqs, P)
  <2>1. seqs \in Seq(Seq(Int)) /\ Len(seqs) >= 1
    BY <1>1, <1>2
  <2> HIDE DEF n
  <2> QED BY <2>1, FlattenJoins
<1>5. e = P[n] /\ e \in Seq(Int) /\ Room \in Nat /\ Asked(p) = Decode(s)
  <2>1. e = FlattenSeq(seqs) /\ Room \in Nat /\ (e \in Seq(Int) => Asked(p) = Decode(s))
    BY AskedOf DEF seqs
  <2>2. e = P[n]
    BY <1>2, <1>4, <2>1 DEF Joined
  <2>3. n \in 0..n
    BY <1>1
  <2>4. P[n] \in Seq(Int)
    BY <1>2, <1>4, <2>3 DEF Joined
  <2> QED BY <2>1, <2>2, <2>4
<1> HIDE DEF e
<1>6. /\ s \in Seq(Int) /\ Len(e) \in Nat /\ Len(s) = (IF Len(e) < Room THEN Len(e) ELSE Room)
      /\ \A x \in 1..Len(s) : s[x] = e[x]
  BY <1>5 DEF Cut
<1> HIDE DEF s, n
<1>7. ASSUME NEW k \in 1..Len(seqs)
      PROVE  Placed(seqs, P, k)
  BY <1>2, <1>4, JoinedPlaces
<1> DEFINE at == [k \in 0..n |-> Len(P[k])]
<1>8. at \in [0..n -> Nat] /\ at[0] = 0 /\ at[n] = Len(e) /\ Len(s) <= Len(e)
  <2>1. \A k \in 0..n : Len(P[k]) \in Nat
    <3>1. \A k \in 0..n : P[k] \in Seq(Int)
      BY <1>2, <1>4 DEF Joined
    <3> QED BY <3>1, LenProperties
  <2>2. P[0] = << >>
    BY <1>4 DEF Joined
  <2>3. 0 \in 0..n /\ n \in 0..n
    BY <1>1
  <2>4. at[0] = Len(P[0]) /\ at[n] = Len(P[n])
    BY <2>3
  <2> QED BY <1>5, <1>6, <2>1, <2>2, <2>4
<1>9. ASSUME NEW k \in 1..n
      PROVE  /\ at[k] = at[k - 1] + Len(Escape(p[k])) /\ at[k] <= at[n]
             /\ \A x \in 1..Len(Escape(p[k])) :
                  at[k - 1] + x <= Len(s) => s[at[k - 1] + x] = Escape(p[k])[x]
  <2>1. /\ Len(P[k]) = Len(P[k - 1]) + Len(seqs[k])
        /\ Len(P[k]) <= Len(P[n])
        /\ \A x \in 1..Len(seqs[k]) : P[n][Len(P[k - 1]) + x] = seqs[k][x]
    BY <1>2, <1>7 DEF Placed
  <2>2. k \in 0..n /\ k - 1 \in 0..n /\ n \in 0..n
    BY <1>1
  <2>3. at[k] = Len(P[k]) /\ at[k - 1] = Len(P[k - 1]) /\ at[n] = Len(P[n])
    BY <2>2
  <2>4. at[k - 1] \in Nat /\ Len(s) \in Nat
    BY <1>6, <1>8, <2>2
  <2> HIDE DEF at
  <2>5. at[k] = at[k - 1] + Len(seqs[k]) /\ at[k] <= at[n]
    BY <2>1, <2>3
  <2>6. ASSUME NEW x \in 1..Len(seqs[k]), at[k - 1] + x <= Len(s)
        PROVE  s[at[k - 1] + x] = seqs[k][x]
    <3>1. at[k - 1] + x \in 1..Len(s)
      BY <2>4, <2>6
    <3>2. s[at[k - 1] + x] = e[at[k - 1] + x]
      BY <1>6, <3>1
    <3> QED BY <1>5, <2>1, <2>3, <3>2
  <2> QED BY <1>3, <2>5, <2>6
<1> HIDE DEF at
<1>10. Written(p, at, s)
  BY <1>1, <1>6, <1>8, <1>9 DEF Written, n
<1>11. PICK D : Decode(s) = D[1] /\ ReadsOf(s, D)
  BY <1>6, DecodeReads DEF ReadsOf
<1>12. D[1] = p <=> at[n] <= Len(s) /\ \A i \in 1..n : p[i] \notin {35, 63}
  <2>1. D[1] = p <=> /\ at[Len(p)] <= Len(s)
                     /\ \A i \in 1..Len(p) : p[i] \notin {35, 63}
    BY <1>10, <1>11, ReadsBack
  <2> QED BY <2>1 DEF n
<1>13. at[n] <= Len(s) <=> Len(e) <= Room
  BY <1>5, <1>6, <1>8
<1> QED BY <1>1, <1>5, <1>11, <1>12, <1>13 DEF e

-----------------------------------------------------------------------------
(* readdir and getattr of one listing                                      *)

LEMMA ViewsOfEntry ==
  ASSUME NEW list \in Seq(Entries), Named(list),
         NEW i \in DOMAIN list, list[i].name \in Names
  PROVE  Complete(list[i]) <=>
           list[i].name \in Shown(list) /\ Getattr(list, list[i].name) = {list[i].type}
<1> DEFINE n == list[i].name
           e == list[i]
<1>1. e \in Entries /\ \A j \in DOMAIN list : list[j] \in Entries
  OBVIOUS
<1>2. \A j \in DOMAIN list : Found(list, n, j) <=> j = i
  BY <1>1 DEF Found, Named
<1>3. Getattr(list, n) = InfoOf(e)
  <2>1. {j \in DOMAIN list : Found(list, n, j)} = {i}
    BY <1>2
  <2>2. {InfoOf(list[j]) : j \in {k \in DOMAIN list : Found(list, n, k)}} = {InfoOf(e)}
    BY <2>1
  <2> QED BY <1>2, <2>2 DEF Getattr
<1>4. n \in Shown(list) <=> e.type # Absent /\ e.path
  BY <1>1 DEF Shown, Named
<1>5. e.type \in {"folder", "file", "other", Absent} /\ Absent \notin {"folder", "file", "other"}
  BY <1>1, FolderViewAssumption DEF Entries
<1>6. /\ e.type # Absent /\ e.path /\ InfoOf(e) = {e.type} => Complete(e)
      /\ Complete(e) => e.type # Absent /\ e.path /\ InfoOf(e) = {e.type}
  BY <1>5 DEF InfoOf, Complete
<1> QED BY <1>3, <1>4, <1>6

-----------------------------------------------------------------------------
(* Under which path a folder is cached                                     *)

\* The file n of folder d is behind d's last slash.
LEMMA FileInFolder ==
  ASSUME NEW d \in Seq(Chars), Folder(d), NEW n \in Seq(Chars \ {Slash}), Slash \in Chars,
         Len(FileIn(d, n)) <= MaxPathLen
  PROVE  LET p == FileIn(d, n)
             k == IF Len(d) = 1 THEN 1 ELSE Len(d) + 1
         IN /\ p \in Seq(Chars) /\ Stored(p) = p /\ StrNLen(p) = Len(p)
            /\ Len(p) = k + Len(n) /\ p[k] = Slash
            /\ \A i \in 1..Len(d) : p[i] = d[i]
            /\ \A i \in 1..Len(n) : p[k + i] = n[i]
<1> DEFINE p == FileIn(d, n)
           k == IF Len(d) = 1 THEN 1 ELSE Len(d) + 1
           s == IF Len(d) = 1 THEN d ELSE d \o <<Slash>>
<1>1. n \in Seq(Chars) /\ <<Slash>> \in Seq(Chars) /\ Len(<<Slash>>) = 1 /\ <<Slash>>[1] = Slash
  OBVIOUS
<1>2. /\ s \in Seq(Chars) /\ Len(s) = k /\ s[k] = Slash
      /\ \A i \in 1..Len(d) : s[i] = d[i]
  <2>1. CASE Len(d) = 1
    BY <2>1 DEF Folder
  <2>2. CASE Len(d) # 1
    <3>1. /\ d \o <<Slash>> \in Seq(Chars) /\ Len(d \o <<Slash>>) = Len(d) + 1
          /\ \A i \in 1..(Len(d) + 1) :
               (d \o <<Slash>>)[i] = IF i <= Len(d) THEN d[i] ELSE <<Slash>>[i - Len(d)]
      BY <1>1, ConcatProperties
    <3> QED BY <1>1, <2>2, <3>1
  <2> QED BY <2>1, <2>2
<1>3. p = s \o n
  <2>1. CASE Len(d) = 1
    BY <2>1 DEF FileIn
  <2>2. CASE Len(d) # 1
    BY <2>2, <1>1 DEF FileIn
  <2> QED BY <2>1, <2>2
<1> HIDE DEF s
<1>4. /\ p \in Seq(Chars) /\ Len(p) = k + Len(n)
      /\ \A i \in 1..(k + Len(n)) : p[i] = IF i <= k THEN s[i] ELSE n[i - k]
  <2> HIDE DEF p, k
  <2>0. s \in Seq(Chars) /\ n \in Seq(Chars)
    BY <1>1, <1>2
  <2>1. /\ s \o n \in Seq(Chars) /\ Len(s \o n) = Len(s) + Len(n)
        /\ \A i \in 1..(Len(s) + Len(n)) :
             (s \o n)[i] = IF i <= Len(s) THEN s[i] ELSE n[i - Len(s)]
    BY <2>0, ConcatProperties
  <2>2. Len(s) = k
    BY <1>2
  <2> QED BY <1>3, <2>1, <2>2
<1>5. Len(d) \in Nat /\ Len(d) >= 1 /\ k \in Nat /\ k >= Len(d) /\ Len(n) \in Nat
  BY DEF Folder
<1>6. StrNLen(p) = Len(p)
  BY <1>4, PathMatchAssumption DEF StrNLen
<1> HIDE DEF p, k
<1>7. Stored(p) = p
  <2>1. SubSeq(p, 1, Len(p)) = p
    BY <1>4
  <2> QED BY <1>6, <2>1 DEF Stored
<1>8. p[k] = Slash /\ \A i \in 1..Len(d) : p[i] = d[i]
  BY <1>2, <1>4, <1>5
<1>9. ASSUME NEW i \in 1..Len(n) PROVE p[k + i] = n[i]
  <2>1. k + i \in 1..(k + Len(n)) /\ ~(k + i <= k) /\ (k + i) - k = i
    BY <1>5
  <2> QED BY <1>4, <2>1
<1> QED BY <1>4, <1>6, <1>7, <1>8, <1>9 DEF p, k

LEMMA LastSlashOf ==
  ASSUME NEW d \in Seq(Chars), Folder(d), NEW n \in Seq(Chars \ {Slash}), Slash \in Chars,
         Len(FileIn(d, n)) <= MaxPathLen
  PROVE  LastSlash(FileIn(d, n)) = IF Len(d) = 1 THEN 1 ELSE Len(d) + 1
<1> DEFINE p == FileIn(d, n)
           k == IF Len(d) = 1 THEN 1 ELSE Len(d) + 1
           LastAt(i) == p[i] = Slash /\ \A j \in (i + 1)..Len(p) : p[j] # Slash
<1>1. /\ p \in Seq(Chars) /\ Len(p) = k + Len(n) /\ p[k] = Slash
      /\ \A i \in 1..Len(n) : p[k + i] = n[i]
  BY FileInFolder
<1>2. k \in Nat \ {0} /\ Len(n) \in Nat
  BY DEF Folder
<1>3. LastSlash(p) = CHOOSE i \in DOMAIN p : LastAt(i)
  BY DEF LastSlash
<1> HIDE DEF p, k
<1>4. k \in DOMAIN p
  BY <1>1, <1>2
<1>5. ASSUME NEW j \in (k + 1)..Len(p) PROVE p[j] # Slash
  <2>1. j - k \in 1..Len(n) /\ j = k + (j - k)
    BY <1>1, <1>2
  <2>2. p[j] = n[j - k]
    BY <1>1, <2>1
  <2>3. n[j - k] \in Chars \ {Slash}
    BY <2>1
  <2> QED BY <2>2, <2>3
<1>6. LastAt(k)
  BY <1>1, <1>5
<1>7. ASSUME NEW i \in DOMAIN p, LastAt(i) PROVE i = k
  <2>1. i \in 1..Len(p) /\ k \in 1..Len(p)
    BY <1>1, <1>4
  <2>2. CASE i < k
    BY <1>1, <1>7, <2>1, <2>2
  <2>3. CASE i > k
    BY <1>5, <1>7, <2>1, <2>3
  <2> QED BY <1>2, <2>1, <2>2, <2>3
<1> HIDE DEF LastAt
<1>8. LastSlash(p) = k
  BY <1>3, <1>4, <1>6, <1>7
<1> QED BY <1>8 DEF p, k

\* A folder's own key is its path with one slash at the end.
LEMMA FolderKeyOf ==
  ASSUME NEW d \in Seq(Chars), Folder(d), Slash \in Chars, Len(d) < MaxPathLen
  PROVE  LET k == IF Len(d) = 1 THEN 1 ELSE Len(d) + 1
         IN /\ FolderKey(d) \in Seq(Chars) /\ Len(FolderKey(d)) = k
            /\ FolderKey(d)[k] = Slash
            /\ \A i \in 1..Len(d) : FolderKey(d)[i] = d[i]
<1>1. Len(d) \in Nat /\ Len(d) >= 1 /\ d[1] = Slash /\ StrNLen(d) = Len(d)
  BY PathMatchAssumption DEF Folder, StrNLen
<1>2. Stored(d) = d
  <2>1. SubSeq(d, 1, Len(d)) = d
    OBVIOUS
  <2> QED BY <1>1, <2>1 DEF Stored
<1>3. CASE Len(d) = 1
  BY <1>1, <1>3 DEF FolderKey
<1>4. CASE Len(d) # 1
  <2>1. FolderKey(d) = d \o <<Slash>>
    BY <1>1, <1>2, <1>4 DEF FolderKey, Folder
  <2>2. <<Slash>> \in Seq(Chars) /\ Len(<<Slash>>) = 1 /\ <<Slash>>[1] = Slash
    OBVIOUS
  <2>3. /\ d \o <<Slash>> \in Seq(Chars) /\ Len(d \o <<Slash>>) = Len(d) + 1
        /\ \A i \in 1..(Len(d) + 1) :
             (d \o <<Slash>>)[i] = IF i <= Len(d) THEN d[i] ELSE <<Slash>>[i - Len(d)]
    BY <2>2, ConcatProperties
  <2> QED BY <1>1, <1>4, <2>1, <2>2, <2>3
<1> QED BY <1>3, <1>4

\* getActualSubelement() asks for the key of the folder, and searches it for
\* the file's own name.
LEMMA ParentKeyOf ==
  ASSUME NEW d \in Seq(Chars), Folder(d), NEW n \in Seq(Chars \ {Slash}), Slash \in Chars,
         Len(d) < MaxPathLen, Len(FileIn(d, n)) <= MaxPathLen
  PROVE  ParentKey(FileIn(d, n)) = FolderKey(d) /\ BaseName(FileIn(d, n)) = n
<1> DEFINE p == FileIn(d, n)
           k == IF Len(d) = 1 THEN 1 ELSE Len(d) + 1
<1>1. /\ p \in Seq(Chars) /\ Stored(p) = p /\ StrNLen(p) = Len(p)
      /\ Len(p) = k + Len(n) /\ p[k] = Slash
      /\ \A i \in 1..Len(d) : p[i] = d[i]
      /\ \A i \in 1..Len(n) : p[k + i] = n[i]
  BY FileInFolder
<1>2. LastSlash(p) = k
  BY LastSlashOf
<1>3. /\ FolderKey(d) \in Seq(Chars) /\ Len(FolderKey(d)) = k
      /\ FolderKey(d)[k] = Slash
      /\ \A i \in 1..Len(d) : FolderKey(d)[i] = d[i]
  BY FolderKeyOf
<1>4. k \in Nat \ {0} /\ Len(n) \in Nat /\ (\A i \in 1..k : i = k \/ i \in 1..Len(d))
  BY DEF Folder
<1>5. ParentKey(p) = SubSeq(p, 1, k) /\ BaseName(p) = SubSeq(p, k + 1, Len(p))
  BY <1>1, <1>2 DEF ParentKey, BaseName
<1> HIDE DEF p, k
<1>6. SubSeq(p, 1, k) = FolderKey(d)
  <2>1. /\ SubSeq(p, 1, k) \in Seq(Chars) /\ Len(SubSeq(p, 1, k)) = k
        /\ \A i \in 1..k : SubSeq(p, 1, k)[i] = p[i]
    BY <1>1, <1>4
  <2> QED BY <1>1, <1>3, <1>4, <2>1, SeqEqual
<1>7. SubSeq(p, k + 1, Len(p)) = n
  <2>1. /\ SubSeq(p, k + 1, Len(p)) \in Seq(Chars) /\ Len(SubSeq(p, k + 1, Len(p))) = Len(n)
        /\ \A i \in 1..Len(n) : SubSeq(p, k + 1, Len(p))[i] = p[k + i]
    BY <1>1, <1>4
  <2>2. n \in Seq(Chars)
    OBVIOUS
  <2> QED BY <1>1, <2>1, <2>2, SeqEqual
<1> QED BY <1>5, <1>6, <1>7 DEF p

\* Different folders have different keys.
LEMMA KeysDiffer ==
  ASSUME NEW d \in Seq(Chars), Folder(d), NEW e \in Seq(Chars), Folder(e), Slash \in Chars,
         Len(d) < MaxPathLen, Len(e) < MaxPathLen
  PROVE  SameKey(FolderKey(d), FolderKey(e)) <=> d = e
<1> DEFINE a == FolderKey(d)
           b == FolderKey(e)
           k == IF Len(d) = 1 THEN 1 ELSE Len(d) + 1
           m == IF Len(e) = 1 THEN 1 ELSE Len(e) + 1
<1>1. /\ a \in Seq(Chars) /\ Len(a) = k /\ a[k] = Slash /\ \A i \in 1..Len(d) : a[i] = d[i]
      /\ b \in Seq(Chars) /\ Len(b) = m /\ b[m] = Slash /\ \A i \in 1..Len(e) : b[i] = e[i]
  BY FolderKeyOf
<1>2. /\ k \in 1..MaxPathLen /\ m \in 1..MaxPathLen /\ MaxPathLen \in Nat
      /\ Len(d) \in Nat /\ Len(e) \in Nat
  BY PathMatchAssumption DEF Folder
<1> HIDE DEF a, b
<1>3. ASSUME StrNCmpEqual(a, b, MaxPathLen) PROVE d = e
  <2>1. k = m /\ \A i \in 1..k : a[i] = b[i]
    <3> HIDE DEF k, m
    <3>1. \A j \in 1..k : CharAt(a, j) = a[j] /\ a[j] # NUL
      BY <1>1, <1>2, PathMatchAssumption DEF CharAt
    <3>2. \A j \in 1..m : CharAt(b, j) = b[j] /\ b[j] # NUL
      BY <1>1, <1>2, PathMatchAssumption DEF CharAt
    <3>3. \A i \in 1..k : CharAt(a, i) = CharAt(b, i)
      BY <1>2, <1>3, <3>1 DEF StrNCmpEqual
    <3>4. k <= m
      BY <1>1, <1>2, <3>1, <3>3 DEF CharAt
    <3>5. m <= k
      <4> SUFFICES ASSUME k < m PROVE FALSE
        BY <1>2
      <4>1. k + 1 \in 1..MaxPathLen /\ k + 1 \in 1..m
        BY <1>2
      <4>2. CharAt(a, k + 1) = NUL
        BY <1>1, <1>2 DEF CharAt
      <4>3. CharAt(a, k + 1) = CharAt(b, k + 1)
        BY <1>2, <1>3, <3>1, <4>1 DEF StrNCmpEqual
      <4> QED BY <3>2, <4>1, <4>2, <4>3
    <3> QED BY <1>2, <3>1, <3>2, <3>3, <3>4, <3>5
  <2>2. Len(d) = Len(e)
    <3>1. CASE Len(d) = 1 \/ Len(e) = 1
      BY <1>2, <2>1, <3>1 DEF Folder
    <3>2. CASE Len(d) # 1 /\ Len(e) # 1
      BY <1>2, <2>1, <3>2
    <3> QED BY <3>1, <3>2
  <2>3. ASSUME NEW i \in 1..Len(d) PROVE d[i] = e[i]
    <3>1. i \in 1..k /\ i \in 1..Len(e)
      BY <1>2, <2>2
    <3> HIDE DEF k, m
    <3> QED BY <1>1, <2>1, <3>1
  <2> QED BY <2>2, <2>3, SeqEqual
<1>4. ASSUME d = e PROVE StrNCmpEqual(a, b, MaxPathLen)
  BY <1>4 DEF StrNCmpEqual, a, b
<1> QED BY <1>3, <1>4 DEF SameKey, a, b

\* From the key back to the folder, also when the copy loses its last byte.
LEMMA ExpectedPathOf ==
  ASSUME NEW d \in Seq(Chars), Folder(d), Slash \in Chars,
         Len(d) < MaxPathLen, Len(d) > 1
  PROVE  ExpectedPath(FolderKey(d)) = d
<1> DEFINE key == FolderKey(d)
           n == Len(d)
           c == SubSeq(key, 1, IF Len(key) < MaxPathLen - 1 THEN Len(key) ELSE MaxPathLen - 1)
<1>1. /\ key \in Seq(Chars) /\ Len(key) = n + 1 /\ key[n + 1] = Slash
      /\ \A i \in 1..n : key[i] = d[i]
  BY FolderKeyOf
<1>2. n \in Nat /\ MaxPathLen \in Nat /\ d[n] # Slash
  BY PathMatchAssumption DEF Folder
<1>3. ExpectedPath(key) = IF Len(c) > 1 /\ c[Len(c)] = Slash THEN SubSeq(c, 1, Len(c) - 1) ELSE c
  BY DEF ExpectedPath, Front
<1>4. c \in Seq(Chars) /\ (\A i \in 1..Len(c) : c[i] = key[i])
  <2> HIDE DEF key, n
  <2> QED BY <1>1, <1>2
<1>5. CASE n + 1 < MaxPathLen
  <2>1. Len(c) = n + 1
    <3> HIDE DEF key, n
    <3> QED BY <1>1, <1>2, <1>5
  <2> HIDE DEF key, n, c
  <2>2. ExpectedPath(key) = SubSeq(c, 1, n)
    <3>1. n > 1
      BY DEF n
    <3>2. c[n + 1] = Slash
      BY <1>1, <1>2, <1>4, <2>1
    <3> QED BY <1>2, <1>3, <2>1, <3>1, <3>2
  <2>3. SubSeq(c, 1, n) \in Seq(Chars) /\ Len(SubSeq(c, 1, n)) = n
        /\ \A i \in 1..n : SubSeq(c, 1, n)[i] = d[i]
    BY <1>1, <1>2, <1>4, <2>1
  <2> QED BY <2>2, <2>3, SeqEqual DEF key, n
<1>6. CASE n + 1 = MaxPathLen
  <2>1. Len(c) = n
    <3> HIDE DEF key, n
    <3> QED BY <1>1, <1>2, <1>6
  <2>2. n > 1
    OBVIOUS
  <2> HIDE DEF key, n, c
  <2>3. ExpectedPath(key) = c /\ \A i \in 1..n : c[i] = d[i]
    BY <1>1, <1>2, <1>3, <1>4, <2>1, <2>2
  <2> QED BY <1>4, <2>1, <2>3, SeqEqual DEF key, n
<1>7. n < MaxPathLen
  OBVIOUS
<1> QED BY <1>2, <1>5, <1>6, <1>7

-----------------------------------------------------------------------------
(* The specification of the run                                            *)

InputsInv ==
  /\ Is("match") => input \in Paths \X Paths
  /\ Is("url") => input \in URLs
  /\ Is("key") => input \in Keys
  /\ Is("read") => input \in Reads
  /\ Is("listing") => input \in Words(Entries, MaxEntries)

\* Every function is given one of its inputs.
THEOREM InputsInvariant == Spec => []InputsInv
<1>1. Init => InputsInv
  BY DEF Init, InputsInv, Is
<1>2. InputsInv /\ [Next]_vars => InputsInv'
  BY DEF InputsInv, Next, Pick, Is, vars
<1> QED BY <1>1, <1>2, PTL DEF Spec

LEMMA WordsAreSequences ==
  ASSUME NEW A, NEW n, NEW w \in Words(A, n)
  PROVE  w \in Seq(A) /\ Len(w) \in 1..n
<1>1. PICK k \in 1..n : w \in [1..k -> A]
  BY DEF Words
<1> QED BY <1>1

LEMMA PathsTyped ==
  /\ \A p \in Paths : p \in Seq(Chars)
  /\ \A p \in URLs : p \in Seq(Chars)
<1>1. ASSUME NEW p \in Paths PROVE p \in Seq(Chars)
  <2>1. p \in Seq(FewChars) /\ FewChars \subseteq Chars
    BY MCAlgorithmsAssumption, WordsAreSequences DEF Paths
  <2> QED BY <2>1
<1>2. ASSUME NEW p \in Words(Chars, MaxShort) PROVE p \in Seq(Chars)
  BY WordsAreSequences
<1> QED BY <1>1, <1>2 DEF URLs

LEMMA FolderTyped ==
  ASSUME NEW d \in Folders
  PROVE  d \in Seq(Chars) /\ Folder(d) /\ Len(d) < MaxPathLen
<1>1. d \in Seq({Slash} \cup FewChars) /\ Len(d) \in 1..(MaxPathLen - 1)
  BY WordsAreSequences DEF Folders
<1>2. {Slash} \cup FewChars \subseteq Chars
  BY MCAlgorithmsAssumption, FolderKeysAssumption
<1> QED BY <1>1, <1>2, PathMatchAssumption DEF Folders

\* The comparison of the open-file list is "begins with", for any alphabet,
\* any MAX_PATH_LEN and paths of any length.
THEOREM MatchIsPrefixCorrect == Spec => []MatchIsPrefix
<1>1. InputsInv => MatchIsPrefix
  <2> SUFFICES ASSUME input \in Paths \X Paths PROVE Matches(input[1], input[2]) <=> BeginsWith(input[2], input[1])
    BY DEF InputsInv, MatchIsPrefix
  <2>1. input[1] \in Seq(Chars) /\ input[2] \in Seq(Chars)
    BY PathsTyped
  <2> QED BY <2>1, MatchesIsPrefix
<1> QED BY <1>1, InputsInvariant, PTL

\* escapeURL() writes every byte, its escapes and the terminating NUL included,
\* inside the buffer it has by then, whatever the path.
THEOREM EscapeInBoundsCorrect == Spec => []EscapeInBounds
<1>1. InputsInv => EscapeInBounds
  BY PathsTyped, EscapedInBounds DEF InputsInv, EscapeInBounds
<1> QED BY <1>1, InputsInvariant, PTL

\* The server is asked for the very folder exactly when its path holds no '#'
\* or '?' and its escaped form is not cut: for any base and path.
THEOREM UrlNamesPathCorrect == Spec => []UrlNamesPath
<1>1. InputsInv => UrlNamesPath
  BY PathsTyped, AskedIsPath DEF InputsInv, UrlNamesPath
<1> QED BY <1>1, InputsInvariant, PTL

\* One folder, one key, whichever handler asks, up to MAX_PATH_LEN.
THEOREM KeyNamesFolderCorrect == Spec => []KeyNamesFolder
<1>1. ASSUME NEW f \in Keys
      PROVE  /\ ParentKey(FileIn(f.dir, f.name)) = FolderKey(f.dir)
             /\ BaseName(FileIn(f.dir, f.name)) = f.name
             /\ SameKey(FolderKey(f.dir), FolderKey(f.other)) <=> f.dir = f.other
             /\ Len(f.dir) > 1 => ExpectedPath(FolderKey(f.dir)) = f.dir
  <2>1. /\ f.dir \in Folders /\ f.other \in Folders /\ f.name \in Words(FewChars, 2)
        /\ Len(FileIn(f.dir, f.name)) <= MaxPathLen
    BY DEF Keys
  <2>2. /\ f.dir \in Seq(Chars) /\ Folder(f.dir) /\ Len(f.dir) < MaxPathLen
        /\ f.other \in Seq(Chars) /\ Folder(f.other) /\ Len(f.other) < MaxPathLen
    BY <2>1, FolderTyped
  <2>3. f.name \in Seq(Chars \ {Slash})
    <3>1. f.name \in Seq(FewChars) /\ FewChars \subseteq Chars \ {Slash}
      BY <2>1, MCAlgorithmsAssumption, WordsAreSequences
    <3> QED BY <3>1
  <2>4. Slash \in Chars
    BY FolderKeysAssumption
  <2>5. /\ ParentKey(FileIn(f.dir, f.name)) = FolderKey(f.dir)
        /\ BaseName(FileIn(f.dir, f.name)) = f.name
    BY <2>1, <2>2, <2>3, <2>4, ParentKeyOf
  <2>6. SameKey(FolderKey(f.dir), FolderKey(f.other)) <=> f.dir = f.other
    BY <2>2, <2>4, KeysDiffer
  <2>7. Len(f.dir) > 1 => ExpectedPath(FolderKey(f.dir)) = f.dir
    BY <2>2, <2>4, ExpectedPathOf
  <2> QED BY <2>5, <2>6, <2>7
<1>2. InputsInv => KeyNamesFolder
  BY <1>1 DEF InputsInv, KeyNamesFolder
<1> QED BY <1>2, InputsInvariant, PTL

\* A read is the bytes that exist in its range, and consecutive reads join,
\* for contents and reads of any size the kernel can ask for.
THEOREM ReadsJoinCorrect == Spec => []ReadsJoin
<1>1. ASSUME NEW r \in Reads, NEW content, content = [i \in 1..r.length |-> i]
      PROVE  /\ IsRange(Slice(content, r.size, r.offset), content, r.size, r.offset)
             /\ Slice(content, r.size, r.offset) \o Slice(content, r.next, r.offset + r.size)
                  = Slice(content, r.size + r.next, r.offset)
  <2>1. /\ r.length \in 0..MaxContent /\ r.size \in 1..Word /\ r.next \in 1..Word
        /\ KernelRead(r.size + r.next, r.offset)
    BY DEF Reads
  <2>2. /\ r.size \in Nat \ {0} /\ r.next \in Nat \ {0} /\ r.length \in Nat
    BY <2>1
  <2>3. KernelRead(r.size, r.offset)
    BY <2>1, <2>2, ReadSliceAssumption DEF KernelRead
  <2>4. content \in Seq(Nat)
    BY <1>1, <2>2
  <2>5. IsRange(Slice(content, r.size, r.offset), content, r.size, r.offset)
    BY <2>3, <2>4, SliceIsRange
  <2>6. KernelRead(r.size + r.next, r.offset)
    BY <2>1
  <2>7. Slice(content, r.size, r.offset) \o Slice(content, r.next, r.offset + r.size)
          = Slice(content, r.size + r.next, r.offset)
    <3>1. \A size \in Nat \ {0}, next \in Nat \ {0} : \A offset : KernelRead(size + next, offset) =>
            Slice(content, size, offset) \o Slice(content, next, offset + size)
              = Slice(content, size + next, offset)
      BY <2>4, SlicesJoin
    <3> QED BY <2>2, <2>6, <3>1
  <2> QED BY <2>5, <2>7
<1>2. InputsInv => ReadsJoin
  BY <1>1 DEF InputsInv, ReadsJoin
<1> QED BY <1>2, InputsInvariant, PTL

\* What readdir shows and getattr knows agree on complete entries, in
\* listings of any length.
THEOREM ViewsAgreeCorrect == Spec => []ViewsAgree
<1>1. InputsInv => ViewsAgree
  <2> SUFFICES ASSUME input \in Words(Entries, MaxEntries), Named(input),
                      NEW i \in DOMAIN input, input[i].name \in Names
               PROVE  Complete(input[i]) <=>
                        /\ input[i].name \in Shown(input)
                        /\ Getattr(input, input[i].name) = {input[i].type}
    BY DEF InputsInv, ViewsAgree
  <2>1. input \in Seq(Entries)
    BY WordsAreSequences
  <2> QED BY <2>1, ViewsOfEntry
<1> QED BY <1>1, InputsInvariant, PTL
================================================================================
