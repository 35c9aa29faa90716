-------------------------- MODULE PathMatch_proofs --------------------------
(* Induction, stated of sets so that the provers can use it, and what the    *)
(* path comparison decides, for every alphabet, every MAX_PATH_LEN and paths *)
(* of any length.                                                            *)
EXTENDS PathMatch, WellFoundedInduction, TLAPS

-----------------------------------------------------------------------------
(* Induction                                                               *)

\* Every set of natural numbers that is not empty has a least element.
LEMMA LeastElement ==
  ASSUME NEW T \in SUBSET Nat, T # {}
  PROVE  \E x \in T : \A y \in T : x <= y
<1>1. PICK R : R = {ss \in Nat \X Nat : ss[1] < ss[2]}
  OBVIOUS
<1>2. IsWellFoundedOn(R, Nat)
  BY <1>1, NatLessThanWellFounded DEF OpToRel
<1>3. PICK x \in T : \A y \in T : <<y, x>> \notin R
  BY <1>2, WFMin
<1>4. ASSUME NEW y \in T PROVE x <= y
  <2>1. x \in Nat /\ y \in Nat
    OBVIOUS
  <2>2. <<y, x>> \in Nat \X Nat /\ <<y, x>>[1] = y /\ <<y, x>>[2] = x
    BY <2>1
  <2>3. ~(y < x)
    BY <1>1, <1>3, <2>2
  <2> QED
    BY <2>1, <2>3
<1> QED
  BY <1>4

\* Induction: a set that holds 0 and the successor of each of its elements is
\* Nat.
LEMMA Inductive ==
  ASSUME NEW T \in SUBSET Nat, 0 \in T, \A n \in T : n + 1 \in T
  PROVE  T = Nat
<1>1. SUFFICES ASSUME Nat \ T # {} PROVE FALSE
  OBVIOUS
<1>2. PICK x \in Nat \ T : \A y \in Nat \ T : x <= y
  BY <1>1, LeastElement
<1>3. x # 0 /\ x - 1 \in Nat
  BY <1>2
<1>4. x - 1 \in T
  BY <1>2, <1>3
<1> QED
  BY <1>2, <1>4

\* The first n + 1 iterates of step from v.
Iterate(v, step, n, w) ==
  /\ DOMAIN w = 0..n
  /\ w[0] = v
  /\ \A k \in 1..n : w[k] = step[w[k - 1]]

\* Two iterations from the same value agree as far as both go.
LEMMA IterateUnique ==
  ASSUME NEW v, NEW step, NEW n \in Nat, NEW m \in Nat, n <= m, NEW w, NEW u,
         Iterate(v, step, n, w), Iterate(v, step, m, u)
  PROVE  \A k \in 0..n : w[k] = u[k]
<1> DEFINE T == {k \in Nat : k <= n => w[k] = u[k]}
<1>1. 0 \in T
  BY DEF Iterate
<1>2. ASSUME NEW k \in T PROVE k + 1 \in T
  <2>1. CASE k + 1 <= n
    <3>1. k + 1 \in 1..n /\ k + 1 \in 1..m /\ (k + 1) - 1 = k
      BY <2>1
    <3>2. w[k + 1] = step[w[k]] /\ u[k + 1] = step[u[k]]
      BY <3>1 DEF Iterate
    <3> QED BY <2>1, <3>2
  <2> QED BY <2>1
<1>3. T = Nat
  <2> HIDE DEF T
  <2>1. T \in SUBSET Nat
    BY DEF T
  <2> QED BY <1>1, <1>2, <2>1, Inductive
<1> QED BY <1>3

\* A function can be defined by recursion over Nat.
LEMMA Iterates ==
  ASSUME NEW V, NEW v \in V, NEW step \in [V -> V]
  PROVE  \E f \in [Nat -> V] :
           f[0] = v /\ \A n \in Nat : f[n + 1] = step[f[n]]
<1> DEFINE T == {n \in Nat : \E w : Iterate(v, step, n, w)}
<1>1. 0 \in T
  <2>1. Iterate(v, step, 0, [k \in 0..0 |-> v])
    BY DEF Iterate
  <2> QED BY <2>1
<1>2. ASSUME NEW n \in T PROVE n + 1 \in T
  <2>1. PICK w : Iterate(v, step, n, w)
    OBVIOUS
  <2> DEFINE u == [k \in 0..(n + 1) |-> IF k = n + 1 THEN step[w[n]] ELSE w[k]]
  <2>2. Iterate(v, step, n + 1, u)
    <3>1. DOMAIN u = 0..(n + 1) /\ u[0] = v
      BY <2>1 DEF Iterate
    <3>2. ASSUME NEW k \in 1..(n + 1) PROVE u[k] = step[u[k - 1]]
      <4>1. CASE k = n + 1
        BY <4>1
      <4>2. CASE k # n + 1
        <5>1. k \in 1..n /\ k - 1 \in 0..n
          BY <4>2
        <5> QED BY <2>1, <4>2, <5>1 DEF Iterate
      <4> QED BY <4>1, <4>2
    <3> QED BY <3>1, <3>2 DEF Iterate
  <2> QED BY <2>2
<1>3. T = Nat
  <2> HIDE DEF T
  <2>1. T \in SUBSET Nat
    BY DEF T
  <2> QED BY <1>1, <1>2, <2>1, Inductive
<1> DEFINE W(n) == CHOOSE w : Iterate(v, step, n, w)
           f == [n \in Nat |-> W(n)[n]]
<1>4. \A n \in Nat : Iterate(v, step, n, W(n))
  BY <1>3
<1> HIDE DEF T, W
<1>5. f[0] = v
  BY <1>4 DEF Iterate
<1>6. ASSUME NEW n \in Nat PROVE f[n + 1] = step[f[n]]
  <2>1. n + 1 \in Nat /\ n <= n + 1 /\ n \in 0..n /\ n + 1 \in 1..(n + 1) /\ (n + 1) - 1 = n
    OBVIOUS
  <2>2. W(n + 1)[n + 1] = step[W(n + 1)[n]]
    BY <1>4, <2>1 DEF Iterate
  <2>3. W(n)[n] = W(n + 1)[n]
    BY <1>4, <2>1, IterateUnique
  <2> QED BY <2>1, <2>2, <2>3
<1>7. \A n \in Nat : f[n] \in V
  <2> DEFINE U == {n \in Nat : f[n] \in V}
  <2> HIDE DEF f
  <2>1. 0 \in U /\ \A n \in U : n + 1 \in U
    BY <1>5, <1>6
  <2>2. U \in SUBSET Nat
    OBVIOUS
  <2> HIDE DEF U
  <2>3. U = Nat
    BY <2>1, <2>2, Inductive
  <2> QED BY <2>3 DEF U
<1> QED
  BY <1>5, <1>6, <1>7

-----------------------------------------------------------------------------
(* The path comparison                                                     *)

\* strnlen() returns a number no longer than its argument and its bound.
LEMMA StrNLenBounds ==
  ASSUME NEW s \in Seq(Chars)
  PROVE  StrNLen(s) \in Nat /\ StrNLen(s) <= Len(s) /\ StrNLen(s) <= MaxPathLen
BY PathMatchAssumption DEF StrNLen

\* An entry keeps the first StrNLen(s) characters of the path it was given.
LEMMA StoredChars ==
  ASSUME NEW s \in Seq(Chars)
  PROVE  /\ Len(Stored(s)) = StrNLen(s)
         /\ \A i \in 1..StrNLen(s) : Stored(s)[i] = s[i]
BY StrNLenBounds DEF Stored

\* The bytes strncmp() sees of the asked path are characters, never its NUL.
LEMMA AskedBytes ==
  ASSUME NEW p \in Seq(Chars), NEW i \in 1..StrNLen(p)
  PROVE  CharAt(p, i) = p[i] /\ p[i] \in Chars /\ p[i] # NUL
BY StrNLenBounds, PathMatchAssumption DEF CharAt

\* getFileContext() and closeFile() answer a request exactly when the asked
\* path, cut at MAX_PATH_LEN, begins the path the entry was opened with.
THEOREM MatchesIsPrefix ==
  ASSUME NEW p \in Seq(Chars), NEW entry \in Seq(Chars)
  PROVE  Matches(p, entry) <=> BeginsWith(entry, p)
<1> DEFINE n == CmpLen(p, entry)
           e == Stored(entry)
<1>0. /\ StrNLen(p) \in Nat
      /\ StrNLen(entry) \in Nat
      /\ Len(e) = StrNLen(entry)
      /\ \A i \in 1..StrNLen(entry) : e[i] = entry[i]
  BY StrNLenBounds, StoredChars
<1>1. n \in Nat /\ n <= StrNLen(p)
  BY <1>0 DEF CmpLen, StoredLen
<1>2. \A i \in 1..n : CharAt(p, i) = p[i] /\ p[i] # NUL
  BY <1>0, <1>1, AskedBytes
<1>3. Matches(p, entry) <=> \A i \in 1..n : p[i] = CharAt(e, i)
  <2>1. ASSUME NEW i \in 1..n PROVE \A j \in 1..(i - 1) : CharAt(p, j) # NUL
    BY <1>1, <1>2
  <2> QED
    BY <1>2, <2>1 DEF Matches, StrNCmpEqual
<1>4. CASE StrNLen(p) <= StrNLen(entry)
  <2>1. n = StrNLen(p)
    BY <1>0, <1>4 DEF CmpLen, StoredLen
  <2>2. \A i \in 1..n : CharAt(e, i) = entry[i]
    BY <1>0, <1>4, <2>1 DEF CharAt
  <2> QED
    BY <1>3, <1>4, <2>1, <2>2 DEF BeginsWith
<1>5. CASE StrNLen(p) > StrNLen(entry)
  <2>1. StrNLen(entry) + 1 \in 1..n
    BY <1>0, <1>5 DEF CmpLen, StoredLen
  <2>2. CharAt(e, StrNLen(entry) + 1) = NUL
    BY <1>0 DEF CharAt
  <2>3. ~Matches(p, entry)
    BY <1>2, <1>3, <2>1, <2>2
  <2> QED
    BY <1>0, <1>5, <2>3 DEF BeginsWith
<1> QED
  BY <1>0, <1>4, <1>5

\* A file always finds the context it was opened with.
THEOREM MatchesReflexive ==
  ASSUME NEW p \in Seq(Chars)
  PROVE  Matches(p, p)
BY MatchesIsPrefix, StrNLenBounds DEF BeginsWith

\* Two requests that one entry can answer are for overlapping paths: apart
\* from overlapping paths no file can reach another file's context.
THEOREM CommonEntryOverlap ==
  ASSUME NEW p \in Seq(Chars), NEW q \in Seq(Chars), NEW entry \in Seq(Chars),
         Matches(p, entry), Matches(q, entry)
  PROVE  Overlap(p, q)
<1>1. BeginsWith(entry, p) /\ BeginsWith(entry, q)
  BY MatchesIsPrefix
<1>2. StrNLen(p) \in Nat /\ StrNLen(q) \in Nat
  BY StrNLenBounds
<1>3. BeginsWith(p, q) \/ BeginsWith(q, p)
  BY <1>1, <1>2 DEF BeginsWith
<1> QED
  BY <1>3, MatchesIsPrefix DEF Overlap
=============================================================================
