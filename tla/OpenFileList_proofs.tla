------------------------ MODULE OpenFileList_proofs ------------------------
(* The open-file list in its critical sections, for every set of threads,    *)
(* paths, nodes and files: what a thread that holds ofm_lock sees and leaves *)
(* of the linked list, and that outside the lock the list takes the steps of *)
(* OpenFileManager.                                                          *)
EXTENDS OpenFileList, PathMatch_proofs, FiniteSetTheorems, SequenceTheorems

-----------------------------------------------------------------------------
(* The list                                                                *)

\* The entry of s at i, or NULL before its first and behind its last.
At(s, i) == IF i \in 1..Len(s) THEN s[i] ELSE NULL

\* s holds the nodes of the list that begins at n, each of them once.
Links(s, n) ==
  /\ s \in Seq(Nodes)
  /\ \A i, j \in 1..Len(s) : s[i] = s[j] => i = j
  /\ n = At(s, 1)
  /\ \A i \in 1..Len(s) : node[s[i]] # NULL /\ node[s[i]].next = At(s, i + 1)

\* A sequence is its first element and the rest.
LEMMA SubSeqFirst ==
  ASSUME NEW S, NEW s \in Seq(S), NEW i \in 1..Len(s)
  PROVE  <<s[i]>> \o SubSeq(s, i + 1, Len(s)) = SubSeq(s, i, Len(s))
<1> DEFINE a == <<s[i]>> \o SubSeq(s, i + 1, Len(s))
           b == SubSeq(s, i, Len(s))
<1>1. a \in Seq(S) /\ b \in Seq(S)
  OBVIOUS
<1>2. Len(a) = Len(b)
  OBVIOUS
<1>3. \A j \in 1..Len(a) : a[j] = b[j]
  OBVIOUS
<1> QED
  BY <1>1, <1>2, <1>3, SeqEqual

\* A list has no more nodes than there are.
LEMMA LinksBounded ==
  ASSUME NEW s, NEW n, Links(s, n)
  PROVE  Len(s) \in Nat /\ Len(s) <= Cardinality(Nodes) /\ Cardinality(Nodes) \in Nat
<1>1. IsFiniteSet(Nodes)
  BY OpenFileListAssumption
<1>2. s \in Injection(1..Len(s), Nodes)
  <2>1. s \in [1..Len(s) -> Nodes]
    BY LenProperties DEF Links
  <2>2. \A i, j \in 1..Len(s) : s[i] = s[j] => i = j
    BY DEF Links
  <2> QED BY <2>1, <2>2 DEF Injection, IsInjective
<1>3. Cardinality(1..Len(s)) <= Cardinality(Nodes)
  BY <1>1, <1>2, FS_Injection
<1>4. Cardinality(1..Len(s)) = Len(s)
  <2>1. PICK l \in Nat : l = Len(s)
    BY DEF Links
  <2>2. Cardinality(1..l) = IF 1 > l THEN 0 ELSE l - 1 + 1
    BY FS_Interval
  <2> QED BY <2>1, <2>2
<1> QED
  BY <1>1, <1>3, <1>4, FS_CardinalityType DEF Links

NodeType == node \in [Nodes -> OpenFileList_t \cup {NULL}]

FileType == file \in [Files -> FileMemoryStruct_t \cup {NULL}]

\* The entries of a list are nodes, and NULL is behind the last.
LEMMA LinksEntries ==
  ASSUME NEW s, NEW n, Links(s, n)
  PROVE  /\ s \in Seq(Nodes) /\ Len(s) \in Nat
         /\ \A i \in 1..Len(s) : /\ s[i] \in Nodes /\ At(s, i) = s[i]
                                 /\ node[s[i]] # NULL
                                 /\ node[s[i]].next = At(s, i + 1)
         /\ At(s, Len(s) + 1) = NULL
BY DEF Links, At

\* From the entry that is d places before the end, d steps of the walk collect
\* what is left of the list.
LEMMA WalkCollects ==
  ASSUME NEW s, NEW n, Links(s, n), NEW walk,
         \A k \in Nat :
           /\ walk[k][NULL] = << >>
           /\ \A m \in Nodes : node[m] # NULL =>
                walk[k + 1][m] = <<m>> \o walk[k][node[m].next]
  PROVE  \A k \in Nat : k >= Len(s) => walk[k][n] = s
<1> DEFINE len == Len(s)
           Left(d) == \A k \in Nat : k >= d =>
                        walk[k][At(s, len + 1 - d)] = SubSeq(s, len + 1 - d, len)
           T == {d \in Nat : d <= len => Left(d)}
<1>1. s \in Seq(Nodes) /\ len \in Nat
  BY LinksEntries
<1>2. 0 \in T
  <2>1. At(s, len + 1) = NULL /\ SubSeq(s, len + 1, len) = << >> /\ len + 1 - 0 = len + 1
    BY <1>1, LinksEntries
  <2> QED BY <2>1
<1>3. ASSUME NEW d \in Nat, d <= len => Left(d), d + 1 <= len PROVE Left(d + 1)
  <2> SUFFICES ASSUME NEW k \in Nat, k >= d + 1
               PROVE  walk[k][At(s, len + 1 - (d + 1))] = SubSeq(s, len + 1 - (d + 1), len)
    OBVIOUS
  <2>1. PICK i \in 1..len : i = len + 1 - (d + 1) /\ len + 1 - d = i + 1
    BY <1>1, <1>3
  <2>2. k - 1 \in Nat /\ k - 1 >= d /\ (k - 1) + 1 = k
    OBVIOUS
  <2>3. s[i] \in Nodes /\ At(s, i) = s[i] /\ node[s[i]] # NULL /\ node[s[i]].next = At(s, i + 1)
    BY LinksEntries
  <2>4. walk[k][s[i]] = <<s[i]>> \o walk[k - 1][At(s, i + 1)]
    BY <2>2, <2>3
  <2>5. walk[k - 1][At(s, i + 1)] = SubSeq(s, i + 1, len)
    <3>1. Left(d)
      BY <1>1, <1>3
    <3> HIDE DEF len
    <3> QED BY <2>1, <2>2, <3>1
  <2>6. <<s[i]>> \o SubSeq(s, i + 1, len) = SubSeq(s, i, len)
    BY <1>1, SubSeqFirst
  <2> QED BY <2>1, <2>3, <2>4, <2>5, <2>6
<1> HIDE DEF Left
<1>4. T = Nat
  <2>1. T \in SUBSET Nat /\ \A d \in T : d + 1 \in T
    BY <1>3
  <2> HIDE DEF T
  <2> QED BY <1>2, <2>1, Inductive
<1>5. Left(len)
  BY <1>1, <1>4
<1> USE DEF Left
<1>6. len + 1 - len = 1 /\ SubSeq(s, 1, len) = s /\ n = At(s, 1)
  BY <1>1 DEF Links
<1> HIDE DEF len
<1> QED
  BY <1>5, <1>6 DEF len

\* The walk that collects the nodes finds the list.
LEMMA ChainIs ==
  ASSUME NodeType, NEW s, NEW n, Links(s, n)
  PROVE  Chain(n) = s
<1> DEFINE M == Nodes \cup {NULL}
           V == [M -> Seq(Nodes)]
           rest(w) == [m \in M |-> IF m = NULL \/ node[m] = NULL THEN << >>
                                   ELSE <<m>> \o w[node[m].next]]
           zero == [m \in M |-> << >>]
           Equation(g) ==
             g = [i \in Nat |->
                    [m \in Nodes \cup {NULL} |->
                       IF i = 0 \/ m = NULL \/ node[m] = NULL
                         THEN << >>
                         ELSE <<m>> \o g[i - 1][node[m].next]]]
           walk == CHOOSE g : Equation(g)
<1>1. Chain(n) = walk[Cardinality(Nodes) + 1][n]
  BY DEF Chain
<1>2. \A m \in Nodes : node[m] # NULL => node[m].next \in M
  BY DEF NodeType, OpenFileList_t
<1>3. zero \in V /\ \A w \in V : rest(w) \in V
  BY <1>2
<1>4. PICK f \in [Nat -> V] : f[0] = zero /\ \A i \in Nat : f[i + 1] = rest(f[i])
  <2>1. [w \in V |-> rest(w)] \in [V -> V]
    BY <1>3
  <2>2. \A w \in V : [u \in V |-> rest(u)][w] = rest(w)
    OBVIOUS
  <2> HIDE DEF V, rest, zero
  <2>3. PICK g \in [Nat -> V] :
          g[0] = zero /\ \A i \in Nat : g[i + 1] = [w \in V |-> rest(w)][g[i]]
    <3> DEFINE F == [w \in V |-> rest(w)]
    <3> HIDE DEF F
    <3>1. F \in [V -> V]
      BY <2>1 DEF F
    <3>2. \E g \in [Nat -> V] : g[0] = zero /\ \A i \in Nat : g[i + 1] = F[g[i]]
      BY <1>3, <3>1, Iterates
    <3> QED BY <3>2 DEF F
  <2>4. \A i \in Nat : g[i + 1] = rest(g[i])
    BY <2>2, <2>3
  <2> QED BY <2>3, <2>4
<1>5. \E g : Equation(g)
  <2>1. ASSUME NEW i \in Nat
        PROVE  f[i] = [m \in Nodes \cup {NULL} |->
                         IF i = 0 \/ m = NULL \/ node[m] = NULL
                           THEN << >>
                           ELSE <<m>> \o f[i - 1][node[m].next]]
    <3>1. CASE i = 0
      BY <1>4, <3>1
    <3>2. CASE i # 0
      <4>1. i - 1 \in Nat /\ (i - 1) + 1 = i
        BY <3>2
      <4>2. f[i] = rest(f[i - 1])
        BY <1>4, <4>1
      <4> QED BY <3>2, <4>2
    <3> QED BY <3>1, <3>2
  <2>2. Equation(f)
    BY <2>1
  <2> QED BY <2>2
<1>6. Equation(walk)
  <2> HIDE DEF Equation
  <2> QED BY <1>5
<1> HIDE DEF walk
<1>7. ASSUME NEW k \in Nat
      PROVE  /\ walk[k][NULL] = << >>
             /\ \A m \in Nodes : node[m] # NULL =>
                  walk[k + 1][m] = <<m>> \o walk[k][node[m].next]
  <2>1. k + 1 \in Nat /\ k + 1 # 0 /\ (k + 1) - 1 = k
    OBVIOUS
  <2>2. \A i \in Nat : walk[i] =
          [m \in Nodes \cup {NULL} |->
             IF i = 0 \/ m = NULL \/ node[m] = NULL
               THEN << >>
               ELSE <<m>> \o walk[i - 1][node[m].next]]
    BY <1>6
  <2>3. walk[k][NULL] = << >>
    BY <2>2
  <2>4. ASSUME NEW m \in Nodes, node[m] # NULL
        PROVE  walk[k + 1][m] = <<m>> \o walk[k][node[m].next]
    <3>1. m # NULL
      BY OpenFileListAssumption
    <3>2. walk[k + 1] =
            [u \in Nodes \cup {NULL} |->
               IF k + 1 = 0 \/ u = NULL \/ node[u] = NULL
                 THEN << >>
                 ELSE <<u>> \o walk[(k + 1) - 1][node[u].next]]
      BY <2>1, <2>2
    <3> QED BY <2>1, <2>4, <3>1, <3>2
  <2> QED BY <2>3, <2>4
<1>8. \A k \in Nat : k >= Len(s) => walk[k][n] = s
  BY <1>7, WalkCollects
<1> QED
  BY <1>1, <1>8, LinksBounded

\* The same of every state.
LEMMA ChainIsAll ==
  \A s, n : NodeType /\ Links(s, n) => Chain(n) = s
BY ChainIs

\* In particular of the state after a step.
LEMMA ChainIsNext ==
  (\A s, n : NodeType /\ Links(s, n) => Chain(n) = s)'
BY ChainIsAll, PTL

\* s without its i-th entry.
Without(s, i) == [j \in 1..(Len(s) - 1) |-> IF j < i THEN s[j] ELSE s[j + 1]]

On(s) == {s[i] : i \in 1..Len(s)}

LEMMA WithoutProperties ==
  ASSUME NEW S, NEW s \in Seq(S), NEW i \in 1..Len(s)
  PROVE  /\ Without(s, i) \in Seq(S)
         /\ Len(Without(s, i)) = Len(s) - 1
         /\ \A j \in 1..(Len(s) - 1) :
              Without(s, i)[j] = IF j < i THEN s[j] ELSE s[j + 1]
<1> DEFINE n == Len(s) - 1
           w == Without(s, i)
<1>1. n \in Nat /\ \A j \in 1..n : /\ j < i => s[j] \in S
                                   /\ ~(j < i) => s[j + 1] \in S
  OBVIOUS
<1>2. w \in [1..n -> S] /\ \A j \in 1..n : w[j] = IF j < i THEN s[j] ELSE s[j + 1]
  BY <1>1 DEF Without
<1>3. w \in Seq(S) /\ Len(w) = n
  BY <1>1, <1>2
<1> QED
  BY <1>2, <1>3

\* It is put together from what is before and what is behind the entry.
LEMMA WithoutJoined ==
  ASSUME NEW S, NEW s \in Seq(S), NEW i \in 1..Len(s)
  PROVE  SubSeq(s, 1, i - 1) \o SubSeq(s, i + 1, Len(s)) = Without(s, i)
<1> DEFINE front == SubSeq(s, 1, i - 1)
           behind == SubSeq(s, i + 1, Len(s))
           c == front \o behind
           w == Without(s, i)
<1>1. /\ front \in Seq(S) /\ Len(front) = i - 1
      /\ \A j \in 1..(i - 1) : front[j] = s[j]
  OBVIOUS
<1>2. /\ behind \in Seq(S) /\ Len(behind) = Len(s) - i
      /\ \A j \in 1..(Len(s) - i) : behind[j] = s[j + i]
  OBVIOUS
<1> HIDE DEF front, behind
<1>3. c \in Seq(S) /\ Len(c) = Len(s) - 1
  BY <1>1, <1>2
<1>4. \A j \in 1..(Len(s) - 1) : c[j] = IF j < i THEN s[j] ELSE s[j + 1]
  <2>1. ASSUME NEW j \in 1..(Len(s) - 1), j < i PROVE c[j] = s[j]
    <3>1. j \in 1..Len(front)
      BY <1>1, <2>1
    <3> QED BY <1>1, <1>2, <3>1
  <2>2. ASSUME NEW j \in 1..(Len(s) - 1), ~(j < i) PROVE c[j] = s[j + 1]
    <3>1. /\ j - (i - 1) \in 1..(Len(s) - i) /\ j > Len(front)
          /\ (j - (i - 1)) + i = j + 1 /\ j \in 1..(Len(front) + Len(behind))
      BY <1>1, <1>2, <2>2
    <3>2. c[j] = behind[j - (i - 1)]
      BY <1>1, <1>2, <3>1, ConcatProperties
    <3> QED BY <1>2, <3>1, <3>2
  <2> QED BY <2>1, <2>2
<1>5. w \in Seq(S) /\ Len(w) = Len(s) - 1
      /\ \A j \in 1..(Len(s) - 1) : w[j] = IF j < i THEN s[j] ELSE s[j + 1]
  BY WithoutProperties
<1> HIDE DEF c, w
<1>6. c = w
  BY <1>3, <1>4, <1>5, SeqEqual
<1> QED
  BY <1>6 DEF c, w, front, behind

\* An entry that occurs once is gone; the others stay.
LEMMA WithoutElements ==
  ASSUME NEW S, NEW s \in Seq(S), NEW i \in 1..Len(s),
         \A j, k \in 1..Len(s) : s[j] = s[k] => j = k
  PROVE  /\ On(Without(s, i)) = On(s) \ {s[i]}
         /\ \A j, k \in 1..(Len(s) - 1) : Without(s, i)[j] = Without(s, i)[k] => j = k
<1> DEFINE n == Len(s) - 1
           w == Without(s, i)
           up(j) == IF j < i THEN j ELSE j + 1
<1>1. n \in Nat /\ Len(s) = n + 1 /\ Len(w) = n
  <2>1. Len(w) = Len(s) - 1
    BY WithoutProperties
  <2> QED BY <2>1
<1>2. \A j \in 1..n : up(j) \in 1..Len(s) /\ up(j) # i /\ w[j] = s[up(j)]
  <2>1. \A j \in 1..n : w[j] = IF j < i THEN s[j] ELSE s[j + 1]
    BY WithoutProperties
  <2> HIDE DEF w
  <2> QED BY <1>1, <2>1
<1>3. \A j, k \in 1..n : up(j) = up(k) => j = k
  OBVIOUS
<1>4. \A k \in 1..Len(s) : k # i => \E j \in 1..n : up(j) = k
  <2> SUFFICES ASSUME NEW k \in 1..Len(s), k # i PROVE \E j \in 1..n : up(j) = k
    OBVIOUS
  <2>1. CASE k < i
    <3>1. k \in 1..n /\ up(k) = k
      BY <1>1, <2>1
    <3> QED BY <3>1
  <2>2. CASE k > i
    <3>1. k - 1 \in 1..n /\ up(k - 1) = k
      BY <1>1, <2>2
    <3> QED BY <3>1
  <2> QED BY <2>1, <2>2
<1> HIDE DEF w, n, up
<1>5. On(w) = On(s) \ {s[i]}
  <2>1. ASSUME NEW x \in On(w) PROVE x \in On(s) \ {s[i]}
    <3>1. PICK j \in 1..n : x = w[j]
      BY <1>1 DEF On
    <3> QED BY <1>2, <3>1 DEF On
  <2>2. ASSUME NEW x \in On(s) \ {s[i]} PROVE x \in On(w)
    <3>1. PICK k \in 1..Len(s) : x = s[k] /\ k # i
      BY DEF On
    <3>2. PICK j \in 1..n : up(j) = k
      BY <1>4, <3>1
    <3> QED BY <1>1, <1>2, <3>1, <3>2 DEF On
  <2> QED BY <2>1, <2>2
<1>6. \A j, k \in 1..n : w[j] = w[k] => j = k
  BY <1>2, <1>3
<1> QED
  BY <1>5, <1>6 DEF w, n

\* A new first entry moves the others one place on.
LEMMA FirstProperties ==
  ASSUME NEW S, NEW s \in Seq(S), NEW e \in S
  PROVE  /\ <<e>> \o s \in Seq(S)
         /\ Len(<<e>> \o s) = Len(s) + 1
         /\ (<<e>> \o s)[1] = e
         /\ \A i \in 1..Len(s) : (<<e>> \o s)[i + 1] = s[i]
         /\ \A i \in 1..(Len(s) + 1) : i # 1 => i - 1 \in 1..Len(s) /\ (<<e>> \o s)[i] = s[i - 1]
         /\ On(<<e>> \o s) = On(s) \cup {e}
<1> DEFINE c == <<e>> \o s
<1>1. c \in Seq(S) /\ Len(c) = Len(s) + 1 /\ c[1] = e
  OBVIOUS
<1>2. \A i \in 1..Len(s) : c[i + 1] = s[i] /\ i + 1 \in 1..Len(c)
  OBVIOUS
<1>3. \A i \in 1..(Len(s) + 1) : i # 1 => i - 1 \in 1..Len(s) /\ c[i] = s[i - 1]
  BY <1>2
<1> HIDE DEF c
<1>4. On(c) = On(s) \cup {e}
  <2>1. 1 \in 1..Len(c)
    BY <1>1
  <2>2. ASSUME NEW x \in On(c) PROVE x \in On(s) \cup {e}
    BY <1>1, <1>3 DEF On
  <2>3. ASSUME NEW x \in On(s) PROVE x \in On(c)
    BY <1>2 DEF On
  <2> QED BY <1>1, <2>1, <2>2, <2>3 DEF On
<1> QED
  BY <1>1, <1>2, <1>3, <1>4 DEF c

-----------------------------------------------------------------------------
(* The inductive invariant                                                 *)

\* The holder of the mutex is at one of these steps.
Doing(steps) == ofm_lock # NULL /\ pc[ofm_lock] \in steps

Inside == Walks \cup Sweeps \cup {"alloc_file", "free"}

\* Who is inside a critical section holds ofm_lock, and nobody else points
\* into the list.
LockOK ==
  /\ ofm_lock # NULL => pc[ofm_lock] \in Inside
  /\ \A t \in Threads \ {ofm_lock} : /\ pc[t] \in {"idle", "lock"}
                                     /\ cur[t] = NULL /\ prev[t] = NULL
  /\ Doing(Walks \cup {"alloc_file"}) => arg[ofm_lock] \in Paths

\* Where the linked list begins: the sweep has freed what it has passed.
Top == IF Doing(Sweeps) THEN cur[ofm_lock] ELSE firstOpenFile

\* The node that is allocated and not in the list: not yet, or not any more.
Hand == IF Doing({"alloc_file", "free"}) THEN {cur[ofm_lock]} ELSE {}

\* The nodes of list s and the one about to be freed own a file each.
Owners(s) == On(s) \cup IF Doing({"free"}) THEN {cur[ofm_lock]} ELSE {}

NodesOK(s) ==
  /\ \A n \in Nodes : node[n] # NULL <=> n \in On(s) \cup Hand
  /\ \A n \in Hand : n \in Nodes \ On(s)

FilesOK(s) ==
  /\ \A n \in Owners(s) : node[n].file \in Files
  /\ \A m, n \in Owners(s) : node[m].file = node[n].file => m = n
  /\ \A f \in Files : file[f] # NULL <=> \E n \in Owners(s) : node[n].file = f

CountOK(s) == openFiles = Len(s) + IF Doing({"alloc_file"}) THEN 1 ELSE 0

\* None of the first k entries answers the call.
Missed(s, k) == \A j \in 1..k : ~Matches(arg[ofm_lock], node[s[j]].path)

\* A walk has passed the entries that do not answer it.
WalkOK(s) ==
  Doing(Walks) =>
    \E i \in 1..(Len(s) + 1) :
      /\ cur[ofm_lock] = At(s, i)
      /\ prev[ofm_lock] = IF Doing({"close"}) THEN At(s, i - 1) ELSE NULL
      /\ Missed(s, i - 1)

\* An opening has found no entry, and holds a node for it with nothing to free;
\* what a closing leaves behind stays in the list, and the sweep knows the
\* successor of what it is about to free.
SurgeryOK(s) ==
  /\ Doing({"alloc_file"}) =>
       /\ Missed(s, Len(s)) /\ node[cur[ofm_lock]].path = arg[ofm_lock]
       /\ "file" \in Failures => node[cur[ofm_lock]].file = NULL
  /\ Doing({"open", "alloc_file"}) => BelowRefBound
  /\ Doing({"free"}) => prev[ofm_lock] \in On(s) \cup {NULL}
  /\ Doing({"alloc_file", "closeAll"}) => prev[ofm_lock] = NULL
  /\ Doing({"sweep"}) => /\ cur[ofm_lock] # NULL
                         /\ prev[ofm_lock] = node[cur[ofm_lock]].next

ListOK(s) ==
  /\ Links(s, Top) /\ NodesOK(s) /\ FilesOK(s) /\ CountOK(s)
  /\ WalkOK(s) /\ SurgeryOK(s)

\* The inductive invariant: there is a list that explains the heap.
ListInv == TypeOK /\ LockOK /\ \E s : ListOK(s)

\* What malloc() leaves in a new node is not freed as a file by the error
\* path of openFile().
CleanNodes == "file" \in Failures => FreshFile \subseteq {NULL}

-----------------------------------------------------------------------------
(* Inside and outside the critical sections                                *)

\* A thread at a step inside is the holder.
LEMMA Holder ==
  ASSUME LockOK, NEW t \in Threads, pc[t] \in Inside
  PROVE  ofm_lock = t /\ ofm_lock # NULL /\ \A steps : Doing(steps) <=> pc[t] \in steps
BY OpenFileListAssumption DEF LockOK, Doing, Inside, Sweeps, Walks

\* With the mutex free nothing is in hand.
LEMMA Outside ==
  ASSUME ofm_lock = NULL
  PROVE  /\ \A steps : ~Doing(steps)
         /\ Top = firstOpenFile /\ Hand = {} /\ \A s : Owners(s) = On(s)
BY DEF Doing, Top, Hand, Owners

\* The same after a step.
LEMMA OutsideNext ==
  ASSUME ofm_lock' = NULL
  PROVE  /\ \A steps : ~Doing(steps)'
         /\ Top' = firstOpenFile' /\ Hand' = {} /\ \A s : Owners(s)' = On(s)
BY DEF Doing, Top, Hand, Owners, On

\* A return keeps the rules of the mutex.
LEMMA ReturnLock ==
  ASSUME TypeOK, LockOK, NEW t \in Threads, pc[t] \in Inside, Return(t)
  PROVE  /\ LockOK' /\ ofm_lock' = NULL
         /\ pc' \in [Threads -> Walks \cup Sweeps \cup {"idle", "lock", "alloc_file", "free"}]
         /\ arg' \in [Threads -> Paths \cup {NULL}]
         /\ cur' \in [Threads -> Nodes \cup {NULL}]
         /\ prev' \in [Threads -> Nodes \cup {NULL}]
<1>1. ofm_lock = t
  BY Holder
<1>2. \A steps : ~Doing(steps)'
  BY OutsideNext DEF Return
<1>3. LockOK'
  BY <1>1, <1>2 DEF TypeOK, LockOK, Return, Goto
<1> QED
  BY <1>3 DEF TypeOK, Return, Goto

\* A return that leaves the heap to list s leaves the list in order.
LEMMA ReturnList ==
  ASSUME NEW s, ofm_lock' = NULL, Links(s, firstOpenFile)',
         \A n \in Nodes : node'[n] # NULL <=> n \in On(s),
         \A n \in On(s) : node'[n].file \in Files,
         \A m, n \in On(s) : node'[m].file = node'[n].file => m = n,
         \A f \in Files : file'[f] # NULL <=> \E n \in On(s) : node'[n].file = f,
         openFiles' = Len(s)
  PROVE  ListOK(s)'
<1>1. /\ \A steps : ~Doing(steps)'
      /\ Top' = firstOpenFile' /\ Hand' = {} /\ Owners(s)' = On(s)
  BY OutsideNext
<1>2. Links(s, Top)'
  BY <1>1 DEF Links
<1>3. NodesOK(s)'
  BY <1>1 DEF NodesOK, On
<1>4. FilesOK(s)'
  BY <1>1 DEF FilesOK
<1>5. CountOK(s)' /\ WalkOK(s)' /\ SurgeryOK(s)'
  BY <1>1, Len(s) \in Nat DEF CountOK, WalkOK, SurgeryOK, Links
<1> QED
  BY <1>2, <1>3, <1>4, <1>5 DEF ListOK

-----------------------------------------------------------------------------
(* Entering, walking, leaving                                              *)

LEMMA InitInv ==
  ASSUME Init
  PROVE  TypeOK /\ LockOK /\ ListOK(<< >>)
<1>1. TypeOK
  BY DEF Init, TypeOK
<1>2. ofm_lock = NULL
  BY DEF Init
<1>3. /\ \A steps : ~Doing(steps)
      /\ Top = NULL /\ Hand = {} /\ Owners(<< >>) = On(<< >>) /\ On(<< >>) = {}
  BY <1>2, Outside DEF Init, On
<1>4. LockOK
  BY <1>2, <1>3 DEF Init, LockOK
<1>5. Links(<< >>, Top)
  BY <1>3 DEF Links, At
<1>6. NodesOK(<< >>) /\ FilesOK(<< >>)
  BY <1>3 DEF NodesOK, FilesOK, Init
<1>7. CountOK(<< >>) /\ WalkOK(<< >>) /\ SurgeryOK(<< >>)
  BY <1>3 DEF CountOK, WalkOK, SurgeryOK, Init
<1> QED
  BY <1>1, <1>4, <1>5, <1>6, <1>7 DEF ListOK

\* A step that leaves the heap and the holder's variables alone.
LEMMA ListKept ==
  ASSUME NEW s, ListOK(s), UNCHANGED <<heapVars, ofm_lock>>,
         ofm_lock # NULL => /\ pc'[ofm_lock] = pc[ofm_lock]
                            /\ cur'[ofm_lock] = cur[ofm_lock]
                            /\ prev'[ofm_lock] = prev[ofm_lock]
                            /\ arg'[ofm_lock] = arg[ofm_lock]
  PROVE  ListOK(s)'
<1>1. \A steps : Doing(steps)' <=> Doing(steps)
  BY DEF Doing
<1>2. \A steps : Doing(steps) => ofm_lock # NULL
  BY DEF Doing
<1>3. Top' = Top /\ Hand' = Hand /\ Owners(s)' = Owners(s)
  BY <1>1, <1>2 DEF Top, Hand, Owners, On, heapVars
<1>4. Links(s, Top)' /\ NodesOK(s)' /\ FilesOK(s)' /\ CountOK(s)'
  <2>1. Links(s, Top)' /\ CountOK(s)'
    BY <1>1, <1>3 DEF ListOK, Links, CountOK, heapVars
  <2>2. NodesOK(s)'
    BY <1>3 DEF ListOK, NodesOK, On, heapVars
  <2>3. FilesOK(s)'
    BY <1>3 DEF ListOK, FilesOK, heapVars
  <2> QED BY <2>1, <2>2, <2>3
<1>5. WalkOK(s)'
  BY <1>1, <1>2 DEF ListOK, WalkOK, Missed, heapVars
<1>6. SurgeryOK(s)'
  BY <1>1, <1>2 DEF ListOK, SurgeryOK, Missed, BelowRefBound, Free, heapVars
<1> QED
  BY <1>4, <1>5, <1>6 DEF ListOK

LEMMA CallInv ==
  ASSUME TypeOK, LockOK, NEW s, ListOK(s), NEW t \in Threads, Call(t)
  PROVE  TypeOK' /\ LockOK' /\ ListOK(s)'
<1>1. t # ofm_lock
  BY OpenFileListAssumption DEF Call, LockOK, Inside, Sweeps, Walks
<1>2. TypeOK'
  BY DEF TypeOK, Call, Goto, heapVars
<1>3. ofm_lock # NULL => /\ pc'[ofm_lock] = pc[ofm_lock]
                         /\ cur'[ofm_lock] = cur[ofm_lock]
                         /\ prev'[ofm_lock] = prev[ofm_lock]
                         /\ arg'[ofm_lock] = arg[ofm_lock]
  BY <1>1 DEF TypeOK, Call, Goto
<1>4. LockOK'
  BY <1>1, <1>3 DEF TypeOK, LockOK, Doing, Call, Goto
<1>5. UNCHANGED <<heapVars, ofm_lock>>
  BY DEF Call
<1> QED
  BY <1>2, <1>3, <1>4, <1>5, ListKept

\* A call of getFileContext(), openFile() or closeFile() begins its walk at
\* the head of the list.
LEMMA LockInv ==
  ASSUME TypeOK, LockOK, NEW s, ListOK(s),
         NEW t \in Threads, NEW op \in Walks, NEW p \in Paths, Lock(t, op, p)
  PROVE  TypeOK' /\ LockOK' /\ ListOK(s)'
<1>1. /\ ofm_lock = NULL /\ ofm_lock' = t /\ t # NULL /\ pc'[t] = op /\ arg'[t] = p
      /\ cur'[t] = firstOpenFile /\ prev'[t] = NULL /\ UNCHANGED heapVars
  BY OpenFileListAssumption DEF Lock, Goto, TypeOK, LockOK
<1>2. TypeOK'
  BY DEF TypeOK, Lock, Goto, heapVars
<1>3. \A steps : Doing(steps)' <=> op \in steps
  BY <1>1 DEF Doing
<1>4. LockOK'
  <2>1. pc'[t] \in Inside /\ arg'[t] \in Paths
    BY <1>1 DEF Inside, Sweeps
  <2>2. \A u \in Threads \ {t} : pc'[u] = pc[u] /\ cur'[u] = cur[u] /\ prev'[u] = prev[u]
    BY DEF TypeOK, Lock, Goto
  <2>3. \A u \in Threads \ {t} :
          pc[u] \in {"idle", "lock"} /\ cur[u] = NULL /\ prev[u] = NULL
    BY <1>1, OpenFileListAssumption DEF LockOK
  <2> QED BY <1>1, <2>1, <2>2, <2>3 DEF LockOK
<1>5. op # "closeAll" /\ op # "sweep" /\ op # "alloc_file" /\ op # "free"
  BY DEF Walks
<1>6. /\ Top' = firstOpenFile /\ Hand' = {} /\ Owners(s)' = On(s)
      /\ \A steps : ~Doing(steps)
      /\ Top = firstOpenFile /\ Hand = {} /\ Owners(s) = On(s)
  <2>1. Top' = firstOpenFile /\ Hand' = {} /\ Owners(s)' = On(s)
    BY <1>1, <1>3, <1>5 DEF Top, Hand, Owners, On, heapVars
  <2> QED BY <1>1, <2>1, Outside
<1>7. Links(s, Top)' /\ NodesOK(s)' /\ FilesOK(s)'
  BY <1>1, <1>6 DEF ListOK, Links, NodesOK, FilesOK, On, heapVars
<1>8. CountOK(s)'
  BY <1>1, <1>3, <1>5, <1>6 DEF ListOK, CountOK, heapVars
<1>9. WalkOK(s)'
  <2>1. 1 \in 1..(Len(s) + 1) /\ At(s, 1 - 1) = NULL /\ firstOpenFile = At(s, 1)
    BY <1>6 DEF ListOK, Links, At
  <2>2. Missed(s, 1 - 1)'
    BY DEF Missed
  <2> QED BY <1>1, <2>1, <2>2 DEF WalkOK
<1>10. SurgeryOK(s)'
  <2>1. op = "open" => BelowRefBound'
    BY <1>1 DEF Lock, BelowRefBound, Free, heapVars
  <2> QED BY <1>3, <1>5, <2>1 DEF SurgeryOK, Sweeps
<1> QED
  BY <1>2, <1>4, <1>7, <1>8, <1>9, <1>10 DEF ListOK

\* closeAllFiles() sweeps from the head of the list.
LEMMA CloseAllInv ==
  ASSUME TypeOK, LockOK, NEW s, ListOK(s), NEW t \in Threads, CloseAll(t)
  PROVE  TypeOK' /\ LockOK' /\ ListOK(s)'
<1>1. /\ ofm_lock = NULL /\ ofm_lock' = t /\ t # NULL /\ pc'[t] = "closeAll"
      /\ cur'[t] = firstOpenFile /\ prev'[t] = NULL /\ UNCHANGED heapVars
  BY OpenFileListAssumption DEF CloseAll, Goto, TypeOK, LockOK
<1>2. TypeOK'
  BY DEF TypeOK, CloseAll, Goto, heapVars, Sweeps
<1>3. \A steps : Doing(steps)' <=> "closeAll" \in steps
  BY <1>1 DEF Doing
<1>4. LockOK'
  <2>1. pc'[t] \in Inside /\ ~Doing(Walks \cup {"alloc_file"})'
    BY <1>1, <1>3 DEF Inside, Sweeps, Walks
  <2>2. \A u \in Threads \ {t} : pc'[u] = pc[u] /\ cur'[u] = cur[u] /\ prev'[u] = prev[u]
    BY DEF TypeOK, CloseAll, Goto
  <2>3. \A u \in Threads \ {t} :
          pc[u] \in {"idle", "lock"} /\ cur[u] = NULL /\ prev[u] = NULL
    BY <1>1, OpenFileListAssumption DEF LockOK
  <2> QED BY <1>1, <2>1, <2>2, <2>3 DEF LockOK
<1>5. /\ Top' = firstOpenFile /\ Hand' = {} /\ Owners(s)' = On(s)
      /\ \A steps : ~Doing(steps)
      /\ Top = firstOpenFile /\ Hand = {} /\ Owners(s) = On(s)
  <2>1. Top' = firstOpenFile /\ Hand' = {} /\ Owners(s)' = On(s)
    BY <1>1, <1>3 DEF Top, Hand, Owners, On, heapVars
  <2> QED BY <1>1, <2>1, Outside
<1>6. Links(s, Top)' /\ NodesOK(s)' /\ FilesOK(s)'
  BY <1>1, <1>5 DEF ListOK, Links, NodesOK, FilesOK, On, heapVars
<1>7. CountOK(s)' /\ WalkOK(s)' /\ SurgeryOK(s)'
  BY <1>1, <1>3, <1>5 DEF ListOK, CountOK, WalkOK, SurgeryOK, Walks, heapVars
<1> QED
  BY <1>2, <1>4, <1>6, <1>7 DEF ListOK

\* Where a walk stands: at an entry of the list, or behind its end.
LEMMA WalkPlace ==
  ASSUME LockOK, NEW s, ListOK(s), NEW t \in Threads, pc[t] \in Walks
  PROVE  /\ ofm_lock = t /\ ofm_lock # NULL
         /\ \A steps : Doing(steps) <=> pc[t] \in steps
         /\ arg[t] \in Paths /\ Links(s, firstOpenFile)
         /\ Top = firstOpenFile /\ Hand = {} /\ Owners(s) = On(s)
         /\ openFiles = Len(s)
         /\ \E i \in 1..(Len(s) + 1) :
              /\ cur[t] = At(s, i)
              /\ prev[t] = IF pc[t] = "close" THEN At(s, i - 1) ELSE NULL
              /\ Missed(s, i - 1)
              /\ cur[t] = NULL => i = Len(s) + 1
              /\ cur[t] # NULL => i \in 1..Len(s) /\ cur[t] = s[i]
<1>1. /\ ofm_lock = t /\ ofm_lock # NULL
      /\ \A steps : Doing(steps) <=> pc[t] \in steps
  BY Holder DEF Inside, Sweeps
<1>2. pc[t] \notin Sweeps /\ pc[t] # "alloc_file" /\ pc[t] # "free"
  BY DEF Walks, Sweeps
<1>3. Top = firstOpenFile /\ Hand = {} /\ Owners(s) = On(s)
  BY <1>1, <1>2 DEF Top, Hand, Owners, Sweeps
<1>4. Links(s, firstOpenFile) /\ openFiles = Len(s)
  <2>1. Len(s) \in Nat
    BY LinksEntries DEF ListOK
  <2> QED BY <1>1, <1>2, <1>3, <2>1 DEF ListOK, CountOK
<1>5. arg[t] \in Paths
  BY <1>1 DEF LockOK
<1>6. PICK i \in 1..(Len(s) + 1) :
        /\ cur[t] = At(s, i)
        /\ prev[t] = IF pc[t] = "close" THEN At(s, i - 1) ELSE NULL
        /\ Missed(s, i - 1)
  BY <1>1 DEF ListOK, WalkOK
<1>7. /\ cur[t] = NULL => i = Len(s) + 1
      /\ cur[t] # NULL => i \in 1..Len(s) /\ cur[t] = s[i]
  <2>1. Len(s) \in Nat /\ \A j \in 1..Len(s) : s[j] # NULL
    BY <1>4, LinksEntries, OpenFileListAssumption
  <2> QED BY <1>6, <2>1 DEF At
<1> QED
  BY <1>1, <1>3, <1>4, <1>5, <1>6, <1>7

\* A listed node has a path, a successor and an allocated file.
LEMMA ListedNode ==
  ASSUME TypeOK, NEW s, ListOK(s), NEW n \in Owners(s), n \in Nodes, node[n] # NULL
  PROVE  /\ node[n].path \in Paths /\ node[n].next \in Nodes \cup {NULL}
         /\ node[n].file \in Files /\ file[node[n].file] # NULL
         /\ file[node[n].file].blobID \in Blobs
         /\ file[node[n].file].memory \in Blobs \cup {NULL}
         /\ file[node[n].file].referenceCount \in 1..MaxRefs
<1>1. node[n].file \in Files /\ file[node[n].file] # NULL
  BY DEF ListOK, FilesOK
<1>2. node[n].path \in Paths /\ node[n].next \in Nodes \cup {NULL}
  BY DEF TypeOK, OpenFileList_t
<1> QED
  BY <1>1, <1>2 DEF TypeOK, FileMemoryStruct_t

LEMMA WalkOnInv ==
  ASSUME TypeOK, LockOK, NEW s, ListOK(s), NEW t \in Threads, WalkOn(t)
  PROVE  TypeOK' /\ LockOK' /\ ListOK(s)'
<1>0. pc[t] \in Walks /\ cur[t] # NULL /\ ~Hit(t)
  BY DEF WalkOn
<1>1. /\ ofm_lock = t /\ ofm_lock # NULL
      /\ \A steps : Doing(steps) <=> pc[t] \in steps
      /\ Top = firstOpenFile /\ Hand = {} /\ Owners(s) = On(s)
  BY <1>0, WalkPlace
<1>2. PICK i \in 1..Len(s) :
        /\ cur[t] = s[i] /\ Missed(s, i - 1)
  BY <1>0, WalkPlace
<1>3. /\ s[i] \in Nodes /\ At(s, i) = s[i] /\ node[s[i]] # NULL
      /\ node[s[i]].next = At(s, i + 1) /\ Len(s) \in Nat
  BY LinksEntries DEF ListOK
<1>4. node[s[i]].next \in Nodes \cup {NULL}
  BY <1>3 DEF TypeOK, OpenFileList_t
<1>5. /\ cur'[t] = At(s, i + 1)
      /\ prev'[t] = IF pc[t] = "close" THEN At(s, i) ELSE NULL
      /\ cur' \in [Threads -> Nodes \cup {NULL}]
      /\ prev' \in [Threads -> Nodes \cup {NULL}]
      /\ \A u \in Threads \ {t} : cur'[u] = cur[u] /\ prev'[u] = prev[u]
  BY <1>2, <1>3, <1>4 DEF WalkOn, TypeOK
<1>6. UNCHANGED <<mounted, ofm_lock, firstOpenFile, openFiles, node, file, pc, arg>>
  BY DEF WalkOn, heapVars
<1>7. TypeOK'
  BY <1>5, <1>6 DEF TypeOK
<1>8. \A steps : Doing(steps)' <=> Doing(steps)
  BY <1>6 DEF Doing
<1>9. LockOK'
  BY <1>1, <1>5, <1>6, <1>8 DEF LockOK
<1>10. ~Doing(Sweeps) /\ ~Doing({"alloc_file", "free"}) /\ ~Doing({"free"})
       /\ ~Doing({"alloc_file"}) /\ ~Doing({"alloc_file", "closeAll"}) /\ ~Doing({"sweep"})
  BY <1>0, <1>1 DEF Walks, Sweeps
<1>11. Top' = firstOpenFile /\ Hand' = {} /\ Owners(s)' = On(s)
  BY <1>6, <1>8, <1>10 DEF Top, Hand, Owners, On
<1>12. Links(s, Top)' /\ NodesOK(s)' /\ FilesOK(s)' /\ CountOK(s)'
  BY <1>1, <1>6, <1>8, <1>11 DEF ListOK, Links, NodesOK, FilesOK, CountOK, On
<1>13. Missed(s, i)'
  <2>1. ~Matches(arg[t], node[s[i]].path)
    BY <1>0, <1>2 DEF Hit
  <2>2. \A j \in 1..i : j = i \/ j \in 1..(i - 1)
    OBVIOUS
  <2> QED BY <1>1, <1>2, <1>6, <2>1, <2>2 DEF Missed
<1>14. WalkOK(s)'
  <2>1. i + 1 \in 1..(Len(s) + 1) /\ (i + 1) - 1 = i
    BY <1>3
  <2>2. ofm_lock' = t /\ (Doing({"close"})' <=> pc[t] = "close")
    BY <1>1, <1>6, <1>8
  <2> QED BY <1>5, <1>13, <2>1, <2>2 DEF WalkOK
<1>15. SurgeryOK(s)'
  BY <1>6, <1>8, <1>10 DEF ListOK, SurgeryOK, BelowRefBound, Free, Sweeps
<1> QED
  BY <1>7, <1>9, <1>12, <1>14, <1>15 DEF ListOK

\* A walk that ends without changing the list or what is allocated.
LEMMA WalkReturnInv ==
  ASSUME TypeOK, LockOK, NEW s, ListOK(s), NEW t \in Threads,
         pc[t] \in Walks, Return(t),
         UNCHANGED <<mounted, firstOpenFile, openFiles, node>>,
         FileType', \A f \in Files : file'[f] # NULL <=> file[f] # NULL
  PROVE  TypeOK' /\ LockOK' /\ ListOK(s)'
<1>1. /\ Links(s, firstOpenFile) /\ Hand = {} /\ Owners(s) = On(s) /\ openFiles = Len(s)
  BY WalkPlace
<1>2. /\ LockOK' /\ ofm_lock' = NULL
      /\ pc' \in [Threads -> Walks \cup Sweeps \cup {"idle", "lock", "alloc_file", "free"}]
      /\ arg' \in [Threads -> Paths \cup {NULL}]
      /\ cur' \in [Threads -> Nodes \cup {NULL}]
      /\ prev' \in [Threads -> Nodes \cup {NULL}]
  BY ReturnLock DEF Inside, Sweeps
<1>3. TypeOK'
  BY <1>2 DEF TypeOK, FileType
<1>4. Links(s, firstOpenFile)'
  BY <1>1 DEF Links
<1>5. /\ \A n \in Nodes : node'[n] # NULL <=> n \in On(s)
      /\ \A n \in On(s) : node'[n].file \in Files
      /\ \A m, n \in On(s) : node'[m].file = node'[n].file => m = n
      /\ \A f \in Files : file'[f] # NULL <=> \E n \in On(s) : node'[n].file = f
      /\ openFiles' = Len(s)
  BY <1>1 DEF ListOK, NodesOK, FilesOK
<1> QED
  BY <1>2, <1>3, <1>4, <1>5, ReturnList

LEMMA WalkEndInv ==
  ASSUME TypeOK, LockOK, NEW s, ListOK(s), NEW t \in Threads, WalkEnd(t)
  PROVE  TypeOK' /\ LockOK' /\ ListOK(s)'
<1>1. /\ pc[t] \in Walks /\ Return(t)
      /\ UNCHANGED <<mounted, firstOpenFile, openFiles, node, file>>
  BY DEF WalkEnd, Walks, heapVars
<1>2. FileType'
  BY <1>1 DEF TypeOK, FileType
<1> QED
  BY <1>1, <1>2, WalkReturnInv

LEMMA AllocNodeFailsInv ==
  ASSUME TypeOK, LockOK, NEW s, ListOK(s), NEW t \in Threads, AllocNodeFails(t)
  PROVE  TypeOK' /\ LockOK' /\ ListOK(s)'
<1>1. /\ pc[t] \in Walks /\ Return(t)
      /\ UNCHANGED <<mounted, firstOpenFile, openFiles, node, file>>
  BY DEF AllocNodeFails, Walks, heapVars
<1>2. FileType'
  BY <1>1 DEF TypeOK, FileType
<1> QED
  BY <1>1, <1>2, WalkReturnInv

\* The entry a walk has hit.
LEMMA HitNode ==
  ASSUME TypeOK, LockOK, NEW s, ListOK(s), NEW t \in Threads, pc[t] \in Walks, Hit(t)
  PROVE  /\ cur[t] \in On(s) /\ cur[t] \in Nodes /\ node[cur[t]] # NULL
         /\ node[cur[t]].file \in Files /\ file[node[cur[t]].file] # NULL
         /\ file[node[cur[t]].file].blobID \in Blobs
         /\ file[node[cur[t]].file].memory \in Blobs \cup {NULL}
         /\ file[node[cur[t]].file].referenceCount \in 1..MaxRefs
<1>1. PICK i \in 1..Len(s) : cur[t] = s[i]
  BY WalkPlace DEF Hit
<1>2. cur[t] \in On(s) /\ cur[t] \in Nodes /\ node[cur[t]] # NULL
  BY <1>1, LinksEntries DEF ListOK, On
<1>3. cur[t] \in Owners(s)
  BY <1>2 DEF Owners
<1> QED
  BY <1>2, <1>3, ListedNode

LEMMA OpenAgainInv ==
  ASSUME TypeOK, LockOK, NEW s, ListOK(s), NEW t \in Threads, OpenAgain(t)
  PROVE  TypeOK' /\ LockOK' /\ ListOK(s)'
<1> DEFINE f == node[cur[t]].file
<1>1. /\ pc[t] \in Walks /\ pc[t] = "open" /\ Hit(t) /\ Return(t)
      /\ UNCHANGED <<mounted, firstOpenFile, openFiles, node>>
      /\ file' = [file EXCEPT ![f].referenceCount = @ + 1]
  BY DEF OpenAgain, Walks
<1>2. /\ f \in Files /\ file[f] # NULL /\ file[f].referenceCount \in 1..MaxRefs
  BY <1>1, HitNode
<1>3. file[f].referenceCount < MaxRefs
  <2>1. BelowRefBound
    BY <1>1, WalkPlace DEF ListOK, SurgeryOK
  <2> QED BY <1>2, <2>1 DEF BelowRefBound, Free, TypeOK
<1>4. file[f].referenceCount + 1 \in 1..MaxRefs
  BY <1>2, <1>3, OpenFileListAssumption
<1> HIDE DEF f
<1>5. FileType' /\ \A g \in Files : file'[g] # NULL <=> file[g] # NULL
  <2>1. file[f] \in FileMemoryStruct_t
    BY <1>2 DEF TypeOK
  <2>2. [file[f] EXCEPT !.referenceCount = @ + 1] \in FileMemoryStruct_t
    BY <1>4, <2>1 DEF FileMemoryStruct_t
  <2>3. [file[f] EXCEPT !.referenceCount = @ + 1] # NULL
    BY <2>2, OpenFileListAssumption
  <2>4. file' = [file EXCEPT ![f] = [file[f] EXCEPT !.referenceCount = @ + 1]]
    BY <1>1
  <2> DEFINE r == [file[f] EXCEPT !.referenceCount = @ + 1]
  <2> HIDE DEF r
  <2> QED BY <1>2, <2>2, <2>3, <2>4 DEF r, TypeOK, FileType
<1> QED
  BY <1>1, <1>5, WalkReturnInv

\* The place of a closing at the entry it has hit.
LEMMA ClosePlace ==
  ASSUME TypeOK, LockOK, NEW s, ListOK(s), NEW t \in Threads, pc[t] = "close", Hit(t)
  PROVE  \E i \in 1..Len(s) : /\ cur[t] = s[i] /\ cur[t] = At(s, i)
                              /\ prev[t] = At(s, i - 1) /\ Missed(s, i - 1)
<1>1. pc[t] \in Walks /\ cur[t] # NULL
  BY DEF Walks, Hit
<1>2. PICK i \in 1..(Len(s) + 1) :
        /\ cur[t] = At(s, i)
        /\ prev[t] = IF pc[t] = "close" THEN At(s, i - 1) ELSE NULL
        /\ Missed(s, i - 1)
        /\ i \in 1..Len(s) /\ cur[t] = s[i]
  BY <1>1, WalkPlace
<1> QED
  BY <1>2

LEMMA DropReferenceInv ==
  ASSUME TypeOK, LockOK, NEW s, ListOK(s), NEW t \in Threads, DropReference(t)
  PROVE  TypeOK' /\ LockOK' /\ ListOK(s)'
<1> DEFINE f == node[cur[t]].file
<1>1. /\ pc[t] \in Walks /\ Hit(t) /\ Return(t)
      /\ UNCHANGED <<mounted, firstOpenFile, openFiles, node>>
      /\ file[f].referenceCount > 1
      /\ file' = [file EXCEPT ![f].referenceCount = @ - 1]
  BY DEF DropReference, Walks
<1>2. /\ f \in Files /\ file[f] # NULL /\ file[f].referenceCount \in 1..MaxRefs
  BY <1>1, HitNode
<1>3. file[f].referenceCount - 1 \in 1..MaxRefs
  BY <1>1, <1>2, OpenFileListAssumption
<1> HIDE DEF f
<1>4. FileType' /\ \A g \in Files : file'[g] # NULL <=> file[g] # NULL
  <2>1. file[f] \in FileMemoryStruct_t
    BY <1>2 DEF TypeOK
  <2> DEFINE r == [file[f] EXCEPT !.referenceCount = @ - 1]
  <2>2. r \in FileMemoryStruct_t
    BY <1>3, <2>1 DEF FileMemoryStruct_t
  <2>3. r # NULL
    BY <2>2, OpenFileListAssumption
  <2>4. file' = [file EXCEPT ![f] = r]
    BY <1>1
  <2> HIDE DEF r
  <2> QED BY <1>2, <2>2, <2>3, <2>4 DEF TypeOK, FileType
<1> QED
  BY <1>1, <1>4, WalkReturnInv

-----------------------------------------------------------------------------
(* Opening                                                                 *)

\* malloc() hands out an address that is free.
LEMMA MallocIsFree ==
  ASSUME NEW heap, Free(heap) # {}
  PROVE  Malloc(heap) \in DOMAIN heap /\ heap[Malloc(heap)] = NULL
BY DEF Malloc, Free

LEMMA AllocNodeInv ==
  ASSUME TypeOK, LockOK, CleanNodes, NEW s, ListOK(s), NEW t \in Threads, AllocNode(t)
  PROVE  TypeOK' /\ LockOK' /\ ListOK(s)'
<1> DEFINE n == Malloc(node)
<1>1. /\ pc[t] = "open" /\ pc[t] \in Walks /\ cur[t] = NULL
      /\ openFiles' = openFiles + 1 /\ cur' = [cur EXCEPT ![t] = n]
      /\ pc' = [pc EXCEPT ![t] = "alloc_file"]
      /\ UNCHANGED <<mounted, ofm_lock, firstOpenFile, file, arg, prev>>
  BY DEF AllocNode, Walks, Goto
<1>2. n \in Nodes /\ node[n] = NULL
  BY MallocIsFree DEF AllocNode, TypeOK
<1>3. PICK fresh \in FreshFile :
        node' = [node EXCEPT ![n] = [path |-> arg[t], next |-> NULL, file |-> fresh]]
  BY DEF AllocNode
<1> HIDE DEF n
<1>4. /\ ofm_lock = t /\ ofm_lock # NULL
      /\ \A steps : Doing(steps) <=> pc[t] \in steps
      /\ arg[t] \in Paths /\ Links(s, firstOpenFile)
      /\ Top = firstOpenFile /\ Hand = {} /\ Owners(s) = On(s)
      /\ openFiles = Len(s)
  BY <1>1, WalkPlace
<1>5. Missed(s, Len(s)) /\ prev[t] = NULL
  <2>1. PICK i \in 1..(Len(s) + 1) :
          /\ prev[t] = IF pc[t] = "close" THEN At(s, i - 1) ELSE NULL
          /\ Missed(s, i - 1) /\ i = Len(s) + 1
    BY <1>1, WalkPlace
  <2>2. Len(s) \in Nat /\ i - 1 = Len(s)
    BY <1>4, <2>1, LinksEntries
  <2> QED BY <1>1, <2>1, <2>2
<1>6. /\ [path |-> arg[t], next |-> NULL, file |-> fresh] \in OpenFileList_t
      /\ [path |-> arg[t], next |-> NULL, file |-> fresh] # NULL
  <2>1. [path |-> arg[t], next |-> NULL, file |-> fresh] \in OpenFileList_t
    BY <1>4, OpenFileListAssumption DEF OpenFileList_t
  <2> QED BY <2>1, OpenFileListAssumption
<1>7. /\ node'[n] # NULL /\ node'[n].file = fresh /\ node'[n].path = arg[t]
      /\ \A m \in Nodes \ {n} : node'[m] = node[m]
      /\ node' \in [Nodes -> OpenFileList_t \cup {NULL}]
  <2> DEFINE r == [path |-> arg[t], next |-> NULL, file |-> fresh]
  <2>1. r.file = fresh /\ r.path = arg[t]
    OBVIOUS
  <2> HIDE DEF r
  <2> QED BY <1>2, <1>3, <1>6, <2>1 DEF r, TypeOK
<1>8. TypeOK'
  <2>1. openFiles' \in Nat
    BY <1>1 DEF TypeOK
  <2> QED BY <1>1, <1>2, <1>7, <2>1 DEF TypeOK
<1>9. \A steps : Doing(steps)' <=> "alloc_file" \in steps
  BY <1>1, <1>4 DEF Doing, TypeOK
<1>10. LockOK'
  BY <1>1, <1>4 DEF LockOK, TypeOK, Inside, Sweeps
<1>11. cur'[t] = n
  BY <1>1, <1>2 DEF TypeOK
<1>12. Top' = firstOpenFile /\ Hand' = {n} /\ Owners(s)' = On(s)
  BY <1>1, <1>4, <1>9, <1>11 DEF Top, Hand, Owners, On, Sweeps
<1>13. n \notin On(s) /\ On(s) \subseteq Nodes
  BY <1>2, <1>4, LinksEntries DEF On
<1>14. Links(s, Top)'
  <2>1. \A i \in 1..Len(s) : s[i] \in On(s)
    BY DEF On
  <2>2. \A i \in 1..Len(s) : node'[s[i]] = node[s[i]]
    BY <1>7, <1>13, <2>1
  <2> QED BY <1>4, <1>12, <2>2 DEF Links, At
<1>15. NodesOK(s)'
  BY <1>4, <1>7, <1>2, <1>12, <1>13 DEF ListOK, NodesOK, On
<1>16. FilesOK(s)'
  <2>1. \A m \in On(s) : node'[m] = node[m]
    BY <1>7, <1>13
  <2> QED BY <1>1, <1>4, <1>12, <2>1 DEF ListOK, FilesOK
<1>17. CountOK(s)'
  BY <1>1, <1>4, <1>9 DEF CountOK
<1>18. WalkOK(s)'
  BY <1>9 DEF WalkOK, Walks
<1>19. SurgeryOK(s)'
  <2>1. Missed(s, Len(s))'
    <3>1. \A j \in 1..Len(s) : node'[s[j]] = node[s[j]]
      BY <1>7, <1>13 DEF On
    <3> QED BY <1>1, <1>5, <3>1 DEF Missed
  <2>2. "file" \in Failures => node'[cur'[t]].file = NULL
    BY <1>7, <1>11 DEF CleanNodes
  <2>3. node'[cur'[t]].path = arg'[t]
    BY <1>1, <1>7, <1>11
  <2>4. BelowRefBound'
    BY <1>1, <1>4 DEF ListOK, SurgeryOK, BelowRefBound, Free
  <2> QED BY <1>1, <1>4, <1>5, <1>9, <2>1, <2>2, <2>3, <2>4 DEF SurgeryOK
<1> QED
  BY <1>8, <1>10, <1>14, <1>15, <1>16, <1>17, <1>18, <1>19 DEF ListOK

\* What an opening holds while it allocates the file.
LEMMA HandPlace ==
  ASSUME TypeOK, LockOK, NEW s, ListOK(s), NEW t \in Threads, pc[t] = "alloc_file"
  PROVE  /\ ofm_lock = t /\ ofm_lock # NULL /\ pc[t] \in Inside /\ arg[t] \in Paths
         /\ \A steps : Doing(steps) <=> pc[t] \in steps
         /\ Top = firstOpenFile /\ Links(s, firstOpenFile) /\ Owners(s) = On(s)
         /\ cur[t] \in Nodes \ On(s) /\ node[cur[t]] # NULL
         /\ node[cur[t]].path = arg[t]
         /\ \A n \in Nodes : node[n] # NULL <=> n \in On(s) \cup {cur[t]}
         /\ openFiles = Len(s) + 1
         /\ Missed(s, Len(s)) /\ BelowRefBound /\ prev[t] = NULL
         /\ "file" \in Failures => node[cur[t]].file = NULL
<1>1. /\ ofm_lock = t /\ ofm_lock # NULL /\ pc[t] \in Inside
      /\ \A steps : Doing(steps) <=> pc[t] \in steps
  BY Holder DEF Inside, Sweeps
<1>2. Top = firstOpenFile /\ Hand = {cur[t]} /\ Owners(s) = On(s)
  BY <1>1 DEF Top, Hand, Owners, Sweeps
<1>3. /\ Links(s, firstOpenFile) /\ openFiles = Len(s) + 1
      /\ \A n \in Nodes : node[n] # NULL <=> n \in On(s) \cup {cur[t]}
      /\ cur[t] \in Nodes \ On(s)
  BY <1>1, <1>2 DEF ListOK, CountOK, NodesOK
<1>4. node[cur[t]] # NULL
  BY <1>3
<1>5. /\ Missed(s, Len(s)) /\ BelowRefBound /\ prev[t] = NULL
      /\ node[cur[t]].path = arg[t]
      /\ "file" \in Failures => node[cur[t]].file = NULL
  BY <1>1 DEF ListOK, SurgeryOK
<1>6. arg[t] \in Paths
  BY <1>1 DEF LockOK
<1> QED
  BY <1>1, <1>2, <1>3, <1>4, <1>5, <1>6

\* The error path frees the node and, with a clean node, no file.
LEMMA AllocFileFailsInv ==
  ASSUME TypeOK, LockOK, NEW s, ListOK(s), NEW t \in Threads, AllocFileFails(t)
  PROVE  TypeOK' /\ LockOK' /\ ListOK(s)' /\ file' = file /\ ofm_lock' = NULL
<1> DEFINE n == cur[t]
<1>1. /\ pc[t] = "alloc_file" /\ "file" \in Failures /\ Return(t)
      /\ file' = [f \in Files |-> IF f = node[n].file THEN NULL ELSE file[f]]
      /\ node' = [node EXCEPT ![n] = NULL] /\ openFiles' = openFiles - 1
      /\ UNCHANGED <<mounted, firstOpenFile>>
  BY DEF AllocFileFails
<1>2. /\ pc[t] \in Inside /\ Links(s, firstOpenFile) /\ Owners(s) = On(s)
      /\ n \in Nodes \ On(s) /\ node[n].file = NULL
      /\ \A m \in Nodes : node[m] # NULL <=> m \in On(s) \cup {n}
      /\ openFiles = Len(s) + 1
  BY <1>1, HandPlace
<1> HIDE DEF n
<1>3. file' = file
  BY <1>1, <1>2, OpenFileListAssumption DEF TypeOK
<1>4. /\ node'[n] = NULL /\ \A m \in Nodes \ {n} : node'[m] = node[m]
      /\ node' \in [Nodes -> OpenFileList_t \cup {NULL}]
  BY <1>1, <1>2 DEF TypeOK
<1>5. /\ LockOK' /\ ofm_lock' = NULL
      /\ pc' \in [Threads -> Walks \cup Sweeps \cup {"idle", "lock", "alloc_file", "free"}]
      /\ arg' \in [Threads -> Paths \cup {NULL}]
      /\ cur' \in [Threads -> Nodes \cup {NULL}]
      /\ prev' \in [Threads -> Nodes \cup {NULL}]
  BY <1>1, <1>2, ReturnLock
<1>6. Len(s) \in Nat /\ On(s) \subseteq Nodes /\ openFiles' = Len(s)
  BY <1>1, <1>2, LinksEntries DEF On
<1>7. TypeOK'
  BY <1>1, <1>3, <1>4, <1>5, <1>6 DEF TypeOK
<1>8. \A m \in On(s) : node'[m] = node[m]
  BY <1>2, <1>4, <1>6
<1>9. Links(s, firstOpenFile)'
  <2>1. \A i \in 1..Len(s) : node'[s[i]] = node[s[i]]
    BY <1>8 DEF On
  <2> QED BY <1>1, <1>2, <2>1 DEF Links
<1>10. /\ \A m \in Nodes : node'[m] # NULL <=> m \in On(s)
       /\ \A m \in On(s) : node'[m].file \in Files
       /\ \A l, m \in On(s) : node'[l].file = node'[m].file => l = m
       /\ \A f \in Files : file'[f] # NULL <=> \E m \in On(s) : node'[m].file = f
  BY <1>2, <1>3, <1>4, <1>8 DEF ListOK, FilesOK
<1> QED
  BY <1>3, <1>5, <1>6, <1>7, <1>9, <1>10, ReturnList

\* The new node is linked in front of the list and owns the new file.
LEMMA AllocFileInv ==
  ASSUME TypeOK, LockOK, NEW s, ListOK(s),
         NEW t \in Threads, NEW b \in Blobs, AllocFile(t, b),
         NEW n, n = cur[t]
  PROVE  /\ TypeOK' /\ LockOK' /\ ListOK(<<n>> \o s)' /\ ofm_lock' = NULL
         /\ n \in Nodes \ On(s) /\ node'[n].path = arg[t]
         /\ \A m \in On(s) : node'[m] = node[m]
         /\ \E f \in Files :
              /\ file[f] = NULL /\ node'[n].file = f
              /\ file'[f] = [blobID |-> b, memory |-> NULL, referenceCount |-> 1]
              /\ \A h \in Files \ {f} : file'[h] = file[h]
<1> DEFINE g == Malloc(file)
           c == <<n>> \o s
           r == [blobID |-> b, memory |-> NULL, referenceCount |-> 1]
           q == [node[n] EXCEPT !.file = g, !.next = firstOpenFile]
<1>1. /\ pc[t] = "alloc_file" /\ Return(t) /\ firstOpenFile' = n
      /\ file' = [file EXCEPT ![g] = r]
      /\ node' = [node EXCEPT ![n].file = g, ![n].next = firstOpenFile]
      /\ UNCHANGED <<mounted, openFiles>>
  BY DEF AllocFile
<1>2. /\ pc[t] \in Inside /\ Links(s, firstOpenFile) /\ Owners(s) = On(s)
      /\ n \in Nodes \ On(s) /\ node[n] # NULL
      /\ \A m \in Nodes : node[m] # NULL <=> m \in On(s) \cup {n}
      /\ openFiles = Len(s) + 1 /\ node[n].path = arg[t]
  BY <1>1, HandPlace
<1>3. g \in Files /\ file[g] = NULL
  BY MallocIsFree DEF AllocFile, TypeOK
<1> HIDE DEF g
<1>4. r \in FileMemoryStruct_t /\ r # NULL
  <2>1. r \in FileMemoryStruct_t
    BY OpenFileListAssumption DEF FileMemoryStruct_t
  <2> QED BY <2>1, OpenFileListAssumption
<1>5. /\ q \in OpenFileList_t /\ q # NULL /\ q.file = g /\ q.next = firstOpenFile
      /\ q.path = node[n].path
  <2>1. node[n] \in OpenFileList_t /\ firstOpenFile \in Nodes \cup {NULL}
    BY <1>2 DEF TypeOK
  <2>2. /\ q \in OpenFileList_t /\ q.file = g /\ q.next = firstOpenFile
        /\ q.path = node[n].path
    BY <1>3, <2>1 DEF OpenFileList_t
  <2> QED BY <2>2, OpenFileListAssumption
<1>6. node' = [node EXCEPT ![n] = q]
  BY <1>1, <1>2 DEF TypeOK
<1> HIDE DEF r, q
<1>7. /\ file'[g] = r /\ \A f \in Files \ {g} : file'[f] = file[f]
      /\ file' \in [Files -> FileMemoryStruct_t \cup {NULL}]
  BY <1>1, <1>3, <1>4 DEF TypeOK
<1>8. /\ node'[n] = q /\ \A m \in Nodes \ {n} : node'[m] = node[m]
      /\ node' \in [Nodes -> OpenFileList_t \cup {NULL}]
  BY <1>2, <1>5, <1>6 DEF TypeOK
<1>9. /\ LockOK' /\ ofm_lock' = NULL
      /\ pc' \in [Threads -> Walks \cup Sweeps \cup {"idle", "lock", "alloc_file", "free"}]
      /\ arg' \in [Threads -> Paths \cup {NULL}]
      /\ cur' \in [Threads -> Nodes \cup {NULL}]
      /\ prev' \in [Threads -> Nodes \cup {NULL}]
  BY <1>1, <1>2, ReturnLock
<1>10. TypeOK'
  BY <1>1, <1>2, <1>7, <1>8, <1>9 DEF TypeOK
<1>11. s \in Seq(Nodes) /\ Len(s) \in Nat
  BY <1>2, LinksEntries
<1>12. /\ c \in Seq(Nodes) /\ Len(c) = Len(s) + 1 /\ c[1] = n
       /\ \A i \in 1..Len(s) : c[i + 1] = s[i]
       /\ \A i \in 1..(Len(s) + 1) : i # 1 => i - 1 \in 1..Len(s) /\ c[i] = s[i - 1]
       /\ On(c) = On(s) \cup {n}
  BY <1>2, <1>11, FirstProperties
<1> HIDE DEF c
<1>13. /\ On(s) \subseteq Nodes /\ \A i \in 1..Len(s) : s[i] \in On(s)
       /\ \A m \in On(s) : node'[m] = node[m]
  BY <1>2, <1>8, LinksEntries DEF On
<1>14. Links(c, firstOpenFile)'
  <2>1. \A i, j \in 1..Len(c) : c[i] = c[j] => i = j
    <3> SUFFICES ASSUME NEW i \in 1..Len(c), NEW j \in 1..Len(c), c[i] = c[j]
                 PROVE  i = j
      OBVIOUS
    <3>1. CASE i = 1 /\ j # 1
      BY <1>2, <1>12, <1>13, <3>1
    <3>2. CASE i # 1 /\ j = 1
      BY <1>2, <1>12, <1>13, <3>2
    <3>3. CASE i # 1 /\ j # 1
      <4>1. /\ i - 1 \in 1..Len(s) /\ c[i] = s[i - 1]
            /\ j - 1 \in 1..Len(s) /\ c[j] = s[j - 1]
        BY <1>12, <3>3
      <4>2. i - 1 = j - 1
        BY <1>2, <4>1 DEF Links
      <4> QED BY <4>2
    <3> QED BY <3>1, <3>2, <3>3
  <2>2. firstOpenFile' = At(c, 1)
    BY <1>1, <1>11, <1>12 DEF At
  <2>3. ASSUME NEW i \in 1..Len(c)
        PROVE  node'[c[i]] # NULL /\ node'[c[i]].next = At(c, i + 1)
    <3>1. CASE i = 1
      <4>1. node'[c[i]] = q
        BY <1>8, <1>12, <3>1
      <4>2. firstOpenFile = At(s, 1)
        BY <1>2 DEF Links
      <4>3. At(c, 2) = At(s, 1)
        BY <1>11, <1>12 DEF At
      <4> QED BY <1>5, <3>1, <4>1, <4>2, <4>3
    <3>2. CASE i # 1
      <4>1. i - 1 \in 1..Len(s) /\ c[i] = s[i - 1]
        BY <1>12, <3>2
      <4>2. node[s[i - 1]] # NULL /\ node[s[i - 1]].next = At(s, (i - 1) + 1)
        BY <1>2, <4>1 DEF Links
      <4>3. At(c, i + 1) = At(s, (i - 1) + 1)
        BY <1>11, <1>12, <4>1 DEF At
      <4> QED BY <1>13, <4>1, <4>2, <4>3
    <3> QED BY <3>1, <3>2
  <2> QED BY <1>12, <2>1, <2>2, <2>3 DEF Links, At
<1>15. \A m \in Nodes : node'[m] # NULL <=> m \in On(c)
  BY <1>2, <1>5, <1>8, <1>12
<1>16. /\ \A m \in On(s) : node[m].file \in Files /\ node[m].file # g
       /\ \A l, m \in On(s) : node[l].file = node[m].file => l = m
       /\ \A f \in Files : file[f] # NULL <=> \E m \in On(s) : node[m].file = f
  BY <1>2, <1>3 DEF ListOK, FilesOK
<1>17. node'[n].file = g
  BY <1>5, <1>8
<1>18. /\ \A m \in On(c) : node'[m].file \in Files
       /\ \A l, m \in On(c) : node'[l].file = node'[m].file => l = m
  BY <1>3, <1>12, <1>13, <1>16, <1>17
<1>19. \A f \in Files : file'[f] # NULL <=> \E m \in On(c) : node'[m].file = f
  <2>1. \E m \in On(c) : node'[m].file = g
    BY <1>12, <1>17
  <2>2. ASSUME NEW f \in Files, f # g
        PROVE  file'[f] # NULL <=> \E m \in On(c) : node'[m].file = f
    <3>1. file'[f] = file[f]
      BY <1>7, <2>2
    <3>2. \A m \in On(c) : node'[m].file = f => m \in On(s) /\ node[m].file = f
      BY <1>12, <1>13, <1>17, <2>2
    <3>3. \A m \in On(s) : node[m].file = f => m \in On(c) /\ node'[m].file = f
      BY <1>12, <1>13
    <3> QED BY <1>16, <3>1, <3>2, <3>3
  <2> QED BY <1>4, <1>7, <2>1, <2>2
<1>20. openFiles' = Len(c)
  BY <1>1, <1>2, <1>12
<1>21. ListOK(c)'
  BY <1>9, <1>14, <1>15, <1>18, <1>19, <1>20, ReturnList
<1>22. node'[n].path = arg[t]
  BY <1>2, <1>5, <1>8
<1> QED
  BY <1>2, <1>3, <1>7, <1>9, <1>10, <1>13, <1>17, <1>21, <1>22 DEF c, r

-----------------------------------------------------------------------------
(* Closing                                                                 *)

\* Leaving out an entry keeps the links, when the entry before it takes over
\* its successor.
LEMMA LinksWithout ==
  ASSUME NEW s, NEW n, Links(s, n), NEW i \in 1..Len(s), NEW w, w = Without(s, i),
         \A j \in 1..Len(s) : j # i =>
           /\ node'[s[j]] # NULL
           /\ node'[s[j]].next = IF j = i - 1 THEN At(s, i + 1) ELSE node[s[j]].next
  PROVE  Links(w, IF i = 1 THEN At(s, 2) ELSE n)'
<1> DEFINE len == Len(s) - 1
<1>1. /\ s \in Seq(Nodes) /\ Len(s) \in Nat /\ len \in Nat /\ Len(s) = len + 1 /\ i \in 1..(len + 1)
  BY LinksEntries
<1>2. /\ w \in Seq(Nodes) /\ Len(w) = len
      /\ \A j \in 1..len : w[j] = IF j < i THEN s[j] ELSE s[j + 1]
      /\ \A j, k \in 1..len : w[j] = w[k] => j = k
  <2>1. /\ w \in Seq(Nodes) /\ Len(w) = Len(s) - 1
        /\ \A j \in 1..(Len(s) - 1) : w[j] = IF j < i THEN s[j] ELSE s[j + 1]
    BY <1>1, WithoutProperties
  <2>2. \A j, k \in 1..Len(s) : s[j] = s[k] => j = k
    BY DEF Links
  <2>3. \A j, k \in 1..(Len(s) - 1) : w[j] = w[k] => j = k
    BY <1>1, <2>2, WithoutElements
  <2> QED BY <2>1, <2>3
<1> HIDE DEF len
<1>3. \A j \in 1..len : w[j] = IF j < i THEN At(s, j) ELSE At(s, j + 1)
  BY <1>1, <1>2 DEF At
<1>4. At(w, 1) = IF i = 1 THEN At(s, 2) ELSE n
  <2>1. n = At(s, 1)
    BY DEF Links
  <2>2. CASE len = 0
    BY <1>1, <1>2, <2>1, <2>2 DEF At
  <2>3. CASE len # 0
    <3>1. 1 \in 1..len
      BY <1>1, <2>3
    <3> QED BY <1>1, <1>2, <1>3, <2>1, <3>1 DEF At
  <2> QED BY <2>2, <2>3
<1>5. ASSUME NEW j \in 1..len
      PROVE  node'[w[j]] # NULL /\ node'[w[j]].next = At(w, j + 1)
  <2>1. CASE j < i
    <3>1. j \in 1..Len(s) /\ j # i /\ w[j] = s[j]
      BY <1>1, <1>2, <2>1
    <3>2. CASE j = i - 1
      <4>1. node'[s[j]] # NULL /\ node'[s[j]].next = At(s, i + 1)
        BY <3>1, <3>2
      <4>2. At(w, j + 1) = At(s, i + 1)
        <5>1. CASE i \in 1..len
          <6>1. j + 1 = i /\ w[i] = s[i + 1] /\ i + 1 \in 1..Len(s)
            BY <1>1, <1>2, <3>2, <5>1
          <6> QED BY <1>2, <5>1, <6>1 DEF At
        <5>2. CASE i \notin 1..len
          <6>1. j + 1 = i /\ i + 1 \notin 1..Len(s)
            BY <1>1, <3>2, <5>2
          <6> QED BY <1>2, <5>2, <6>1 DEF At
        <5> QED BY <5>1, <5>2
      <4> QED BY <3>1, <4>1, <4>2
    <3>3. CASE j # i - 1
      <4>1. node'[s[j]] # NULL /\ node'[s[j]].next = At(s, j + 1)
        BY <3>1, <3>3, LinksEntries
      <4>2. j + 1 \in 1..len /\ j + 1 < i /\ j + 1 \in 1..Len(s)
        BY <1>1, <2>1, <3>3
      <4>3. At(w, j + 1) = At(s, j + 1)
        BY <1>2, <4>2 DEF At
      <4> QED BY <3>1, <4>1, <4>3
    <3> QED BY <3>2, <3>3
  <2>2. CASE ~(j < i)
    <3>1. /\ j + 1 \in 1..Len(s) /\ j + 1 # i /\ j + 1 # i - 1 /\ w[j] = s[j + 1]
      BY <1>1, <1>2, <2>2
    <3>2. node'[s[j + 1]] # NULL /\ node'[s[j + 1]].next = At(s, (j + 1) + 1)
      BY <3>1, LinksEntries
    <3>3. At(w, j + 1) = At(s, (j + 1) + 1)
      <4>1. CASE j + 1 \in 1..len
        <5>1. w[j + 1] = s[(j + 1) + 1] /\ (j + 1) + 1 \in 1..Len(s)
          BY <1>1, <1>2, <2>2, <4>1
        <5> QED BY <1>2, <4>1, <5>1 DEF At
      <4>2. CASE j + 1 \notin 1..len
        <5>1. (j + 1) + 1 \notin 1..Len(s)
          BY <1>1, <4>2
        <5> QED BY <1>2, <4>2, <5>1 DEF At
      <4> QED BY <4>1, <4>2
    <3> QED BY <3>1, <3>2, <3>3
  <2> QED BY <2>1, <2>2
<1> QED
  BY <1>2, <1>4, <1>5 DEF Links, At

\* The context leaves the list; its node and its file are about to be freed.
LEMMA UnlinkInv ==
  ASSUME TypeOK, LockOK, NEW s, ListOK(s), NEW t \in Threads, Unlink(t),
         NEW i \in 1..Len(s), cur[t] = s[i], prev[t] = At(s, i - 1),
         NEW w, w = Without(s, i)
  PROVE  /\ TypeOK' /\ LockOK' /\ ListOK(w)' /\ ~Doing(Sweeps)'
         /\ \A n \in On(s) : node'[n].file = node[n].file /\ node'[n].path = node[n].path
<1> DEFINE n == s[i]
<1>1. /\ pc[t] = "close" /\ pc[t] \in Walks /\ Hit(t)
      /\ openFiles' = openFiles - 1 /\ pc' = [pc EXCEPT ![t] = "free"]
      /\ UNCHANGED <<mounted, ofm_lock, file, arg, cur, prev>>
      /\ IF prev[t] = NULL
           THEN firstOpenFile' = node[cur[t]].next /\ node' = node
           ELSE /\ node' = [node EXCEPT ![prev[t]].next = node[cur[t]].next]
                /\ firstOpenFile' = firstOpenFile
  BY DEF Unlink, Walks, Goto
<1>2. /\ ofm_lock = t /\ ofm_lock # NULL
      /\ \A steps : Doing(steps) <=> pc[t] \in steps
      /\ Links(s, firstOpenFile)
      /\ Hand = {} /\ Owners(s) = On(s) /\ openFiles = Len(s)
  BY <1>1, WalkPlace
<1>3. /\ s \in Seq(Nodes) /\ Len(s) \in Nat
      /\ \A j \in 1..Len(s) : /\ s[j] \in Nodes /\ At(s, j) = s[j] /\ node[s[j]] # NULL
                              /\ node[s[j]].next = At(s, j + 1)
      /\ \A j, k \in 1..Len(s) : s[j] = s[k] => j = k
  BY <1>2, LinksEntries DEF Links
<1>4. n \in Nodes /\ n # NULL /\ node[n].next = At(s, i + 1) /\ At(s, i + 1) \in Nodes \cup {NULL}
  BY <1>3, OpenFileListAssumption DEF At
<1>5. /\ w \in Seq(Nodes) /\ Len(w) = Len(s) - 1 /\ On(w) = On(s) \ {n}
      /\ \A j, k \in 1..(Len(s) - 1) : w[j] = w[k] => j = k
  <2>1. w \in Seq(Nodes) /\ Len(w) = Len(s) - 1
    BY <1>3, WithoutProperties
  <2>2. s \in Seq(Nodes) /\ \A j, k \in 1..Len(s) : s[j] = s[k] => j = k
    BY <1>3
  <2>3. /\ On(w) = On(s) \ {n}
        /\ \A j, k \in 1..(Len(s) - 1) : w[j] = w[k] => j = k
    BY <2>2, WithoutElements
  <2> QED BY <2>1, <2>3
<1>6. /\ firstOpenFile' = IF i = 1 THEN At(s, 2) ELSE firstOpenFile
      /\ i = 1 => node' = node
      /\ i # 1 => /\ i - 1 \in 1..Len(s)
                  /\ node' = [node EXCEPT ![s[i - 1]].next = At(s, i + 1)]
  <2>1. CASE i = 1
    <3>1. prev[t] = NULL
      BY <2>1 DEF At
    <3> QED BY <1>1, <1>4, <2>1, <3>1
  <2>2. CASE i # 1
    <3>1. i - 1 \in 1..Len(s) /\ prev[t] = s[i - 1]
      BY <1>3, <2>2
    <3>2. prev[t] # NULL
      BY <1>3, <3>1, OpenFileListAssumption
    <3> QED BY <1>1, <1>4, <2>2, <3>1, <3>2
  <2> QED BY <2>1, <2>2
<1>7. /\ node' \in [Nodes -> OpenFileList_t \cup {NULL}]
      /\ \A m \in Nodes : (node'[m] # NULL <=> node[m] # NULL)
                          /\ (node[m] # NULL => node'[m].file = node[m].file
                                                /\ node'[m].path = node[m].path)
      /\ \A j \in 1..Len(s) : j # i =>
           node'[s[j]].next = IF j = i - 1 THEN At(s, i + 1) ELSE node[s[j]].next
  <2>1. CASE i = 1
    <3>1. \A j \in 1..Len(s) : j # i - 1
      BY <2>1
    <3> QED BY <1>6, <2>1, <3>1 DEF TypeOK
  <2>2. CASE i # 1
    <3> DEFINE p == s[i - 1]
               q == [node[p] EXCEPT !.next = At(s, i + 1)]
    <3>1. p \in Nodes /\ node[p] # NULL /\ node[p] \in OpenFileList_t
      BY <1>3, <1>6, <2>2 DEF TypeOK
    <3>2. /\ q \in OpenFileList_t /\ q.next = At(s, i + 1)
          /\ q.file = node[p].file /\ q.path = node[p].path
      BY <1>4, <3>1 DEF OpenFileList_t
    <3>3. q # NULL
      BY <3>2, OpenFileListAssumption
    <3>4. node' = [node EXCEPT ![p] = q]
      BY <1>6, <2>2
    <3>5. \A j \in 1..Len(s) : s[j] = p <=> j = i - 1
      BY <1>3, <1>6, <2>2
    <3> HIDE DEF p, q
    <3>6. node'[p] = q /\ \A m \in Nodes \ {p} : node'[m] = node[m]
      BY <3>1, <3>4 DEF TypeOK
    <3>7. node' \in [Nodes -> OpenFileList_t \cup {NULL}]
      BY <3>1, <3>2, <3>4 DEF TypeOK
    <3>8. \A m \in Nodes : (node'[m] # NULL <=> node[m] # NULL)
                           /\ (node[m] # NULL => node'[m].file = node[m].file
                                                 /\ node'[m].path = node[m].path)
      BY <3>1, <3>2, <3>3, <3>6
    <3>9. \A j \in 1..Len(s) : j # i =>
            node'[s[j]].next = IF j = i - 1 THEN At(s, i + 1) ELSE node[s[j]].next
      BY <1>3, <3>2, <3>5, <3>6
    <3> QED BY <3>7, <3>8, <3>9
  <2> QED BY <2>1, <2>2
<1>8. \A steps : Doing(steps)' <=> "free" \in steps
  BY <1>1, <1>2 DEF Doing, TypeOK
<1>9. TypeOK'
  <2>1. openFiles' \in Nat
    BY <1>1, <1>2, <1>3
  <2>2. firstOpenFile' \in Nodes \cup {NULL}
    BY <1>4, <1>6 DEF TypeOK
  <2> QED BY <1>1, <1>7, <2>1, <2>2 DEF TypeOK
<1>10. LockOK'
  <2>1. ~Doing(Walks \cup {"alloc_file"})'
    BY <1>8 DEF Walks
  <2> QED BY <1>1, <1>2, <2>1 DEF LockOK, TypeOK, Inside, Sweeps
<1>11. /\ Top' = firstOpenFile' /\ Hand' = {n} /\ Owners(w)' = On(s)
  <2>1. Top' = firstOpenFile'
    BY <1>8 DEF Top, Sweeps
  <2>2. Hand' = {n} /\ Owners(w)' = On(w) \cup {n}
    BY <1>1, <1>2, <1>8 DEF Hand, Owners, On
  <2>3. n \in On(s)
    BY DEF On
  <2> QED BY <1>5, <2>1, <2>2, <2>3
<1>12. Links(w, Top)'
  <2>1. \A j \in 1..Len(s) : j # i =>
          /\ node'[s[j]] # NULL
          /\ node'[s[j]].next = IF j = i - 1 THEN At(s, i + 1) ELSE node[s[j]].next
    BY <1>3, <1>7
  <2>2. PICK h : h = firstOpenFile
    OBVIOUS
  <2>3. Links(w, IF i = 1 THEN At(s, 2) ELSE h)'
    BY <1>2, <2>1, <2>2, LinksWithout
  <2> QED BY <1>6, <1>11, <2>2, <2>3 DEF Links, At
<1>13. \A m \in On(s) : m \in Nodes /\ node[m] # NULL
  <2>1. \A j \in 1..Len(s) : s[j] \in Nodes /\ node[s[j]] # NULL
    BY <1>3
  <2> QED BY <2>1 DEF On
<1>14. NodesOK(w)'
  <2>1. \A m \in Nodes : node[m] # NULL <=> m \in On(s)
    BY <1>2 DEF ListOK, NodesOK
  <2>2. n \in On(s)
    BY DEF On
  <2> HIDE DEF n
  <2>3. On(w)' = On(s) \ {n}
    BY <1>5 DEF On
  <2> QED BY <1>4, <1>7, <1>11, <2>1, <2>2, <2>3 DEF NodesOK
<1>15. FilesOK(w)'
  <2>1. /\ \A m \in On(s) : node[m].file \in Files
        /\ \A l, m \in On(s) : node[l].file = node[m].file => l = m
        /\ \A f \in Files : file[f] # NULL <=> \E m \in On(s) : node[m].file = f
    BY <1>2 DEF ListOK, FilesOK
  <2>2. \A m \in On(s) : node'[m].file = node[m].file
    BY <1>7, <1>13
  <2> QED BY <1>1, <1>11, <2>1, <2>2 DEF FilesOK
<1>16. CountOK(w)'
  BY <1>1, <1>2, <1>3, <1>5, <1>8 DEF CountOK
<1>17. WalkOK(w)'
  BY <1>8 DEF WalkOK, Walks
<1>18. SurgeryOK(w)'
  <2>1. prev[t] \in On(w) \cup {NULL}
    <3>1. CASE i = 1
      BY <3>1 DEF At
    <3>2. CASE i # 1
      <4>1. i - 1 \in 1..Len(s) /\ s[i - 1] # n
        BY <1>3, <3>2
      <4>2. At(s, i - 1) = s[i - 1] /\ s[i - 1] \in On(s)
        BY <4>1 DEF At, On
      <4> QED BY <1>5, <4>1, <4>2
    <3> QED BY <3>1, <3>2
  <2>2. prev'[ofm_lock'] \in On(w)' \cup {NULL}
    BY <1>1, <1>2, <2>1 DEF On
  <2> QED BY <1>8, <2>2 DEF SurgeryOK
<1>19. \A m \in On(s) : node'[m].file = node[m].file /\ node'[m].path = node[m].path
  BY <1>7, <1>13
<1> QED
  BY <1>8, <1>9, <1>10, <1>12, <1>14, <1>15, <1>16, <1>17, <1>18, <1>19 DEF ListOK, Sweeps

\* FREE(file) and FREE(node) leave the list alone.
LEMMA FreeUnlinkedInv ==
  ASSUME TypeOK, LockOK, NEW s, ListOK(s), NEW t \in Threads, FreeUnlinked(t)
  PROVE  /\ TypeOK' /\ LockOK' /\ ListOK(s)' /\ ofm_lock' = NULL
         /\ \A n \in On(s) : /\ node'[n] = node[n]
                             /\ file'[node[n].file] = file[node[n].file]
<1> DEFINE n == cur[t]
           g == node[n].file
<1>1. /\ pc[t] = "free" /\ pc[t] \in Inside /\ Return(t)
      /\ file' = [file EXCEPT ![g] = NULL] /\ node' = [node EXCEPT ![n] = NULL]
      /\ UNCHANGED <<mounted, firstOpenFile, openFiles>>
  BY DEF FreeUnlinked, FreeCurrent, Inside, Sweeps
<1>2. ofm_lock = t /\ ofm_lock # NULL /\ \A steps : Doing(steps) <=> pc[t] \in steps
  BY <1>1, Holder
<1>3. Top = firstOpenFile /\ Hand = {n} /\ Owners(s) = On(s) \cup {n}
  BY <1>1, <1>2 DEF Top, Hand, Owners, Sweeps
<1> HIDE DEF n
<1>4. /\ Links(s, firstOpenFile) /\ n \in Nodes \ On(s)
      /\ \A m \in Nodes : node[m] # NULL <=> m \in On(s) \cup {n}
      /\ openFiles = Len(s)
  <2>1. Len(s) \in Nat
    BY LinksEntries DEF ListOK
  <2> QED BY <1>1, <1>2, <1>3, <2>1 DEF ListOK, NodesOK, CountOK
<1>5. /\ \A m \in On(s) \cup {n} : node[m].file \in Files
      /\ \A l, m \in On(s) \cup {n} : node[l].file = node[m].file => l = m
      /\ \A f \in Files : file[f] # NULL <=> \E m \in On(s) \cup {n} : node[m].file = f
  BY <1>3 DEF ListOK, FilesOK
<1>6. g \in Files /\ \A m \in On(s) : node[m].file # g
  BY <1>4, <1>5
<1> HIDE DEF g
<1>7. /\ file'[g] = NULL /\ \A f \in Files \ {g} : file'[f] = file[f]
      /\ file' \in [Files -> FileMemoryStruct_t \cup {NULL}]
  BY <1>1, <1>6 DEF TypeOK
<1>8. /\ node'[n] = NULL /\ \A m \in Nodes \ {n} : node'[m] = node[m]
      /\ node' \in [Nodes -> OpenFileList_t \cup {NULL}]
  BY <1>1, <1>4 DEF TypeOK
<1>9. /\ LockOK' /\ ofm_lock' = NULL
      /\ pc' \in [Threads -> Walks \cup Sweeps \cup {"idle", "lock", "alloc_file", "free"}]
      /\ arg' \in [Threads -> Paths \cup {NULL}]
      /\ cur' \in [Threads -> Nodes \cup {NULL}]
      /\ prev' \in [Threads -> Nodes \cup {NULL}]
  BY <1>1, ReturnLock
<1>10. TypeOK'
  BY <1>1, <1>7, <1>8, <1>9 DEF TypeOK
<1>11. /\ On(s) \subseteq Nodes /\ \A i \in 1..Len(s) : s[i] \in On(s)
       /\ \A m \in On(s) : node'[m] = node[m]
  BY <1>4, <1>8, LinksEntries DEF On
<1>12. Links(s, firstOpenFile)'
  <2>1. \A i \in 1..Len(s) : node'[s[i]] = node[s[i]]
    BY <1>11
  <2> QED BY <1>1, <1>4, <2>1 DEF Links
<1>13. \A m \in Nodes : node'[m] # NULL <=> m \in On(s)
  BY <1>4, <1>8
<1>14. /\ \A m \in On(s) : node'[m].file \in Files
       /\ \A l, m \in On(s) : node'[l].file = node'[m].file => l = m
  BY <1>5, <1>11
<1>15. \A f \in Files : file'[f] # NULL <=> \E m \in On(s) : node'[m].file = f
  <2>1. ~\E m \in On(s) : node'[m].file = g
    BY <1>6, <1>11
  <2>2. ASSUME NEW f \in Files, f # g
        PROVE  file'[f] # NULL <=> \E m \in On(s) : node'[m].file = f
    <3>1. \A m \in On(s) \cup {n} : node[m].file = f => m \in On(s)
      BY <2>2 DEF g
    <3> QED BY <1>5, <1>7, <1>11, <2>2, <3>1
  <2> QED BY <1>7, <2>1, <2>2
<1>16. \A m \in On(s) : file'[node[m].file] = file[node[m].file]
  BY <1>5, <1>6, <1>7
<1> QED
  BY <1>1, <1>4, <1>9, <1>10, <1>11, <1>12, <1>13, <1>14, <1>15, <1>16, ReturnList

-----------------------------------------------------------------------------
(* closeAllFiles                                                           *)

\* The sweep remembers the successor of the entry it is at.
LEMMA SweepInv ==
  ASSUME TypeOK, LockOK, NEW s, ListOK(s), NEW t \in Threads, Sweep(t)
  PROVE  TypeOK' /\ LockOK' /\ ListOK(s)' /\ Doing(Sweeps) /\ Doing(Sweeps)'
<1>1. /\ pc[t] = "closeAll" /\ pc[t] \in Inside /\ cur[t] # NULL
      /\ pc' = [pc EXCEPT ![t] = "sweep"]
      /\ prev' = [prev EXCEPT ![t] = node[cur[t]].next]
      /\ UNCHANGED <<mounted, ofm_lock, firstOpenFile, openFiles, node, file, arg, cur>>
  BY DEF Sweep, Goto, Inside, Sweeps, heapVars
<1>2. ofm_lock = t /\ ofm_lock # NULL /\ \A steps : Doing(steps) <=> pc[t] \in steps
  BY <1>1, Holder
<1>3. Top = cur[t] /\ Hand = {} /\ Owners(s) = On(s)
  BY <1>1, <1>2 DEF Top, Hand, Owners, Sweeps
<1>4. node[cur[t]].next \in Nodes \cup {NULL}
  <2>1. cur[t] = At(s, 1) /\ \A i \in 1..Len(s) : s[i] \in Nodes /\ node[s[i]] # NULL
    BY <1>3, LinksEntries DEF ListOK, Links
  <2> QED BY <1>1, <2>1 DEF At, TypeOK, OpenFileList_t
<1>5. TypeOK'
  BY <1>1, <1>4 DEF TypeOK, Sweeps
<1>6. /\ pc'[t] = "sweep" /\ prev'[t] = node[cur[t]].next
      /\ \A u \in Threads \ {t} : pc'[u] = pc[u] /\ prev'[u] = prev[u]
  BY <1>1 DEF TypeOK
<1>7. \A steps : Doing(steps)' <=> "sweep" \in steps
  BY <1>1, <1>2, <1>6 DEF Doing
<1>8. LockOK'
  <2>1. pc'[t] \in Inside /\ ~Doing(Walks \cup {"alloc_file"})'
    BY <1>6, <1>7 DEF Inside, Sweeps, Walks
  <2> QED BY <1>1, <1>2, <1>6, <2>1 DEF LockOK
<1>9. Top' = Top /\ Hand' = Hand /\ Owners(s)' = Owners(s)
  BY <1>1, <1>2, <1>3, <1>7 DEF Top, Hand, Owners, On, Sweeps
<1>10. Links(s, Top)' /\ NodesOK(s)' /\ FilesOK(s)'
  BY <1>1, <1>9 DEF ListOK, Links, NodesOK, FilesOK, On
<1>11. CountOK(s)'
  BY <1>1, <1>2, <1>7 DEF ListOK, CountOK
<1>12. WalkOK(s)' /\ SurgeryOK(s)'
  BY <1>1, <1>2, <1>6, <1>7 DEF WalkOK, SurgeryOK, Walks
<1> QED
  BY <1>1, <1>2, <1>5, <1>7, <1>8, <1>10, <1>11, <1>12 DEF ListOK, Sweeps

\* It frees that entry, the first of what is left, and goes on to the next.
LEMMA FreeSweptInv ==
  ASSUME TypeOK, LockOK, NEW s, ListOK(s), NEW t \in Threads, FreeSwept(t),
         NEW w, w = Without(s, 1)
  PROVE  TypeOK' /\ LockOK' /\ ListOK(w)' /\ Doing(Sweeps) /\ Doing(Sweeps)'
<1> DEFINE n == s[1]
           g == node[n].file
<1>0. /\ pc[t] = "sweep" /\ pc[t] \in Inside
      /\ openFiles' = openFiles - 1
      /\ file' = [file EXCEPT ![node[cur[t]].file] = NULL]
      /\ node' = [node EXCEPT ![cur[t]] = NULL]
      /\ cur' = [cur EXCEPT ![t] = prev[t]]
      /\ prev' = [prev EXCEPT ![t] = NULL]
      /\ pc' = [pc EXCEPT ![t] = "closeAll"]
      /\ UNCHANGED <<mounted, ofm_lock, firstOpenFile, arg>>
  BY DEF FreeSwept, FreeCurrent, Goto, Inside, Sweeps
<1>2. ofm_lock = t /\ ofm_lock # NULL /\ \A steps : Doing(steps) <=> pc[t] \in steps
  BY <1>0, Holder
<1>1. /\ cur[t] # NULL /\ cur' = [cur EXCEPT ![t] = node[cur[t]].next]
      /\ pc'[t] = "closeAll" /\ prev'[t] = NULL
      /\ \A u \in Threads \ {t} : pc'[u] = pc[u] /\ prev'[u] = prev[u]
  BY <1>0, <1>2 DEF ListOK, SurgeryOK, TypeOK
<1>3. Top = cur[t] /\ Hand = {} /\ Owners(s) = On(s)
  BY <1>0, <1>2 DEF Top, Hand, Owners, Sweeps
<1>4. /\ Links(s, cur[t]) /\ Len(s) \in Nat /\ openFiles = Len(s)
      /\ \A m \in Nodes : node[m] # NULL <=> m \in On(s)
  <2>1. Len(s) \in Nat
    BY LinksEntries DEF ListOK
  <2> QED BY <1>0, <1>2, <1>3, <2>1 DEF ListOK, NodesOK, CountOK
<1>5. 1 \in 1..Len(s) /\ cur[t] = n
  <2>1. cur[t] = At(s, 1)
    BY <1>4 DEF Links
  <2> QED BY <1>1, <1>4, <2>1 DEF At
<1>6. /\ s \in Seq(Nodes) /\ \A j, k \in 1..Len(s) : s[j] = s[k] => j = k
      /\ \A j \in 1..Len(s) : s[j] \in Nodes /\ node[s[j]] # NULL
                              /\ node[s[j]].next = At(s, j + 1)
  BY <1>4, LinksEntries DEF Links
<1>7. w \in Seq(Nodes) /\ Len(w) = Len(s) - 1
  BY <1>5, <1>6, WithoutProperties
<1>8. On(w) = On(s) \ {n}
  BY <1>5, <1>6, WithoutElements
<1>9. /\ \A m \in On(s) : node[m].file \in Files
      /\ \A l, m \in On(s) : node[l].file = node[m].file => l = m
      /\ \A f \in Files : file[f] # NULL <=> \E m \in On(s) : node[m].file = f
  BY <1>3 DEF ListOK, FilesOK
<1>10. n \in Nodes /\ n \in On(s) /\ node[n].next = At(s, 2) /\ At(s, 2) \in Nodes \cup {NULL}
  BY <1>5, <1>6 DEF On, At
<1>11. g \in Files /\ \A m \in On(w) : node[m].file # g
  BY <1>8, <1>9, <1>10
<1>12. \A f \in Files : f # g => \A m \in On(s) : node[m].file = f => m \in On(w)
  BY <1>8, <1>9
<1>13. \A j \in 1..Len(s) : s[j] \in On(s)
  BY DEF On
<1>14. \A j \in 1..Len(s) : j # 1 => s[j] # n
  BY <1>5, <1>6
<1>15. On(s) \subseteq Nodes
  BY <1>6 DEF On
<1>16. /\ file' = [file EXCEPT ![g] = NULL] /\ node' = [node EXCEPT ![n] = NULL]
       /\ cur' = [cur EXCEPT ![t] = At(s, 2)]
  BY <1>0, <1>1, <1>5, <1>10
<1> HIDE DEF g, n
<1>17. /\ file'[g] = NULL /\ \A f \in Files \ {g} : file'[f] = file[f]
       /\ file' \in [Files -> FileMemoryStruct_t \cup {NULL}]
  BY <1>11, <1>16 DEF TypeOK
<1>18. /\ node'[n] = NULL /\ \A m \in Nodes \ {n} : node'[m] = node[m]
       /\ node' \in [Nodes -> OpenFileList_t \cup {NULL}]
  BY <1>10, <1>16 DEF TypeOK
<1>19. TypeOK'
  <2>1. openFiles' \in Nat
    BY <1>0, <1>4, <1>5
  <2>2. cur' \in [Threads -> Nodes \cup {NULL}]
    BY <1>10, <1>16 DEF TypeOK
  <2> QED BY <1>0, <1>17, <1>18, <2>1, <2>2 DEF TypeOK, Sweeps
<1>20. \A steps : Doing(steps)' <=> "closeAll" \in steps
  BY <1>0, <1>1, <1>2 DEF Doing
<1>21. LockOK'
  <2>1. ~Doing(Walks \cup {"alloc_file"})'
    BY <1>20 DEF Walks
  <2>2. pc'[t] \in Inside
    BY <1>1 DEF Inside, Sweeps
  <2>3. \A u \in Threads \ {t} : cur'[u] = cur[u]
    BY <1>0 DEF TypeOK
  <2> QED BY <1>0, <1>1, <1>2, <2>1, <2>2, <2>3 DEF LockOK
<1>22. Top' = At(s, 2) /\ Hand' = {} /\ Owners(w)' = On(w)
  <2>1. Top' = cur'[t]
    BY <1>0, <1>2, <1>20 DEF Top, Sweeps
  <2>2. Hand' = {} /\ Owners(w)' = On(w)
    BY <1>20 DEF Hand, Owners, On
  <2> QED BY <1>16, <2>1, <2>2 DEF TypeOK
<1>23. Links(w, Top)'
  <2>1. \A j \in 1..Len(s) : j # 1 =>
          /\ node'[s[j]] # NULL
          /\ node'[s[j]].next = IF j = 1 - 1 THEN At(s, 1 + 1) ELSE node[s[j]].next
    BY <1>6, <1>14, <1>18
  <2>2. PICK h : h = cur[t]
    OBVIOUS
  <2>3. Links(w, IF 1 = 1 THEN At(s, 2) ELSE h)'
    BY <1>4, <1>5, <2>1, <2>2, LinksWithout
  <2> QED BY <1>22, <2>3 DEF Links, At
<1>24. NodesOK(w)'
  BY <1>4, <1>8, <1>10, <1>18, <1>22 DEF NodesOK, On
<1>25. FilesOK(w)'
  <2>1. \A m \in On(w) : node'[m] = node[m]
    BY <1>8, <1>15, <1>18
  <2>2. /\ \A m \in On(w) : node'[m].file \in Files
        /\ \A l, m \in On(w) : node'[l].file = node'[m].file => l = m
    BY <1>8, <1>9, <2>1
  <2>3. \A f \in Files : file'[f] # NULL <=> \E m \in On(w) : node'[m].file = f
    <3>1. ~\E m \in On(w) : node'[m].file = g
      BY <1>11, <2>1
    <3>2. ASSUME NEW f \in Files, f # g
          PROVE  file'[f] # NULL <=> \E m \in On(w) : node'[m].file = f
      BY <1>8, <1>9, <1>12, <1>17, <2>1, <3>2
    <3> QED BY <1>17, <3>1, <3>2
  <2> QED BY <1>22, <2>2, <2>3 DEF FilesOK
<1>26. CountOK(w)'
  BY <1>0, <1>4, <1>7, <1>20 DEF CountOK
<1>27. WalkOK(w)'
  BY <1>20 DEF WalkOK, Walks
<1>28. SurgeryOK(w)'
  BY <1>0, <1>1, <1>2, <1>20 DEF SurgeryOK
<1> QED
  BY <1>0, <1>2, <1>19, <1>20, <1>21, <1>23, <1>24, <1>25, <1>26, <1>27, <1>28
  DEF ListOK, Sweeps

\* Behind its last entry nothing of the list is left.
LEMMA SweepEndInv ==
  ASSUME TypeOK, LockOK, NEW s, ListOK(s), NEW t \in Threads, SweepEnd(t)
  PROVE  TypeOK' /\ LockOK' /\ ListOK(<< >>)' /\ Doing(Sweeps) /\ ofm_lock' = NULL
<1>1. /\ pc[t] = "closeAll" /\ pc[t] \in Inside /\ cur[t] = NULL
      /\ firstOpenFile' = NULL /\ Return(t)
      /\ UNCHANGED <<mounted, openFiles, node, file>>
  BY DEF SweepEnd, Inside, Sweeps
<1>2. ofm_lock = t /\ ofm_lock # NULL /\ \A steps : Doing(steps) <=> pc[t] \in steps
  BY <1>1, Holder
<1>3. Top = cur[t] /\ Hand = {} /\ Owners(s) = On(s)
  BY <1>1, <1>2 DEF Top, Hand, Owners, Sweeps
<1>4. s = << >> /\ On(s) = {}
  <2>1. /\ s \in Seq(Nodes) /\ Len(s) \in Nat /\ NULL = At(s, 1)
        /\ \A i \in 1..Len(s) : s[i] \in Nodes
    BY <1>1, <1>3, LinksEntries DEF ListOK, Links
  <2>2. 1 \notin 1..Len(s)
    BY <2>1, OpenFileListAssumption DEF At
  <2>3. Len(s) = 0
    BY <2>1, <2>2
  <2> QED BY <2>1, <2>3 DEF On
<1>5. /\ \A n \in Nodes : node[n] = NULL
      /\ \A f \in Files : file[f] = NULL
      /\ openFiles = 0
  BY <1>1, <1>2, <1>3, <1>4 DEF ListOK, NodesOK, FilesOK, CountOK
<1>6. /\ LockOK' /\ ofm_lock' = NULL
      /\ pc' \in [Threads -> Walks \cup Sweeps \cup {"idle", "lock", "alloc_file", "free"}]
      /\ arg' \in [Threads -> Paths \cup {NULL}]
      /\ cur' \in [Threads -> Nodes \cup {NULL}]
      /\ prev' \in [Threads -> Nodes \cup {NULL}]
  BY <1>1, ReturnLock
<1>7. TypeOK'
  BY <1>1, <1>6 DEF TypeOK
<1>8. Links(<< >>, firstOpenFile)' /\ On(<< >>) = {}
  BY <1>1 DEF Links, At, On
<1>9. ListOK(<< >>)'
  BY <1>1, <1>5, <1>6, <1>8, ReturnList
<1> QED
  BY <1>1, <1>2, <1>6, <1>7, <1>9 DEF Sweeps

-----------------------------------------------------------------------------
(* Storing                                                                 *)

\* Only the sweep is at its step.
LEMMA SweepingIs ==
  ASSUME TypeOK, LockOK
  PROVE  Sweeping <=> Doing(Sweeps)
<1>1. ASSUME NEW t \in Threads, pc[t] \in Sweeps PROVE Doing(Sweeps)
  BY <1>1, Holder DEF Inside
<1>2. ASSUME Doing(Sweeps) PROVE Sweeping
  <2>1. ofm_lock # NULL /\ pc[ofm_lock] \in Sweeps
    BY <1>2 DEF Doing
  <2>2. ofm_lock \in Threads
    BY <2>1 DEF TypeOK
  <2> QED BY <2>1, <2>2 DEF Sweeping
<1> QED
  BY <1>1, <1>2 DEF Sweeping

\* The nodes that are shown to the outside.
LEMMA NodeSeqIs ==
  ASSUME TypeOK, LockOK, NEW s, ListOK(s)
  PROVE  NodeSeq = IF Doing(Sweeps) THEN << >> ELSE s
<1>1. NodeType
  BY DEF TypeOK, NodeType
<1>2. ~Doing(Sweeps) => Links(s, firstOpenFile)
  BY DEF ListOK, Top
<1> QED
  BY <1>1, <1>2, SweepingIs, ChainIs DEF NodeSeq

\* A listed file belongs to a node of the list.
LEMMA ListedFile ==
  ASSUME TypeOK, LockOK, NEW s, ListOK(s), NEW f \in ListedFiles
  PROVE  /\ ~Doing(Sweeps) /\ f \in Files /\ file[f] # NULL
         /\ \E i \in 1..Len(s) : f = node[s[i]].file /\ f = ListSeq[i]
<1>1. PICK i \in DOMAIN NodeSeq : f = node[NodeSeq[i]].file /\ f = ListSeq[i]
  BY DEF ListedFiles, ListSeq, Range
<1>2. ~Doing(Sweeps) /\ NodeSeq = s
  BY <1>1, NodeSeqIs
<1>3. s \in Seq(Nodes)
  BY DEF ListOK, Links
<1>4. i \in 1..Len(s) /\ s[i] \in Owners(s)
  BY <1>1, <1>2, <1>3 DEF Owners, On
<1>5. f \in Files /\ file[f] # NULL
  <2>1. /\ \A n \in Owners(s) : node[n].file \in Files
        /\ \A g \in Files : file[g] # NULL <=> \E n \in Owners(s) : node[n].file = g
    BY DEF ListOK, FilesOK
  <2>2. f = node[s[i]].file
    BY <1>1, <1>2
  <2> QED BY <1>4, <2>1, <2>2
<1> QED
  BY <1>1, <1>2, <1>4, <1>5

\* The download stores content, whoever holds the mutex.
LEMMA StoreInv ==
  ASSUME TypeOK, LockOK, NEW s, ListOK(s), NEW f \in Files, Store(f)
  PROVE  TypeOK' /\ LockOK' /\ ListOK(s)'
<1>1. /\ f \in ListedFiles
      /\ file' = [file EXCEPT ![f].memory = file[f].blobID]
      /\ UNCHANGED <<mounted, ofm_lock, firstOpenFile, openFiles, node, pc, arg, cur, prev>>
  BY DEF Store
<1>2. file[f] # NULL /\ file[f] \in FileMemoryStruct_t
  BY <1>1, ListedFile DEF TypeOK
<1> DEFINE r == [file[f] EXCEPT !.memory = file[f].blobID]
<1>3. r \in FileMemoryStruct_t /\ r.referenceCount = file[f].referenceCount
  BY <1>2 DEF FileMemoryStruct_t
<1>4. r # NULL /\ file' = [file EXCEPT ![f] = r]
  BY <1>1, <1>3, OpenFileListAssumption
<1> HIDE DEF r
<1>5. /\ file' \in [Files -> FileMemoryStruct_t \cup {NULL}]
      /\ \A g \in Files : /\ file'[g] # NULL <=> file[g] # NULL
                          /\ file'[g].referenceCount = file[g].referenceCount
  BY <1>2, <1>3, <1>4 DEF TypeOK
<1>6. TypeOK'
  BY <1>1, <1>5 DEF TypeOK
<1>7. \A steps : Doing(steps)' <=> Doing(steps)
  BY <1>1 DEF Doing
<1>8. LockOK'
  BY <1>1, <1>7 DEF LockOK
<1>9. Top' = Top /\ Hand' = Hand /\ Owners(s)' = Owners(s)
  BY <1>1, <1>7 DEF Top, Hand, Owners, On
<1>10. Links(s, Top)' /\ NodesOK(s)' /\ CountOK(s)' /\ WalkOK(s)'
  BY <1>1, <1>7, <1>9 DEF ListOK, Links, At, NodesOK, On, CountOK, WalkOK, Missed
<1>11. FilesOK(s)'
  BY <1>1, <1>5, <1>9 DEF ListOK, FilesOK
<1>12. SurgeryOK(s)'
  <2>1. DOMAIN file' = Files /\ DOMAIN file = Files
    BY <1>5 DEF TypeOK
  <2>2. BelowRefBound => BelowRefBound'
    BY <1>5, <2>1 DEF BelowRefBound, Free
  <2> QED BY <1>1, <1>7, <2>2 DEF ListOK, SurgeryOK, Missed, On
<1> QED
  BY <1>6, <1>8, <1>10, <1>11, <1>12 DEF ListOK

-----------------------------------------------------------------------------
(* The invariant holds                                                     *)

LEMMA NextInv ==
  ASSUME CleanNodes, ListInv, [Next]_vars
  PROVE  ListInv'
<1> SUFFICES ASSUME NEW s, ListOK(s) PROVE ListInv'
  BY DEF ListInv
<1>0. TypeOK /\ LockOK
  BY DEF ListInv
<1>1. ASSUME NEW t \in Threads, Call(t) PROVE ListInv'
  BY <1>0, <1>1, CallInv DEF ListInv
<1>2. ASSUME NEW t \in Threads, CloseAll(t) PROVE ListInv'
  BY <1>0, <1>2, CloseAllInv DEF ListInv
<1>3. ASSUME NEW t \in Threads, NEW op \in Walks, NEW p \in Paths, Lock(t, op, p)
      PROVE  ListInv'
  BY <1>0, <1>3, LockInv DEF ListInv
<1>4. ASSUME NEW f \in Files, Store(f) PROVE ListInv'
  BY <1>0, <1>4, StoreInv DEF ListInv
<1>5. ASSUME NEW t \in Threads, LockedStep(t) PROVE ListInv'
  <2>1. CASE WalkOn(t)
    BY <1>0, <2>1, WalkOnInv DEF ListInv
  <2>2. CASE WalkEnd(t)
    BY <1>0, <2>2, WalkEndInv DEF ListInv
  <2>3. CASE OpenAgain(t)
    BY <1>0, <2>3, OpenAgainInv DEF ListInv
  <2>4. CASE AllocNode(t)
    BY <1>0, <2>4, AllocNodeInv DEF ListInv
  <2>5. CASE AllocNodeFails(t)
    BY <1>0, <2>5, AllocNodeFailsInv DEF ListInv
  <2>6. CASE AllocFileFails(t)
    BY <1>0, <2>6, AllocFileFailsInv DEF ListInv
  <2>7. ASSUME NEW b \in Blobs, AllocFile(t, b) PROVE ListInv'
    <3>1. PICK n : n = cur[t]
      OBVIOUS
    <3>2. TypeOK' /\ LockOK' /\ ListOK(<<n>> \o s)'
      BY <1>0, <2>7, <3>1, AllocFileInv
    <3> QED BY <3>2 DEF ListInv
  <2>8. CASE DropReference(t)
    BY <1>0, <2>8, DropReferenceInv DEF ListInv
  <2>9. CASE Unlink(t)
    <3>1. pc[t] = "close" /\ Hit(t)
      BY <2>9 DEF Unlink
    <3>2. PICK i \in 1..Len(s) : cur[t] = s[i] /\ prev[t] = At(s, i - 1)
      BY <1>0, <3>1, ClosePlace
    <3>3. PICK w : w = Without(s, i)
      OBVIOUS
    <3>4. TypeOK' /\ LockOK' /\ ListOK(w)'
      BY <1>0, <2>9, <3>2, <3>3, UnlinkInv
    <3> QED BY <3>4 DEF ListInv
  <2>10. CASE FreeUnlinked(t)
    BY <1>0, <2>10, FreeUnlinkedInv DEF ListInv
  <2>11. CASE Sweep(t)
    BY <1>0, <2>11, SweepInv DEF ListInv
  <2>13. CASE FreeSwept(t)
    <3>1. PICK w : w = Without(s, 1)
      OBVIOUS
    <3>2. TypeOK' /\ LockOK' /\ ListOK(w)'
      BY <1>0, <2>13, <3>1, FreeSweptInv
    <3> QED BY <3>2 DEF ListInv
  <2>12. CASE SweepEnd(t)
    BY <1>0, <2>12, SweepEndInv DEF ListInv
  <2> QED BY <1>5, <2>1, <2>2, <2>3, <2>4, <2>5, <2>6, <2>7, <2>8, <2>9, <2>10,
             <2>11, <2>12, <2>13 DEF LockedStep
<1>6. CASE UNCHANGED vars
  <2>1. ListOK(s)'
    BY <1>6, ListKept DEF vars
  <2> QED BY <1>0, <1>6, <2>1 DEF ListInv, TypeOK, LockOK, Doing, vars, heapVars
<1> QED
  BY <1>1, <1>2, <1>3, <1>4, <1>5, <1>6 DEF Next

\* At every moment some sequence of nodes explains the links, the heap, the
\* counter, the place of the walk and the list surgery that is going on.
THEOREM ListExplainsHeap == CleanNodes => (Spec => []ListInv)
<1> SUFFICES ASSUME CleanNodes PROVE Spec => []ListInv
  OBVIOUS
<1>1. Init => ListInv
  BY InitInv DEF ListInv
<1>2. ListInv /\ [Next]_vars => ListInv'
  BY NextInv
<1> QED
  BY <1>1, <1>2, PTL DEF Spec

\* Every variable keeps its type, and the counter never falls below zero.
THEOREM TypeCorrect == CleanNodes => (Spec => []TypeOK)
<1>1. ListInv => TypeOK
  BY DEF ListInv
<1> QED
  BY <1>1, ListExplainsHeap, PTL

-----------------------------------------------------------------------------
(* What it says                                                            *)

\* A list without repetitions has as many entries as members.
LEMMA OnceEach ==
  ASSUME NEW S, NEW s \in Seq(S), \A i, j \in 1..Len(s) : s[i] = s[j] => i = j
  PROVE  IsFiniteSet(On(s)) /\ Cardinality(On(s)) = Len(s)
<1>1. PICK l \in Nat : l = Len(s)
  OBVIOUS
<1>2. IsFiniteSet(1..l) /\ Cardinality(1..l) = l
  <2>1. Cardinality(1..l) = IF 1 > l THEN 0 ELSE l - 1 + 1
    BY FS_Interval
  <2> QED BY <2>1, FS_Interval
<1>3. s \in [1..l -> On(s)]
  BY <1>1, LenProperties DEF On
<1>4. s \in Surjection(1..l, On(s)) /\ s \in Injection(1..l, On(s))
  <2>1. \A i, j \in 1..l : s[i] = s[j] => i = j
    BY <1>1
  <2>2. \A x \in On(s) : \E i \in 1..l : s[i] = x
    BY <1>1 DEF On
  <2> QED BY <1>3, <2>1, <2>2 DEF Surjection, Injection, IsInjective
<1> QED
  BY <1>1, <1>2, <1>4, FS_Surjection

\* The files of the list, one for each entry.
LEMMA ListSeqIs ==
  ASSUME TypeOK, LockOK, NEW s, ListOK(s), ~Doing(Sweeps)
  PROVE  /\ ListSeq \in Seq(Files) /\ Len(ListSeq) = Len(s)
         /\ \A i \in 1..Len(s) : ListSeq[i] = node[s[i]].file
         /\ \A i, j \in 1..Len(ListSeq) : ListSeq[i] = ListSeq[j] => i = j
         /\ ListedFiles = On(ListSeq)
         /\ ListedFiles = {node[n].file : n \in On(s)}
<1>1. NodeSeq = s
  BY NodeSeqIs
<1>2. /\ s \in Seq(Nodes) /\ Len(s) \in Nat /\ DOMAIN s = 1..Len(s)
      /\ \A i, j \in 1..Len(s) : s[i] = s[j] => i = j
  BY DEF ListOK, Links
<1>3. /\ \A i \in 1..Len(s) : node[s[i]].file \in Files
      /\ \A i, j \in 1..Len(s) : node[s[i]].file = node[s[j]].file => i = j
  <2>1. \A i \in 1..Len(s) : s[i] \in Owners(s)
    BY DEF Owners, On
  <2>2. /\ \A n \in Owners(s) : node[n].file \in Files
        /\ \A m, n \in Owners(s) : node[m].file = node[n].file => m = n
    BY DEF ListOK, FilesOK
  <2> QED BY <1>2, <2>1, <2>2
<1> DEFINE q == [i \in 1..Len(s) |-> node[s[i]].file]
<1>4. ListSeq = q
  BY <1>1, <1>2 DEF ListSeq
<1>5. q \in Seq(Files) /\ Len(q) = Len(s) /\ \A i \in 1..Len(s) : q[i] = node[s[i]].file
  BY <1>2, <1>3
<1>6. ListedFiles = {q[i] : i \in 1..Len(s)}
  BY <1>2, <1>4 DEF ListedFiles, Range
<1>7. {q[i] : i \in 1..Len(s)} = {node[n].file : n \in On(s)}
  BY <1>5 DEF On
<1> HIDE DEF q
<1> QED
  BY <1>3, <1>4, <1>5, <1>6, <1>7 DEF On

LEMMA InvMatches ==
  ASSUME ListInv
  PROVE  HeapMatchesList
<1> SUFFICES ASSUME ofm_lock = NULL
             PROVE  /\ Cardinality(Nodes \ Free(node)) = Len(NodeSeq)
                    /\ Files \ Free(file) = ListedFiles
                    /\ Cardinality(ListedFiles) = Len(NodeSeq)
                    /\ openFiles = Len(NodeSeq)
  BY DEF HeapMatchesList
<1>1. TypeOK /\ LockOK
  BY DEF ListInv
<1>2. PICK s : ListOK(s)
  BY DEF ListInv
<1>3. /\ \A steps : ~Doing(steps)
      /\ Hand = {} /\ Owners(s) = On(s)
  BY Outside
<1>4. NodeSeq = s
  BY <1>1, <1>2, <1>3, NodeSeqIs
<1>5. /\ s \in Seq(Nodes) /\ \A i, j \in 1..Len(s) : s[i] = s[j] => i = j
      /\ \A i \in 1..Len(s) : s[i] \in Nodes
  BY <1>2 DEF ListOK, Links
<1>6. Nodes \ Free(node) = On(s)
  <2>1. \A n \in Nodes : node[n] # NULL <=> n \in On(s)
    BY <1>2, <1>3 DEF ListOK, NodesOK
  <2>2. DOMAIN node = Nodes /\ On(s) \subseteq Nodes
    BY <1>1, <1>5 DEF TypeOK, On
  <2> QED BY <2>1, <2>2 DEF Free
<1>7. /\ ListSeq \in Seq(Files) /\ Len(ListSeq) = Len(s)
      /\ \A i, j \in 1..Len(ListSeq) : ListSeq[i] = ListSeq[j] => i = j
      /\ ListedFiles = On(ListSeq)
      /\ ListedFiles = {node[n].file : n \in On(s)}
  BY <1>1, <1>2, <1>3, ListSeqIs
<1>8. Files \ Free(file) = ListedFiles
  <2>1. /\ \A n \in On(s) : node[n].file \in Files
        /\ \A f \in Files : file[f] # NULL <=> \E n \in On(s) : node[n].file = f
    BY <1>2, <1>3 DEF ListOK, FilesOK
  <2>2. DOMAIN file = Files
    BY <1>1 DEF TypeOK
  <2> QED BY <1>7, <2>1, <2>2 DEF Free
<1>9. Cardinality(On(s)) = Len(s)
  BY <1>5, OnceEach
<1>10. Cardinality(On(ListSeq)) = Len(ListSeq)
  BY <1>7, OnceEach
<1>11. openFiles = Len(s)
  BY <1>2, <1>3, <1>5 DEF ListOK, CountOK
<1> QED
  BY <1>4, <1>6, <1>7, <1>8, <1>9, <1>10, <1>11

\* Between calls exactly the linked nodes and their files are allocated, one
\* file for each, and openFiles counts them: nothing leaks on any path of the
\* four functions.  When the second allocation of openFile() may fail, this
\* needs malloc() to leave NULL in the new node's file member (CleanNodes):
\* open-file-manager.c:109 frees that member without having set it.
THEOREM HeapIsList == CleanNodes => (Spec => []HeapMatchesList)
BY InvMatches, ListExplainsHeap, PTL

LEMMA InvDereferences ==
  ASSUME ListInv
  PROVE  NoUseAfterFree
<1> SUFFICES ASSUME NEW t \in Threads
             PROVE  /\ cur[t] # NULL => node[cur[t]] # NULL
                    /\ cur[t] # NULL /\ pc[t] # "alloc_file" => file[node[cur[t]].file] # NULL
                    /\ prev[t] # NULL => node[prev[t]] # NULL
                    /\ prev[t] # NULL /\ pc[t] = "close" => node[prev[t]].next = cur[t]
                    /\ pc[t] \in {"free", "sweep"} => cur[t] # NULL
  BY DEF NoUseAfterFree
<1>1. TypeOK /\ LockOK
  BY DEF ListInv
<1>2. PICK s : ListOK(s)
  BY DEF ListInv
<1>3. CASE t # ofm_lock
  BY <1>1, <1>3 DEF LockOK
<1>4. CASE t = ofm_lock
  <2>0. /\ ofm_lock # NULL /\ pc[t] \in Inside
        /\ \A steps : Doing(steps) <=> pc[t] \in steps
    BY <1>1, <1>4, OpenFileListAssumption DEF LockOK, Doing
  <2>1. /\ \A n \in Nodes : node[n] # NULL <=> n \in On(s) \cup Hand
        /\ On(s) \subseteq Nodes /\ Hand \subseteq Nodes
        /\ \A i \in 1..Len(s) : s[i] \in On(s)
        /\ \A n \in Owners(s) : file[node[n].file] # NULL
    <3>1. \A n \in Owners(s) : file[node[n].file] # NULL
      BY <1>2 DEF ListOK, FilesOK
    <3>2. \A n \in Hand : n \in Nodes
      BY <1>2 DEF ListOK, NodesOK
    <3>3. On(s) \subseteq Nodes /\ \A i \in 1..Len(s) : s[i] \in On(s)
      BY <1>2, LinksEntries DEF ListOK, On
    <3> QED BY <1>2, <3>1, <3>2, <3>3 DEF ListOK, NodesOK
  <2>2. CASE pc[t] \in Walks
    <3>1. PICK i \in 1..(Len(s) + 1) :
            /\ prev[t] = IF pc[t] = "close" THEN At(s, i - 1) ELSE NULL
            /\ cur[t] = At(s, i)
            /\ cur[t] # NULL => i \in 1..Len(s) /\ cur[t] = s[i]
      BY <1>1, <1>2, <2>2, WalkPlace
    <3>2. cur[t] # NULL => cur[t] \in On(s)
      BY <2>1, <3>1
    <3>3. prev[t] # NULL => /\ pc[t] = "close" /\ i - 1 \in 1..Len(s) /\ prev[t] = s[i - 1]
      BY <3>1 DEF At
    <3>4. prev[t] # NULL => prev[t] \in On(s) /\ node[prev[t]].next = At(s, (i - 1) + 1)
      BY <1>2, <2>1, <3>3, LinksEntries DEF ListOK
    <3>5. (i - 1) + 1 = i
      OBVIOUS
    <3>6. pc[t] \notin {"free", "sweep"}
      BY <2>2 DEF Walks
    <3> QED BY <2>1, <3>1, <3>2, <3>4, <3>5, <3>6 DEF Owners
  <2>3. CASE pc[t] = "alloc_file"
    BY <1>1, <1>2, <2>3, HandPlace
  <2>4. CASE pc[t] = "free"
    <3>1. Hand = {cur[t]} /\ cur[t] \in Owners(s) /\ prev[t] \in On(s) \cup {NULL}
      BY <1>2, <1>4, <2>0, <2>4 DEF Hand, Owners, ListOK, SurgeryOK
    <3>2. cur[t] # NULL
      BY <2>1, <3>1, OpenFileListAssumption
    <3> QED BY <2>1, <2>4, <3>1, <3>2
  <2>5. CASE pc[t] \in Sweeps
    <3>1. Top = cur[t] /\ Owners(s) = On(s)
      BY <1>4, <2>0, <2>5 DEF Top, Owners, Sweeps
    <3>2. cur[t] = At(s, 1) /\ s \in Seq(Nodes) /\ Len(s) \in Nat
          /\ \A i \in 1..Len(s) : node[s[i]].next = At(s, i + 1)
      BY <1>2, <3>1, LinksEntries DEF ListOK, Links
    <3>3. cur[t] # NULL => cur[t] \in On(s) /\ node[cur[t]].next \in On(s) \cup {NULL}
      BY <2>1, <3>2 DEF At
    <3>4. /\ pc[t] = "closeAll" => prev[t] = NULL
          /\ pc[t] = "sweep" => cur[t] # NULL /\ prev[t] = node[cur[t]].next
      BY <1>2, <1>4, <2>0 DEF ListOK, SurgeryOK
    <3> QED BY <2>1, <2>5, <3>1, <3>3, <3>4 DEF Sweeps
  <2> QED BY <2>0, <2>2, <2>3, <2>4, <2>5 DEF Inside, Sweeps
<1> QED
  BY <1>3, <1>4

\* No walk, no unlinking and no sweep follows a pointer to memory that has
\* been freed, or frees it again.  The failed second allocation of openFile()
\* is not covered: CleanNodes leaves its bad case out.
THEOREM NothingFreedIsUsed == CleanNodes => (Spec => []NoUseAfterFree)
BY InvDereferences, ListExplainsHeap, PTL

-----------------------------------------------------------------------------
(* The list as OpenFileManager sees it                                     *)

\* The mapping of OpenFileList, variable by variable.
countSeen == openFiles - InFlight
pathSeen == OfListed([n \in Nodes |-> node[n].path], NULL)
blobSeen == OfListed([n \in Nodes |-> file[node[n].file].blobID], NULL)
memorySeen == OfListed([n \in Nodes |-> file[node[n].file].memory], NULL)
refsSeen == OfListed([n \in Nodes |-> file[node[n].file].referenceCount], 0)

\* What is shown of list s: the sweep works on a list nobody will see again.
Shown(s) == IF Doing(Sweeps) THEN << >> ELSE s

\* The mapping shows the nodes v: the fields of their files, and nothing else.
Shows(v) ==
  /\ v \in Seq(Nodes) /\ \A i, j \in 1..Len(v) : v[i] = v[j] => i = j
  /\ \A n \in On(v) : node[n].file \in Files
  /\ \A m, n \in On(v) : node[m].file = node[n].file => m = n
  /\ ListSeq \in Seq(Files) /\ Len(ListSeq) = Len(v)
  /\ \A i \in 1..Len(v) : ListSeq[i] = node[v[i]].file
  /\ countSeen = Len(v)
  /\ pathSeen = [f \in Files |-> pathSeen[f]]
  /\ blobSeen = [f \in Files |-> blobSeen[f]]
  /\ memorySeen = [f \in Files |-> memorySeen[f]]
  /\ refsSeen = [f \in Files |-> refsSeen[f]]
  /\ \A n \in On(v) :
       /\ pathSeen[node[n].file] = node[n].path
       /\ blobSeen[node[n].file] = file[node[n].file].blobID
       /\ memorySeen[node[n].file] = file[node[n].file].memory
       /\ refsSeen[node[n].file] = file[node[n].file].referenceCount
  /\ \A f \in Files : (\A n \in On(v) : node[n].file # f) =>
       pathSeen[f] = NULL /\ blobSeen[f] = NULL /\ memorySeen[f] = NULL /\ refsSeen[f] = 0

\* What OfListed makes of a function of the nodes.
LEMMA OfListedIs ==
  ASSUME NEW v \in Seq(Nodes), NodeSeq = v,
         \A n \in On(v) : node[n].file \in Files,
         \A i, j \in 1..Len(v) : node[v[i]].file = node[v[j]].file => i = j,
         NEW of, NEW none
  PROVE  LET seen == OfListed(of, none)
         IN /\ seen = [f \in Files |-> seen[f]]
            /\ \A n \in On(v) : seen[node[n].file] = of[n]
            /\ \A f \in Files : (\A n \in On(v) : node[n].file # f) => seen[f] = none
<1> DEFINE at(f) == {i \in 1..Len(v) : node[v[i]].file = f}
           seen == OfListed(of, none)
<1>1. seen = [f \in Files |->
                IF at(f) = {} THEN none ELSE of[v[CHOOSE i \in at(f) : TRUE]]]
  BY DEF OfListed
<1> HIDE DEF seen
<1>2. ASSUME NEW n \in On(v) PROVE seen[node[n].file] = of[n]
  <2>1. PICK i \in 1..Len(v) : n = v[i]
    BY DEF On
  <2>2. i \in at(node[n].file) /\ \A j \in at(node[n].file) : j = i
    BY <2>1
  <2>3. (CHOOSE j \in at(node[n].file) : TRUE) = i
    BY <2>2
  <2> QED BY <1>1, <2>1, <2>2, <2>3
<1>3. ASSUME NEW f \in Files, \A n \in On(v) : node[n].file # f PROVE seen[f] = none
  <2>1. at(f) = {}
    BY <1>3 DEF On
  <2> QED BY <1>1, <2>1
<1> QED
  BY <1>1, <1>2, <1>3 DEF seen

LEMMA ListIsShown ==
  ASSUME TypeOK, LockOK, NEW s, ListOK(s), NEW v, v = Shown(s)
  PROVE  Shows(v)
<1>1. NodeSeq = v
  BY NodeSeqIs DEF Shown
<1>2. /\ s \in Seq(Nodes) /\ Len(s) \in Nat
      /\ \A i, j \in 1..Len(s) : s[i] = s[j] => i = j
  BY DEF ListOK, Links
<1>3. /\ v \in Seq(Nodes) /\ \A i, j \in 1..Len(v) : v[i] = v[j] => i = j
      /\ On(v) \subseteq On(s)
  <2>1. CASE Doing(Sweeps)
    BY <2>1 DEF Shown, On
  <2>2. CASE ~Doing(Sweeps)
    BY <1>2, <2>2 DEF Shown
  <2> QED BY <2>1, <2>2
<1>4. /\ \A n \in On(v) : node[n].file \in Files
      /\ \A m, n \in On(v) : node[m].file = node[n].file => m = n
  <2>1. \A n \in On(v) : n \in Owners(s)
    BY <1>3 DEF Owners
  <2> QED BY <2>1 DEF ListOK, FilesOK
<1>5. /\ \A i \in 1..Len(v) : v[i] \in On(v) /\ v[i] \in Nodes
      /\ \A i, j \in 1..Len(v) : node[v[i]].file = node[v[j]].file => i = j
      /\ On(v) \subseteq Nodes
  <2>1. \A i \in 1..Len(v) : v[i] \in On(v) /\ v[i] \in Nodes
    BY <1>3 DEF On
  <2> QED BY <1>3, <1>4, <2>1 DEF On
<1>6. /\ ListSeq \in Seq(Files) /\ Len(ListSeq) = Len(v)
      /\ \A i \in 1..Len(v) : ListSeq[i] = node[v[i]].file
  <2> DEFINE q == [i \in 1..Len(v) |-> node[v[i]].file]
  <2>1. DOMAIN v = 1..Len(v) /\ Len(v) \in Nat
    BY <1>3
  <2>2. ListSeq = q
    BY <1>1, <2>1 DEF ListSeq
  <2>3. q \in Seq(Files) /\ Len(q) = Len(v) /\ \A i \in 1..Len(v) : q[i] = node[v[i]].file
    BY <1>4, <1>5, <2>1
  <2> QED BY <2>2, <2>3
<1>7. countSeen = Len(v)
  <2>1. (\E t \in Threads : pc[t] = "alloc_file") <=> Doing({"alloc_file"})
    <3>1. ASSUME NEW t \in Threads, pc[t] = "alloc_file" PROVE Doing({"alloc_file"})
      BY <3>1, Holder DEF Inside, Sweeps
    <3>2. Doing({"alloc_file"}) => ofm_lock \in Threads /\ pc[ofm_lock] = "alloc_file"
      BY DEF Doing, TypeOK
    <3> QED BY <3>1, <3>2
  <2>2. CASE Doing({"alloc_file"})
    <3>1. ~Doing(Sweeps)
      BY <2>2 DEF Doing, Sweeps
    <3> QED BY <1>2, <2>1, <2>2, <3>1 DEF countSeen, InFlight, Shown, ListOK, CountOK
  <2>3. CASE Doing(Sweeps)
    <3>1. ~Doing({"alloc_file"}) /\ Sweeping
      BY <2>3, SweepingIs DEF Doing, Sweeps
    <3>2. Chain(cur[ofm_lock]) = s
      <4>1. NodeType /\ Links(s, cur[ofm_lock])
        BY <2>3 DEF ListOK, Top, TypeOK, NodeType
      <4> QED BY <4>1, ChainIs
    <3>3. v = << >>
      BY <2>3 DEF Shown
    <3> QED BY <1>2, <2>1, <3>1, <3>2, <3>3 DEF countSeen, InFlight, ListOK, CountOK
  <2>4. CASE ~Doing({"alloc_file"}) /\ ~Doing(Sweeps)
    BY <1>2, <2>1, <2>4, SweepingIs DEF countSeen, InFlight, Shown, ListOK, CountOK
  <2> QED BY <2>2, <2>3, <2>4
<1> DEFINE paths == [n \in Nodes |-> node[n].path]
           blobs == [n \in Nodes |-> file[node[n].file].blobID]
           memories == [n \in Nodes |-> file[node[n].file].memory]
           counts == [n \in Nodes |-> file[node[n].file].referenceCount]
<1>8. /\ \A n \in On(v) : /\ paths[n] = node[n].path
                          /\ blobs[n] = file[node[n].file].blobID
                          /\ memories[n] = file[node[n].file].memory
                          /\ counts[n] = file[node[n].file].referenceCount
      /\ pathSeen = OfListed(paths, NULL) /\ blobSeen = OfListed(blobs, NULL)
      /\ memorySeen = OfListed(memories, NULL) /\ refsSeen = OfListed(counts, 0)
  BY <1>5 DEF pathSeen, blobSeen, memorySeen, refsSeen
<1> HIDE DEF paths, blobs, memories, counts
<1>9. \A of, none :
        LET seen == OfListed(of, none)
        IN /\ seen = [f \in Files |-> seen[f]]
           /\ \A n \in On(v) : seen[node[n].file] = of[n]
           /\ \A f \in Files : (\A n \in On(v) : node[n].file # f) => seen[f] = none
  BY <1>1, <1>3, <1>4, <1>5, OfListedIs
<1>10. /\ pathSeen = [f \in Files |-> pathSeen[f]]
       /\ \A n \in On(v) : pathSeen[node[n].file] = node[n].path
       /\ \A f \in Files : (\A n \in On(v) : node[n].file # f) => pathSeen[f] = NULL
  BY <1>8, <1>9
<1>11. /\ blobSeen = [f \in Files |-> blobSeen[f]]
       /\ \A n \in On(v) : blobSeen[node[n].file] = file[node[n].file].blobID
       /\ \A f \in Files : (\A n \in On(v) : node[n].file # f) => blobSeen[f] = NULL
  BY <1>8, <1>9
<1>12. /\ memorySeen = [f \in Files |-> memorySeen[f]]
       /\ \A n \in On(v) : memorySeen[node[n].file] = file[node[n].file].memory
       /\ \A f \in Files : (\A n \in On(v) : node[n].file # f) => memorySeen[f] = NULL
  BY <1>8, <1>9
<1>13. /\ refsSeen = [f \in Files |-> refsSeen[f]]
       /\ \A n \in On(v) : refsSeen[node[n].file] = file[node[n].file].referenceCount
       /\ \A f \in Files : (\A n \in On(v) : node[n].file # f) => refsSeen[f] = 0
  BY <1>8, <1>9
<1> QED
  BY <1>3, <1>4, <1>6, <1>7, <1>10, <1>11, <1>12, <1>13 DEF Shows

\* The same of every state, and so of the state after a step.
LEMMA ListIsShownAll ==
  \A s, v : TypeOK /\ LockOK /\ ListOK(s) /\ v = Shown(s) => Shows(v)
BY ListIsShown

LEMMA ListIsShownNext ==
  (\A s, v : TypeOK /\ LockOK /\ ListOK(s) /\ v = Shown(s) => Shows(v))'
BY ListIsShownAll, PTL

\* The same nodes with the same fields, before and after a step, look the same
\* but for the contents of file f.
LEMMA SameButOne ==
  ASSUME NEW v, Shows(v), Shows(v)', NEW f,
         \A n \in On(v) : /\ node'[n].path = node[n].path /\ node'[n].file = node[n].file
                          /\ node[n].file # f => file'[node[n].file] = file[node[n].file]
  PROVE  /\ ListSeq' = ListSeq /\ countSeen' = countSeen /\ pathSeen' = pathSeen
         /\ \A g \in Files \ {f} : /\ blobSeen'[g] = blobSeen[g]
                                   /\ memorySeen'[g] = memorySeen[g]
                                   /\ refsSeen'[g] = refsSeen[g]
<1>1. \A i \in 1..Len(v) : v[i] \in On(v)
  BY DEF On
<1>2. ListSeq' = ListSeq
  <2>1. /\ ListSeq \in Seq(Files) /\ ListSeq' \in Seq(Files)
        /\ Len(ListSeq) = Len(v) /\ Len(ListSeq') = Len(v)
    BY DEF Shows
  <2>2. \A i \in 1..Len(ListSeq) : ListSeq'[i] = ListSeq[i]
    <3>1. \A i \in 1..Len(v) : ListSeq'[i] = node'[v[i]].file /\ ListSeq[i] = node[v[i]].file
      BY DEF Shows
    <3> QED BY <1>1, <2>1, <3>1
  <2> QED BY <2>1, <2>2, SeqEqual
<1>3. countSeen' = countSeen
  BY DEF Shows
<1>4. ASSUME NEW g \in Files
      PROVE  /\ pathSeen'[g] = pathSeen[g]
             /\ g # f => /\ blobSeen'[g] = blobSeen[g]
                         /\ memorySeen'[g] = memorySeen[g]
                         /\ refsSeen'[g] = refsSeen[g]
  <2>1. CASE \E n \in On(v) : node[n].file = g
    <3>1. PICK n \in On(v) : node[n].file = g
      BY <2>1
    <3>2. /\ node'[n].file = g /\ node'[n].path = node[n].path
          /\ g # f => file'[g] = file[g]
      BY <3>1
    <3>3. /\ pathSeen[g] = node[n].path /\ blobSeen[g] = file[g].blobID
          /\ memorySeen[g] = file[g].memory /\ refsSeen[g] = file[g].referenceCount
      BY <3>1 DEF Shows
    <3>4. /\ pathSeen'[g] = node'[n].path /\ blobSeen'[g] = file'[g].blobID
          /\ memorySeen'[g] = file'[g].memory /\ refsSeen'[g] = file'[g].referenceCount
      BY <3>2 DEF Shows
    <3> QED BY <3>2, <3>3, <3>4
  <2>2. CASE \A n \in On(v) : node[n].file # g
    <3>1. \A n \in On(v) : node'[n].file # g
      BY <2>2
    <3> QED BY <2>2, <3>1 DEF Shows
  <2> QED BY <2>1, <2>2
<1>5. pathSeen' = pathSeen
  <2>1. pathSeen = [g \in Files |-> pathSeen[g]] /\ pathSeen' = [g \in Files |-> pathSeen'[g]]
    BY DEF Shows
  <2> QED BY <1>4, <2>1
<1> QED
  BY <1>2, <1>3, <1>4, <1>5

\* If no file changes, the manager stutters.
LEMMA Stutters ==
  ASSUME NEW v, Shows(v), Shows(v)',
         \A n \in On(v) : /\ node'[n].path = node[n].path /\ node'[n].file = node[n].file
                          /\ file'[node[n].file] = file[node[n].file]
  PROVE  UNCHANGED Manager!ofmVars
<1>1. /\ ListSeq' = ListSeq /\ countSeen' = countSeen /\ pathSeen' = pathSeen
      /\ \A g \in Files \ {NULL} : /\ blobSeen'[g] = blobSeen[g]
                                   /\ memorySeen'[g] = memorySeen[g]
                                   /\ refsSeen'[g] = refsSeen[g]
  BY SameButOne
<1>2. Files \ {NULL} = Files
  BY OpenFileListAssumption
<1>3. /\ blobSeen = [g \in Files |-> blobSeen[g]] /\ blobSeen' = [g \in Files |-> blobSeen'[g]]
      /\ memorySeen = [g \in Files |-> memorySeen[g]]
      /\ memorySeen' = [g \in Files |-> memorySeen'[g]]
      /\ refsSeen = [g \in Files |-> refsSeen[g]] /\ refsSeen' = [g \in Files |-> refsSeen'[g]]
  BY DEF Shows
<1>4. blobSeen' = blobSeen /\ memorySeen' = memorySeen /\ refsSeen' = refsSeen
  BY <1>1, <1>2, <1>3
<1> QED
  BY <1>1, <1>4 DEF Manager!ofmVars, countSeen, pathSeen, blobSeen, memorySeen, refsSeen

\* A file's fields change and the rest of what is shown does not.
LEMMA OneChanges ==
  ASSUME NEW v, Shows(v), Shows(v)', NEW i \in 1..Len(v), NEW f, f = node[v[i]].file,
         node' = node, \A g \in Files \ {f} : file'[g] = file[g]
  PROVE  /\ f \in Files /\ ListSeq[i] = f
         /\ ListSeq' = ListSeq /\ countSeen' = countSeen /\ pathSeen' = pathSeen
         /\ blobSeen' = [blobSeen EXCEPT ![f] = file'[f].blobID]
         /\ memorySeen' = [memorySeen EXCEPT ![f] = file'[f].memory]
         /\ refsSeen' = [refsSeen EXCEPT ![f] = file'[f].referenceCount]
         /\ blobSeen[f] = file[f].blobID /\ memorySeen[f] = file[f].memory
         /\ refsSeen[f] = file[f].referenceCount
         /\ (file'[f].blobID = file[f].blobID => blobSeen' = blobSeen)
         /\ (file'[f].memory = file[f].memory => memorySeen' = memorySeen)
         /\ (file'[f].referenceCount = file[f].referenceCount => refsSeen' = refsSeen)
<1>1. v[i] \in On(v) /\ f \in Files /\ ListSeq[i] = f
  BY DEF On, Shows
<1>2. \A n \in On(v) : node[n].file \in Files
  BY DEF Shows
<1>3. /\ ListSeq' = ListSeq /\ countSeen' = countSeen /\ pathSeen' = pathSeen
      /\ \A g \in Files \ {f} : /\ blobSeen'[g] = blobSeen[g]
                                /\ memorySeen'[g] = memorySeen[g]
                                /\ refsSeen'[g] = refsSeen[g]
  <2>1. \A n \in On(v) :
          /\ node'[n].path = node[n].path /\ node'[n].file = node[n].file
          /\ node[n].file # f => file'[node[n].file] = file[node[n].file]
    BY <1>2
  <2> QED BY <2>1, SameButOne
<1>4. /\ blobSeen[f] = file[f].blobID /\ memorySeen[f] = file[f].memory
      /\ refsSeen[f] = file[f].referenceCount
      /\ blobSeen'[f] = file'[f].blobID /\ memorySeen'[f] = file'[f].memory
      /\ refsSeen'[f] = file'[f].referenceCount
  <2>1. /\ blobSeen[f] = file[f].blobID /\ memorySeen[f] = file[f].memory
        /\ refsSeen[f] = file[f].referenceCount
    <3>1. \A n \in On(v) : /\ blobSeen[node[n].file] = file[node[n].file].blobID
                            /\ memorySeen[node[n].file] = file[node[n].file].memory
                            /\ refsSeen[node[n].file] = file[node[n].file].referenceCount
      BY DEF Shows
    <3> QED BY <1>1, <3>1
  <2>2. node'[v[i]].file = f
    OBVIOUS
  <2>3. /\ blobSeen'[f] = file'[f].blobID /\ memorySeen'[f] = file'[f].memory
        /\ refsSeen'[f] = file'[f].referenceCount
    BY <1>1, <2>2 DEF Shows
  <2> QED BY <2>1, <2>3
<1>5. blobSeen = [g \in Files |-> blobSeen[g]] /\ blobSeen' = [g \in Files |-> blobSeen'[g]]
  BY DEF Shows
<1>6. /\ memorySeen = [g \in Files |-> memorySeen[g]]
      /\ memorySeen' = [g \in Files |-> memorySeen'[g]]
  BY DEF Shows
<1>7. refsSeen = [g \in Files |-> refsSeen[g]] /\ refsSeen' = [g \in Files |-> refsSeen'[g]]
  BY DEF Shows
<1>8. /\ blobSeen' = [blobSeen EXCEPT ![f] = file'[f].blobID]
      /\ (file'[f].blobID = file[f].blobID => blobSeen' = blobSeen)
  BY <1>1, <1>3, <1>4, <1>5
<1>9. /\ memorySeen' = [memorySeen EXCEPT ![f] = file'[f].memory]
      /\ (file'[f].memory = file[f].memory => memorySeen' = memorySeen)
  BY <1>1, <1>3, <1>4, <1>6
<1>10. /\ refsSeen' = [refsSeen EXCEPT ![f] = file'[f].referenceCount]
       /\ (file'[f].referenceCount = file[f].referenceCount => refsSeen' = refsSeen)
  BY <1>1, <1>3, <1>4, <1>7
<1> QED
  BY <1>1, <1>3, <1>4, <1>8, <1>9, <1>10

-----------------------------------------------------------------------------
(* The manager's searches                                                  *)

LEMMA ManagerMatches ==
  \A p, q : Manager!Matches(p, q) <=> Matches(p, q)
BY DEF Manager!Matches, Manager!StrNCmpEqual, Manager!CharAt, Manager!Stored,
       Manager!CmpLen, Manager!StrNLen, Manager!StoredLen,
       Matches, StrNCmpEqual, CharAt, Stored, CmpLen, StrNLen, StoredLen

LEMMA ManagerHits ==
  ASSUME NEW v, Shows(v), NEW p
  PROVE  Manager!Hits(p) = {i \in 1..Len(v) : Matches(p, node[v[i]].path)}
<1>1. /\ Len(ListSeq) = Len(v) /\ \A i \in 1..Len(v) : ListSeq[i] = node[v[i]].file
      /\ \A n \in On(v) : pathSeen[node[n].file] = node[n].path
  BY DEF Shows
<1>2. \A i \in 1..Len(v) : v[i] \in On(v)
  BY DEF On
<1>3. Manager!Hits(p) = {i \in 1..Len(ListSeq) : Manager!Matches(p, pathSeen[ListSeq[i]])}
  BY DEF Manager!Hits, pathSeen
<1> QED
  BY <1>1, <1>2, <1>3, ManagerMatches

\* Where a walk stops is where the manager finds the path.
LEMMA WalkFindsFirst ==
  ASSUME NEW v, Shows(v), Len(v) \in Nat, NEW i \in 1..Len(v), NEW p,
         Matches(p, node[v[i]].path),
         \A j \in 1..(i - 1) : ~Matches(p, node[v[j]].path)
  PROVE  i \in Manager!Hits(p) /\ Manager!FirstHit(p, i)
<1>1. i \in Manager!Hits(p)
  BY ManagerHits
<1>2. \A j \in Manager!Hits(p) : i <= j
  <2> SUFFICES ASSUME NEW j \in Manager!Hits(p) PROVE i <= j
    OBVIOUS
  <2>1. j \in 1..Len(v) /\ Matches(p, node[v[j]].path)
    BY ManagerHits
  <2> QED BY <2>1
<1> QED
  BY <1>1, <1>2 DEF Manager!FirstHit

LEMMA ManagerListed ==
  Manager!Listed = ListedFiles
BY DEF Manager!Listed, Manager!ToSet, ListedFiles, Range

\* The manager's bound on references is the list's.
LEMMA ManagerBelowBound ==
  ASSUME TypeOK, NEW v, Shows(v), BelowRefBound, \A n \in On(v) : file[node[n].file] # NULL
  PROVE  Manager!BelowRefBound
<1>1. ASSUME NEW f \in Files PROVE refsSeen[f] < MaxRefs
  <2>1. CASE \E n \in On(v) : node[n].file = f
    <3>1. PICK n \in On(v) : node[n].file = f
      BY <2>1
    <3>2. refsSeen[f] = file[f].referenceCount /\ file[f] # NULL
      BY <3>1 DEF Shows
    <3> QED BY <3>2 DEF BelowRefBound, Free, TypeOK
  <2>2. CASE \A n \in On(v) : node[n].file # f
    <3>1. refsSeen[f] = 0
      BY <2>2 DEF Shows
    <3> QED BY <3>1, OpenFileListAssumption
  <2> QED BY <2>1, <2>2
<1> QED
  BY <1>1 DEF Manager!BelowRefBound, refsSeen

-----------------------------------------------------------------------------
(* Every step is a step of the manager, or none                            *)

\* A step after which the same list is there with the same fields.
LEMMA SameListStutters ==
  ASSUME TypeOK, LockOK, NEW s, ListOK(s), TypeOK', LockOK', ListOK(s)',
         Shown(s)' = Shown(s),
         \A n \in On(s) : /\ node'[n].path = node[n].path /\ node'[n].file = node[n].file
                          /\ file'[node[n].file] = file[node[n].file]
  PROVE  UNCHANGED Manager!ofmVars
<1>1. PICK v : v = Shown(s)
  OBVIOUS
<1>2. Shows(v) /\ Shows(v)'
  BY <1>1, ListIsShown, ListIsShownNext
<1>3. On(v) \subseteq On(s)
  BY <1>1 DEF Shown, On
<1> QED
  BY <1>2, <1>3, Stutters

LEMMA QuietStep ==
  ASSUME CleanNodes, TypeOK, LockOK, NEW s, ListOK(s), NEW t \in Threads,
         \/ Call(t) \/ WalkOn(t) \/ WalkEnd(t) \/ AllocNode(t) \/ AllocNodeFails(t)
         \/ AllocFileFails(t) \/ FreeUnlinked(t)
         \/ \E op \in Walks, p \in Paths : Lock(t, op, p)
  PROVE  UNCHANGED Manager!ofmVars
<1>1. TypeOK' /\ LockOK' /\ ListOK(s)'
  BY CallInv, WalkOnInv, WalkEndInv, AllocNodeInv, AllocNodeFailsInv,
     AllocFileFailsInv, FreeUnlinkedInv, LockInv
<1>2. Doing(Sweeps)' <=> Doing(Sweeps)
  <2>1. CASE Call(t)
    <3>1. t # ofm_lock
      BY <2>1, OpenFileListAssumption DEF Call, LockOK, Inside, Sweeps, Walks
    <3> QED BY <2>1, <3>1 DEF Call, Goto, Doing, TypeOK
  <2>2. CASE WalkOn(t)
    BY <2>2 DEF WalkOn, Doing
  <2>3. ASSUME pc[t] \in Inside \ Sweeps, Return(t)
        PROVE  Doing(Sweeps)' <=> Doing(Sweeps)
    <3>1. ~Doing(Sweeps)
      BY <2>3, Holder
    <3> QED BY <2>3, <3>1 DEF Return, Doing
  <2>4. CASE WalkEnd(t) \/ AllocNodeFails(t) \/ AllocFileFails(t) \/ FreeUnlinked(t)
    <3>1. pc[t] \in Inside \ Sweeps /\ Return(t)
      BY <2>4 DEF WalkEnd, AllocNodeFails, AllocFileFails, FreeUnlinked, Inside, Sweeps, Walks
    <3> QED BY <2>3, <3>1
  <2>5. CASE AllocNode(t)
    <3>1. pc[t] = "open" /\ pc[t] \in Inside /\ ofm_lock' = ofm_lock /\ pc'[t] = "alloc_file"
      BY <2>5 DEF AllocNode, Goto, Inside, Sweeps, Walks, TypeOK
    <3> QED BY <3>1, Holder DEF Doing, Sweeps
  <2>6. ASSUME NEW op \in Walks, NEW p \in Paths, Lock(t, op, p)
        PROVE  Doing(Sweeps)' <=> Doing(Sweeps)
    BY <2>6 DEF Lock, Goto, Doing, Walks, TypeOK, Sweeps
  <2> QED BY <2>1, <2>2, <2>4, <2>5, <2>6
<1>3. \A n \in On(s) : /\ node'[n].path = node[n].path /\ node'[n].file = node[n].file
                       /\ file'[node[n].file] = file[node[n].file]
  <2>0. On(s) \subseteq Nodes
    BY DEF ListOK, Links, On
  <2>1. CASE \/ Call(t) \/ WalkOn(t) \/ WalkEnd(t) \/ AllocNodeFails(t)
             \/ \E op \in Walks, p \in Paths : Lock(t, op, p)
    <3>1. node' = node /\ file' = file
      BY <2>1 DEF Call, WalkOn, WalkEnd, AllocNodeFails, Lock, heapVars
    <3> QED BY <3>1
  <2>2. CASE AllocNode(t)
    <3>1. Malloc(node) \in Nodes /\ node[Malloc(node)] = NULL
      BY <2>2, MallocIsFree DEF AllocNode, TypeOK
    <3>2. \A n \in On(s) : node[n] # NULL
      BY LinksEntries DEF ListOK, On
    <3>3. \A n \in On(s) : node'[n] = node[n]
      BY <2>0, <2>2, <3>1, <3>2 DEF AllocNode, TypeOK
    <3> QED BY <2>2, <3>3 DEF AllocNode
  <2>3. CASE AllocFileFails(t)
    <3>1. cur[t] \notin On(s)
      BY <2>3, HandPlace DEF AllocFileFails
    <3>2. \A n \in On(s) : node'[n] = node[n]
      BY <2>0, <2>3, <3>1 DEF AllocFileFails, TypeOK
    <3>3. file' = file
      BY <2>3, AllocFileFailsInv
    <3> QED BY <3>2, <3>3
  <2>4. CASE FreeUnlinked(t)
    BY <2>4, FreeUnlinkedInv
  <2> QED BY <2>1, <2>2, <2>3, <2>4
<1> QED
  BY <1>1, <1>2, <1>3, SameListStutters DEF Shown

LEMMA OpenAgainStep ==
  ASSUME TypeOK, LockOK, NEW s, ListOK(s), NEW t \in Threads, OpenAgain(t)
  PROVE  Manager!Next
<1> DEFINE f == node[cur[t]].file
<1>1. /\ pc[t] = "open" /\ pc[t] \in Walks /\ Hit(t) /\ ofm_lock' = NULL
      /\ UNCHANGED <<mounted, firstOpenFile, openFiles, node>>
      /\ file' = [file EXCEPT ![f].referenceCount = @ + 1]
  BY DEF OpenAgain, Walks, Return
<1>2. /\ \A steps : Doing(steps) <=> pc[t] \in steps
      /\ ofm_lock = t /\ arg[t] \in Paths /\ Owners(s) = On(s)
  BY <1>1, WalkPlace
<1>3. PICK i \in 1..Len(s) : cur[t] = s[i] /\ Missed(s, i - 1)
  BY <1>1, WalkPlace DEF Hit
<1>4. Shows(s)
  <2>1. s = Shown(s)
    BY <1>1, <1>2 DEF Shown, Sweeps
  <2> QED BY <2>1, ListIsShown
<1>5. Shows(s)'
  <2>1. TypeOK' /\ LockOK' /\ ListOK(s)'
    BY OpenAgainInv
  <2>2. s = Shown(s)'
    BY <1>1, OutsideNext DEF Shown
  <2> QED BY <2>1, <2>2, ListIsShownNext
<1>6. /\ f \in Files /\ file[f] # NULL /\ file[f] \in FileMemoryStruct_t
      /\ f = node[s[i]].file
  BY <1>1, <1>3, HitNode DEF TypeOK
<1>7. file[f].blobID \in Blobs /\ file[f].referenceCount \in Nat
  BY <1>6, OpenFileListAssumption DEF FileMemoryStruct_t
<1>8. PICK p : p = arg[t]
  OBVIOUS
<1>9. i \in Manager!Hits(p) /\ Manager!FirstHit(p, i)
  <2>1. Matches(p, node[s[i]].path)
    BY <1>1, <1>3, <1>8 DEF Hit
  <2>2. \A j \in 1..(i - 1) : ~Matches(p, node[s[j]].path)
    BY <1>2, <1>3, <1>8 DEF Missed
  <2>3. Len(s) \in Nat
    BY DEF ListOK, Links
  <2> QED BY <1>4, <2>1, <2>2, <2>3, WalkFindsFirst
<1> HIDE DEF f
<1>10. /\ file'[f].referenceCount = file[f].referenceCount + 1
       /\ file'[f].blobID = file[f].blobID /\ file'[f].memory = file[f].memory
       /\ \A g \in Files \ {f} : file'[g] = file[g]
  BY <1>1, <1>6 DEF TypeOK, FileMemoryStruct_t
<1>11. /\ ListSeq[i] = f /\ ListSeq' = ListSeq /\ countSeen' = countSeen
       /\ pathSeen' = pathSeen /\ blobSeen' = blobSeen /\ memorySeen' = memorySeen
       /\ refsSeen' = [refsSeen EXCEPT ![f] = refsSeen[f] + 1]
  <2>1. PICK g : g = f
    OBVIOUS
  <2>2. node' = node /\ g = node[s[i]].file /\ \A h \in Files \ {g} : file'[h] = file[h]
    BY <1>1, <1>6, <1>10, <2>1
  <2>3. /\ g \in Files /\ ListSeq[i] = g
        /\ ListSeq' = ListSeq /\ countSeen' = countSeen /\ pathSeen' = pathSeen
        /\ refsSeen' = [refsSeen EXCEPT ![g] = file'[g].referenceCount]
        /\ refsSeen[g] = file[g].referenceCount
        /\ (file'[g].blobID = file[g].blobID => blobSeen' = blobSeen)
        /\ (file'[g].memory = file[g].memory => memorySeen' = memorySeen)
    BY <1>4, <1>5, <2>2, OneChanges
  <2> QED BY <1>10, <2>1, <2>3
<1>12. Manager!BelowRefBound
  <2>1. BelowRefBound
    BY <1>1, <1>2 DEF ListOK, SurgeryOK
  <2>2. \A n \in On(s) : file[node[n].file] # NULL
    BY <1>2 DEF ListOK, FilesOK
  <2> QED BY <1>4, <2>1, <2>2, ManagerBelowBound
<1>13. Manager!ReturnExisting(p, f)
  BY <1>9, <1>11 DEF Manager!ReturnExisting, countSeen, pathSeen, blobSeen, memorySeen, refsSeen
<1> QED
  BY <1>2, <1>6, <1>7, <1>8, <1>12, <1>13 DEF Manager!Next, Manager!openFile

LEMMA AllocFileStep ==
  ASSUME TypeOK, LockOK, NEW s, ListOK(s),
         NEW t \in Threads, NEW b \in Blobs, AllocFile(t, b)
  PROVE  Manager!Next
<1>1. PICK n : n = cur[t]
  OBVIOUS
<1>2. PICK c : c = <<n>> \o s
  OBVIOUS
<1>3. /\ TypeOK' /\ LockOK' /\ ListOK(c)' /\ ofm_lock' = NULL
      /\ n \in Nodes \ On(s) /\ node'[n].path = arg[t]
      /\ \A m \in On(s) : node'[m] = node[m]
      /\ \E f \in Files :
           /\ file[f] = NULL /\ node'[n].file = f
           /\ file'[f] = [blobID |-> b, memory |-> NULL, referenceCount |-> 1]
           /\ \A h \in Files \ {f} : file'[h] = file[h]
  BY <1>1, <1>2, AllocFileInv
<1>4. PICK g \in Files :
        /\ file[g] = NULL /\ node'[n].file = g
        /\ file'[g].blobID = b /\ file'[g].memory = NULL /\ file'[g].referenceCount = 1
        /\ \A h \in Files \ {g} : file'[h] = file[h]
  BY <1>3
<1>5. /\ pc[t] = "alloc_file" /\ arg[t] \in Paths /\ Owners(s) = On(s)
      /\ ofm_lock = t /\ \A steps : Doing(steps) <=> pc[t] \in steps
      /\ Missed(s, Len(s)) /\ BelowRefBound
  BY HandPlace DEF AllocFile
<1>6. Shows(s)
  <2>1. s = Shown(s)
    BY <1>5 DEF Shown, Sweeps
  <2> QED BY <2>1, ListIsShown
<1>7. Shows(c)'
  <2>1. c = Shown(c)'
    BY <1>3, OutsideNext DEF Shown
  <2> QED BY <1>3, <2>1, ListIsShownNext
<1>8. /\ \A m \in On(s) : file[node[m].file] # NULL /\ node[m].file # g
      /\ s \in Seq(Nodes)
  BY <1>4, <1>5 DEF ListOK, FilesOK, Links
<1>9. /\ c \in Seq(Nodes) /\ Len(c) = Len(s) + 1 /\ c[1] = n
      /\ \A i \in 1..Len(s) : c[i + 1] = s[i]
      /\ On(c) = On(s) \cup {n}
  BY <1>2, <1>3, <1>8, FirstProperties
<1>10. PICK p : p = arg[t]
  OBVIOUS
<1>11. Manager!Hits(p) = {}
  <2>1. \A i \in 1..Len(s) : ~Matches(p, node[s[i]].path)
    BY <1>5, <1>10 DEF Missed
  <2> QED BY <1>6, <2>1, ManagerHits
<1>12. g \in Files \ Manager!Listed
  <2>1. ListedFiles = {node[m].file : m \in On(s)}
    BY <1>5, ListSeqIs DEF Sweeps
  <2> QED BY <1>8, <2>1, ManagerListed
<1>13. ListSeq' = Manager!Cons(g, ListSeq)
  <2>1. /\ ListSeq \in Seq(Files) /\ Len(ListSeq) = Len(s)
        /\ \A i \in 1..Len(s) : ListSeq[i] = node[s[i]].file
    BY <1>6 DEF Shows
  <2>2. /\ ListSeq' \in Seq(Files) /\ Len(ListSeq') = Len(c)
        /\ \A i \in 1..Len(c) : ListSeq'[i] = node'[c[i]].file
    BY <1>7 DEF Shows
  <2> DEFINE q == <<g>> \o ListSeq
  <2>3. /\ q \in Seq(Files) /\ Len(q) = Len(ListSeq) + 1 /\ q[1] = g
        /\ \A i \in 1..(Len(ListSeq) + 1) :
             i # 1 => i - 1 \in 1..Len(ListSeq) /\ q[i] = ListSeq[i - 1]
    BY <2>1, FirstProperties
  <2>4. \A i \in 1..Len(s) : s[i] \in On(s)
    BY DEF On
  <2> HIDE DEF q
  <2>5. ASSUME NEW i \in 1..Len(c) PROVE ListSeq'[i] = q[i]
    <3>1. CASE i = 1
      BY <1>4, <1>9, <2>2, <2>3, <3>1
    <3>2. CASE i # 1
      <4>0. Len(s) \in Nat /\ i \in 1..(Len(s) + 1)
        BY <1>8, <1>9
      <4>1. i - 1 \in 1..Len(s) /\ q[i] = ListSeq[i - 1] /\ (i - 1) + 1 = i
        BY <2>1, <2>3, <3>2, <4>0
      <4>2. c[i] = s[i - 1] /\ ListSeq[i - 1] = node[s[i - 1]].file
        BY <1>9, <2>1, <4>1
      <4> QED BY <1>3, <2>2, <2>4, <4>1, <4>2
    <3> QED BY <3>1, <3>2
  <2>6. ListSeq' = q
    BY <1>9, <2>1, <2>2, <2>3, <2>5, SeqEqual
  <2> QED BY <2>6 DEF q, Manager!Cons
<1>14. countSeen' = countSeen + 1
  BY <1>6, <1>7, <1>9 DEF Shows
<1>15. /\ pathSeen' = [pathSeen EXCEPT ![g] = p]
       /\ blobSeen' = [blobSeen EXCEPT ![g] = b]
       /\ memorySeen' = [memorySeen EXCEPT ![g] = NULL]
       /\ refsSeen' = [refsSeen EXCEPT ![g] = 1]
  <2>1. /\ pathSeen'[g] = p /\ blobSeen'[g] = b /\ memorySeen'[g] = NULL /\ refsSeen'[g] = 1
    <3>1. n \in On(c)
      BY <1>9
    <3>2. /\ pathSeen'[node'[n].file] = node'[n].path
          /\ blobSeen'[node'[n].file] = file'[node'[n].file].blobID
          /\ memorySeen'[node'[n].file] = file'[node'[n].file].memory
          /\ refsSeen'[node'[n].file] = file'[node'[n].file].referenceCount
      BY <1>7, <3>1 DEF Shows
    <3> QED BY <1>3, <1>4, <1>10, <3>2
  <2>2. ASSUME NEW f \in Files \ {g}
        PROVE  /\ pathSeen'[f] = pathSeen[f] /\ blobSeen'[f] = blobSeen[f]
               /\ memorySeen'[f] = memorySeen[f] /\ refsSeen'[f] = refsSeen[f]
    <3>1. CASE \E m \in On(s) : node[m].file = f
      <4>1. PICK m \in On(s) : node[m].file = f
        BY <3>1
      <4>2. node'[m] = node[m] /\ m \in On(c) /\ file'[f] = file[f]
        BY <1>3, <1>4, <1>9, <4>1
      <4>3. /\ pathSeen[f] = node[m].path /\ blobSeen[f] = file[f].blobID
            /\ memorySeen[f] = file[f].memory /\ refsSeen[f] = file[f].referenceCount
        BY <1>6, <4>1 DEF Shows
      <4>4. node'[m].file = f
        BY <4>1, <4>2
      <4>5. /\ pathSeen'[f] = node'[m].path /\ blobSeen'[f] = file'[f].blobID
            /\ memorySeen'[f] = file'[f].memory /\ refsSeen'[f] = file'[f].referenceCount
        BY <1>7, <4>2, <4>4 DEF Shows
      <4> QED BY <4>2, <4>3, <4>5
    <3>2. CASE \A m \in On(s) : node[m].file # f
      <4>1. \A m \in On(c) : node'[m].file # f
        BY <1>3, <1>4, <1>9, <3>2
      <4>2. pathSeen[f] = NULL /\ blobSeen[f] = NULL /\ memorySeen[f] = NULL /\ refsSeen[f] = 0
        BY <1>6, <3>2 DEF Shows
      <4>3. /\ pathSeen'[f] = NULL /\ blobSeen'[f] = NULL
            /\ memorySeen'[f] = NULL /\ refsSeen'[f] = 0
        BY <1>7, <4>1 DEF Shows
      <4> QED BY <4>2, <4>3
    <3> QED BY <3>1, <3>2
  <2>3. /\ pathSeen = [f \in Files |-> pathSeen[f]] /\ blobSeen = [f \in Files |-> blobSeen[f]]
        /\ memorySeen = [f \in Files |-> memorySeen[f]]
        /\ refsSeen = [f \in Files |-> refsSeen[f]]
    BY <1>6 DEF Shows
  <2>4. /\ pathSeen' = [f \in Files |-> pathSeen'[f]]
        /\ blobSeen' = [f \in Files |-> blobSeen'[f]]
        /\ memorySeen' = [f \in Files |-> memorySeen'[f]]
        /\ refsSeen' = [f \in Files |-> refsSeen'[f]]
    BY <1>7 DEF Shows
  <2>5. pathSeen' = [pathSeen EXCEPT ![g] = p]
    BY <2>1, <2>2, <2>3, <2>4
  <2>6. blobSeen' = [blobSeen EXCEPT ![g] = b]
    BY <2>1, <2>2, <2>3, <2>4
  <2>7. memorySeen' = [memorySeen EXCEPT ![g] = NULL]
    BY <2>1, <2>2, <2>3, <2>4
  <2>8. refsSeen' = [refsSeen EXCEPT ![g] = 1]
    BY <2>1, <2>2, <2>3, <2>4
  <2> QED BY <2>5, <2>6, <2>7, <2>8
<1>16. Manager!BelowRefBound
  BY <1>5, <1>6, <1>8, ManagerBelowBound
<1>17. Manager!PushContext(p, b, g)
  BY <1>12, <1>13, <1>14, <1>15
     DEF Manager!PushContext, countSeen, pathSeen, blobSeen, memorySeen, refsSeen
<1> QED
  BY <1>5, <1>10, <1>11, <1>16, <1>17 DEF Manager!Next, Manager!openFile

\* What a closing finds is what the manager's closing finds.
LEMMA CloseFinds ==
  ASSUME TypeOK, LockOK, NEW s, ListOK(s), NEW t \in Threads, pc[t] = "close", Hit(t),
         NEW i \in 1..Len(s), cur[t] = s[i], Missed(s, i - 1), NEW p, p = arg[t]
  PROVE  /\ ofm_lock = t /\ \A steps : Doing(steps) <=> pc[t] \in steps
         /\ Shows(s) /\ p \in Paths
         /\ i \in Manager!Hits(p) /\ Manager!FirstHit(p, i)
         /\ node[cur[t]].file = node[s[i]].file
         /\ file[node[s[i]].file] # NULL
         /\ file[node[s[i]].file] \in FileMemoryStruct_t
<1>1. pc[t] \in Walks
  BY DEF Walks
<1>2. /\ \A steps : Doing(steps) <=> pc[t] \in steps
      /\ ofm_lock = t /\ arg[t] \in Paths
  BY <1>1, WalkPlace
<1>3. Shows(s)
  <2>1. s = Shown(s)
    BY <1>2 DEF Shown, Sweeps
  <2> QED BY <2>1, ListIsShown
<1>4. i \in Manager!Hits(p) /\ Manager!FirstHit(p, i)
  <2>1. Matches(p, node[s[i]].path)
    BY DEF Hit
  <2>2. \A j \in 1..(i - 1) : ~Matches(p, node[s[j]].path)
    BY <1>2 DEF Missed
  <2>3. Len(s) \in Nat
    BY DEF ListOK, Links
  <2> QED BY <1>3, <2>1, <2>2, <2>3, WalkFindsFirst
<1> QED
  BY <1>1, <1>2, <1>3, <1>4, HitNode DEF TypeOK

LEMMA DropReferenceStep ==
  ASSUME TypeOK, LockOK, NEW s, ListOK(s), NEW t \in Threads, DropReference(t)
  PROVE  Manager!Next
<1>1. PICK f : f = node[cur[t]].file
  OBVIOUS
<1>2. /\ pc[t] = "close" /\ Hit(t) /\ ofm_lock' = NULL /\ node' = node
      /\ file[f].referenceCount > 1
      /\ file' = [file EXCEPT ![f].referenceCount = @ - 1]
  BY <1>1 DEF DropReference, Return
<1>3. PICK i \in 1..Len(s) : cur[t] = s[i] /\ Missed(s, i - 1)
  BY <1>2, ClosePlace
<1>4. PICK p : p = arg[t]
  OBVIOUS
<1>5. /\ Shows(s) /\ p \in Paths
      /\ i \in Manager!Hits(p) /\ Manager!FirstHit(p, i)
      /\ f = node[s[i]].file
      /\ file[f] # NULL /\ file[f] \in FileMemoryStruct_t
  BY <1>1, <1>2, <1>3, <1>4, CloseFinds
<1>6. Shows(s)'
  <2>1. TypeOK' /\ LockOK' /\ ListOK(s)'
    BY DropReferenceInv
  <2>2. s = Shown(s)'
    BY <1>2, OutsideNext DEF Shown
  <2> QED BY <2>1, <2>2, ListIsShownNext
<1>7. f \in Files
  BY <1>3, <1>5 DEF Shows, On
<1>8. /\ file'[f].referenceCount = file[f].referenceCount - 1
      /\ file'[f].blobID = file[f].blobID /\ file'[f].memory = file[f].memory
      /\ \A g \in Files \ {f} : file'[g] = file[g]
  BY <1>2, <1>5, <1>7 DEF TypeOK, FileMemoryStruct_t
<1>9. /\ ListSeq[i] = f /\ ListSeq' = ListSeq /\ countSeen' = countSeen
      /\ pathSeen' = pathSeen /\ blobSeen' = blobSeen /\ memorySeen' = memorySeen
      /\ refsSeen[f] > 1
      /\ refsSeen' = [refsSeen EXCEPT ![f] = refsSeen[f] - 1]
  <2>0. /\ Shows(s) /\ f = node[s[i]].file /\ node' = node
        /\ \A g \in Files \ {f} : file'[g] = file[g]
    BY <1>2, <1>5, <1>8
  <2>1. /\ ListSeq[i] = f
        /\ ListSeq' = ListSeq /\ countSeen' = countSeen /\ pathSeen' = pathSeen
        /\ refsSeen' = [refsSeen EXCEPT ![f] = file'[f].referenceCount]
        /\ refsSeen[f] = file[f].referenceCount
        /\ (file'[f].blobID = file[f].blobID => blobSeen' = blobSeen)
        /\ (file'[f].memory = file[f].memory => memorySeen' = memorySeen)
    BY <1>6, <2>0, OneChanges
  <2> QED BY <1>2, <1>8, <2>1
<1>10. Manager!DropReference(ListSeq[i])
  BY <1>9 DEF Manager!DropReference, countSeen, pathSeen, blobSeen, memorySeen, refsSeen
<1>11. Manager!closeFile(p)
  BY <1>5, <1>10 DEF Manager!closeFile
<1> QED
  BY <1>5, <1>11 DEF Manager!Next

LEMMA UnlinkStep ==
  ASSUME TypeOK, LockOK, NEW s, ListOK(s), NEW t \in Threads, Unlink(t)
  PROVE  Manager!Next
<1>1. /\ pc[t] = "close" /\ Hit(t) /\ file' = file
      /\ file[node[cur[t]].file].referenceCount <= 1
  BY DEF Unlink
<1>2. PICK i \in 1..Len(s) : cur[t] = s[i] /\ prev[t] = At(s, i - 1) /\ Missed(s, i - 1)
  BY <1>1, ClosePlace
<1>3. PICK p : p = arg[t]
  OBVIOUS
<1>4. PICK f : f = node[s[i]].file
  OBVIOUS
<1>5. /\ Shows(s) /\ p \in Paths
      /\ i \in Manager!Hits(p) /\ Manager!FirstHit(p, i)
      /\ node[cur[t]].file = node[s[i]].file
  BY <1>1, <1>2, <1>3, CloseFinds
<1>6. PICK w : w = Without(s, i)
  OBVIOUS
<1>7. /\ TypeOK' /\ LockOK' /\ ListOK(w)' /\ ~Doing(Sweeps)'
      /\ \A n \in On(s) : node'[n].file = node[n].file /\ node'[n].path = node[n].path
  BY <1>2, <1>6, UnlinkInv
<1>8. Shows(w)'
  <2>1. w = Shown(w)'
    BY <1>7 DEF Shown
  <2> QED BY <1>7, <2>1, ListIsShownNext
<1>9. /\ s \in Seq(Nodes) /\ \A j, k \in 1..Len(s) : s[j] = s[k] => j = k
      /\ ListSeq \in Seq(Files) /\ Len(ListSeq) = Len(s)
      /\ \A j \in 1..Len(s) : ListSeq[j] = node[s[j]].file /\ s[j] \in On(s)
      /\ \A m, n \in On(s) : node[m].file = node[n].file => m = n
      /\ \A n \in On(s) : node[n].file \in Files
  <2>1. \A j \in 1..Len(s) : s[j] \in On(s)
    BY DEF On
  <2> QED BY <1>5, <2>1 DEF Shows
<1>10. /\ Len(w) = Len(s) - 1
       /\ \A j \in 1..(Len(s) - 1) : w[j] = IF j < i THEN s[j] ELSE s[j + 1]
  <2>1. s \in Seq(Nodes)
    BY <1>9
  <2> QED BY <1>6, <2>1, WithoutProperties
<1>11. On(w) = On(s) \ {s[i]}
  BY <1>6, <1>9, WithoutElements
<1>12. ListSeq' = Manager!RemoveAt(ListSeq, i)
  <2> DEFINE q == Without(ListSeq, i)
  <2>1. /\ q \in Seq(Files) /\ Len(q) = Len(ListSeq) - 1
        /\ \A j \in 1..(Len(ListSeq) - 1) :
             q[j] = IF j < i THEN ListSeq[j] ELSE ListSeq[j + 1]
    BY <1>9, WithoutProperties
  <2>2. /\ ListSeq' \in Seq(Files) /\ Len(ListSeq') = Len(w)
        /\ \A j \in 1..Len(w) : ListSeq'[j] = node'[w[j]].file
    BY <1>8 DEF Shows
  <2>3. Manager!RemoveAt(ListSeq, i) = q
    BY <1>9, WithoutJoined DEF Manager!RemoveAt
  <2> HIDE DEF q
  <2>4. ASSUME NEW j \in 1..(Len(s) - 1) PROVE ListSeq'[j] = q[j]
    <3>1. Len(s) \in Nat /\ j \in 1..Len(s) /\ j + 1 \in 1..Len(s)
      BY <1>9
    <3>2. ListSeq'[j] = node'[w[j]].file
      BY <1>10, <2>2
    <3>3. CASE j < i
      BY <1>7, <1>9, <1>10, <2>1, <3>1, <3>2, <3>3
    <3>4. CASE ~(j < i)
      BY <1>7, <1>9, <1>10, <2>1, <3>1, <3>2, <3>4
    <3> QED BY <3>3, <3>4
  <2>5. ListSeq' = q
    BY <1>9, <1>10, <2>1, <2>2, <2>4, SeqEqual
  <2> QED BY <2>3, <2>5
<1>13. countSeen' = countSeen - 1
  BY <1>5, <1>8, <1>10 DEF Shows
<1>14. f \in Files /\ s[i] \in On(s) /\ ListSeq[i] = f
  BY <1>4, <1>9
<1>15. refsSeen[f] <= 1
  <2>1. refsSeen[f] = file[f].referenceCount
    BY <1>4, <1>5, <1>14 DEF Shows
  <2> QED BY <1>1, <1>4, <1>5, <2>1
<1>16. /\ pathSeen' = [pathSeen EXCEPT ![f] = NULL]
       /\ blobSeen' = [blobSeen EXCEPT ![f] = NULL]
       /\ memorySeen' = [memorySeen EXCEPT ![f] = NULL]
       /\ refsSeen' = [refsSeen EXCEPT ![f] = 0]
  <2>1. pathSeen'[f] = NULL /\ blobSeen'[f] = NULL /\ memorySeen'[f] = NULL /\ refsSeen'[f] = 0
    <3>1. \A m \in On(w) : node'[m].file # f
      BY <1>4, <1>7, <1>9, <1>11, <1>14
    <3> QED BY <1>8, <1>14, <3>1 DEF Shows
  <2>2. ASSUME NEW g \in Files \ {f}
        PROVE  /\ pathSeen'[g] = pathSeen[g] /\ blobSeen'[g] = blobSeen[g]
               /\ memorySeen'[g] = memorySeen[g] /\ refsSeen'[g] = refsSeen[g]
    <3>1. CASE \E m \in On(s) : node[m].file = g
      <4>1. PICK m \in On(s) : node[m].file = g
        BY <3>1
      <4>2. m \in On(w) /\ node'[m].file = g /\ node'[m].path = node[m].path
        BY <1>4, <1>7, <1>11, <4>1
      <4>3. /\ pathSeen[g] = node[m].path /\ blobSeen[g] = file[g].blobID
            /\ memorySeen[g] = file[g].memory /\ refsSeen[g] = file[g].referenceCount
        BY <1>5, <4>1 DEF Shows
      <4>4. /\ pathSeen'[g] = node'[m].path /\ blobSeen'[g] = file'[g].blobID
            /\ memorySeen'[g] = file'[g].memory /\ refsSeen'[g] = file'[g].referenceCount
        BY <1>8, <4>2 DEF Shows
      <4> QED BY <1>1, <4>2, <4>3, <4>4
    <3>2. CASE \A m \in On(s) : node[m].file # g
      <4>1. \A m \in On(w) : node'[m].file # g
        BY <1>7, <1>11, <3>2
      <4>2. pathSeen[g] = NULL /\ blobSeen[g] = NULL /\ memorySeen[g] = NULL /\ refsSeen[g] = 0
        BY <1>5, <3>2 DEF Shows
      <4>3. /\ pathSeen'[g] = NULL /\ blobSeen'[g] = NULL
            /\ memorySeen'[g] = NULL /\ refsSeen'[g] = 0
        BY <1>8, <4>1 DEF Shows
      <4> QED BY <4>2, <4>3
    <3> QED BY <3>1, <3>2
  <2>3. /\ pathSeen = [g \in Files |-> pathSeen[g]] /\ blobSeen = [g \in Files |-> blobSeen[g]]
        /\ memorySeen = [g \in Files |-> memorySeen[g]]
        /\ refsSeen = [g \in Files |-> refsSeen[g]]
    BY <1>5 DEF Shows
  <2>4. /\ pathSeen' = [g \in Files |-> pathSeen'[g]]
        /\ blobSeen' = [g \in Files |-> blobSeen'[g]]
        /\ memorySeen' = [g \in Files |-> memorySeen'[g]]
        /\ refsSeen' = [g \in Files |-> refsSeen'[g]]
    BY <1>8 DEF Shows
  <2>5. pathSeen' = [pathSeen EXCEPT ![f] = NULL]
    BY <2>1, <2>2, <2>3, <2>4
  <2>6. blobSeen' = [blobSeen EXCEPT ![f] = NULL]
    BY <2>1, <2>2, <2>3, <2>4
  <2>7. memorySeen' = [memorySeen EXCEPT ![f] = NULL]
    BY <2>1, <2>2, <2>3, <2>4
  <2>8. refsSeen' = [refsSeen EXCEPT ![f] = 0]
    BY <2>1, <2>2, <2>3, <2>4
  <2> QED BY <2>5, <2>6, <2>7, <2>8
<1>17. Manager!Unlink(i)
  BY <1>12, <1>13, <1>14, <1>15, <1>16
     DEF Manager!Unlink, Manager!Clear, countSeen, pathSeen, blobSeen, memorySeen, refsSeen
<1>18. Manager!closeFile(p)
  BY <1>5, <1>17 DEF Manager!closeFile
<1> QED
  BY <1>5, <1>18 DEF Manager!Next

\* An empty list shows nothing.
LEMMA EmptyShown ==
  ASSUME NEW v, v = << >>, Shows(v)
  PROVE  /\ ListSeq = << >> /\ countSeen = 0
         /\ pathSeen = [f \in Files |-> NULL] /\ blobSeen = [f \in Files |-> NULL]
         /\ memorySeen = [f \in Files |-> NULL] /\ refsSeen = [f \in Files |-> 0]
<1>1. On(v) = {}
  BY DEF On
<1>2. ListSeq = << >> /\ countSeen = 0
  BY DEF Shows
<1>3. \A f \in Files :
        pathSeen[f] = NULL /\ blobSeen[f] = NULL /\ memorySeen[f] = NULL /\ refsSeen[f] = 0
  BY <1>1 DEF Shows
<1>4. /\ pathSeen = [f \in Files |-> pathSeen[f]] /\ blobSeen = [f \in Files |-> blobSeen[f]]
      /\ memorySeen = [f \in Files |-> memorySeen[f]]
      /\ refsSeen = [f \in Files |-> refsSeen[f]]
  BY DEF Shows
<1> QED
  BY <1>2, <1>3, <1>4

LEMMA EmptyShownNext ==
  (\A v : v = << >> /\ Shows(v) =>
     /\ ListSeq = << >> /\ countSeen = 0
     /\ pathSeen = [f \in Files |-> NULL] /\ blobSeen = [f \in Files |-> NULL]
     /\ memorySeen = [f \in Files |-> NULL] /\ refsSeen = [f \in Files |-> 0])'
<1>1. \A v : v = << >> /\ Shows(v) =>
        /\ ListSeq = << >> /\ countSeen = 0
        /\ pathSeen = [f \in Files |-> NULL] /\ blobSeen = [f \in Files |-> NULL]
        /\ memorySeen = [f \in Files |-> NULL] /\ refsSeen = [f \in Files |-> 0]
  BY EmptyShown
<1> QED
  BY <1>1, PTL

LEMMA CloseAllStep ==
  ASSUME TypeOK, LockOK, NEW s, ListOK(s), NEW t \in Threads, CloseAll(t)
  PROVE  Manager!Next
<1>1. ofm_lock = NULL /\ Doing(Sweeps)'
  BY OpenFileListAssumption DEF CloseAll, Goto, Doing, TypeOK, Sweeps
<1>2. Shows(s)
  <2>1. s = Shown(s)
    BY <1>1, Outside DEF Shown
  <2> QED BY <2>1, ListIsShown
<1>3. PICK v : v = << >>
  OBVIOUS
<1>4. Shows(v)'
  <2>1. TypeOK' /\ LockOK' /\ ListOK(s)'
    BY CloseAllInv
  <2>2. v = Shown(s)'
    BY <1>1, <1>3 DEF Shown
  <2> QED BY <2>1, <2>2, ListIsShownNext
<1>5. /\ ListSeq' = << >> /\ countSeen' = 0
      /\ pathSeen' = [f \in Files |-> NULL] /\ blobSeen' = [f \in Files |-> NULL]
      /\ memorySeen' = [f \in Files |-> NULL] /\ refsSeen' = [f \in Files |-> 0]
  BY <1>3, <1>4, EmptyShownNext
<1>6. countSeen' = countSeen - Len(ListSeq)
  BY <1>2, <1>5 DEF Shows
<1>7. Manager!closeAllFiles
  BY <1>5, <1>6 DEF Manager!closeAllFiles, countSeen, pathSeen, blobSeen, memorySeen, refsSeen
<1> QED
  BY <1>7 DEF Manager!Next

\* To the manager the sweep is over when it begins.
LEMMA SweepQuiet ==
  ASSUME TypeOK, LockOK, NEW s, ListOK(s), NEW t \in Threads,
         Sweep(t) \/ FreeSwept(t) \/ SweepEnd(t)
  PROVE  UNCHANGED Manager!ofmVars
<1>1. PICK v : v = << >>
  OBVIOUS
<1>2. Shows(v)
  <2>1. Doing(Sweeps)
    <3>1. pc[t] \in Sweeps
      BY DEF Sweep, FreeSwept, SweepEnd, Sweeps
    <3> QED BY <3>1, Holder DEF Inside
  <2>2. v = Shown(s)
    BY <1>1, <2>1 DEF Shown
  <2> QED BY <2>2, ListIsShown
<1>3. Shows(v)'
  <2>0. CASE Sweep(t)
    <3>1. TypeOK' /\ LockOK' /\ ListOK(s)' /\ Doing(Sweeps)'
      BY <2>0, SweepInv
    <3>2. v = Shown(s)'
      BY <1>1, <3>1 DEF Shown
    <3> QED BY <3>1, <3>2, ListIsShownNext
  <2>1. CASE FreeSwept(t)
    <3>1. PICK w : w = Without(s, 1)
      OBVIOUS
    <3>2. TypeOK' /\ LockOK' /\ ListOK(w)' /\ Doing(Sweeps)'
      BY <2>1, <3>1, FreeSweptInv
    <3>3. v = Shown(w)'
      BY <1>1, <3>2 DEF Shown
    <3> QED BY <3>2, <3>3, ListIsShownNext
  <2>2. CASE SweepEnd(t)
    <3>1. TypeOK' /\ LockOK' /\ ListOK(<< >>)' /\ ofm_lock' = NULL
      BY <2>2, SweepEndInv
    <3>2. v = Shown(<< >>)'
      BY <1>1, <3>1, OutsideNext DEF Shown
    <3> QED BY <3>1, <3>2, ListIsShownNext
  <2> QED BY <2>0, <2>1, <2>2
<1>4. On(v) = {}
  BY <1>1 DEF On
<1> QED
  BY <1>2, <1>3, <1>4, Stutters

LEMMA StoreStep ==
  ASSUME TypeOK, LockOK, NEW s, ListOK(s), NEW f \in Files, Store(f)
  PROVE  Manager!Next
<1>1. /\ f \in ListedFiles /\ node' = node /\ pc' = pc /\ ofm_lock' = ofm_lock
      /\ file' = [file EXCEPT ![f].memory = file[f].blobID]
  BY DEF Store
<1>2. /\ ~Doing(Sweeps) /\ file[f] # NULL /\ file[f] \in FileMemoryStruct_t
      /\ \E i \in 1..Len(s) : f = node[s[i]].file
  BY <1>1, ListedFile DEF TypeOK
<1>3. PICK i \in 1..Len(s) : f = node[s[i]].file
  BY <1>2
<1>4. Shows(s)
  <2>1. s = Shown(s)
    BY <1>2 DEF Shown
  <2> QED BY <2>1, ListIsShown
<1>5. Shows(s)'
  <2>1. TypeOK' /\ LockOK' /\ ListOK(s)'
    BY StoreInv
  <2>2. s = Shown(s)'
    BY <1>1, <1>2 DEF Shown, Doing
  <2> QED BY <2>1, <2>2, ListIsShownNext
<1>6. /\ file'[f].memory = file[f].blobID /\ file'[f].blobID = file[f].blobID
      /\ file'[f].referenceCount = file[f].referenceCount
      /\ \A g \in Files \ {f} : file'[g] = file[g]
  BY <1>1, <1>2 DEF TypeOK, FileMemoryStruct_t
<1>7. /\ ListSeq' = ListSeq /\ countSeen' = countSeen /\ pathSeen' = pathSeen
      /\ blobSeen' = blobSeen /\ refsSeen' = refsSeen
      /\ memorySeen' = [memorySeen EXCEPT ![f] = blobSeen[f]]
  <2>0. node' = node /\ \A g \in Files \ {f} : file'[g] = file[g]
    BY <1>1, <1>6
  <2>1. /\ ListSeq' = ListSeq /\ countSeen' = countSeen /\ pathSeen' = pathSeen
        /\ memorySeen' = [memorySeen EXCEPT ![f] = file'[f].memory]
        /\ blobSeen[f] = file[f].blobID
        /\ (file'[f].blobID = file[f].blobID => blobSeen' = blobSeen)
        /\ (file'[f].referenceCount = file[f].referenceCount => refsSeen' = refsSeen)
    BY <1>3, <1>4, <1>5, <2>0, OneChanges
  <2> QED BY <1>6, <2>1
<1>8. Manager!StoreMemory(f, blobSeen[f])
  BY <1>7 DEF Manager!StoreMemory, countSeen, pathSeen, blobSeen, memorySeen, refsSeen
<1> QED
  BY <1>1, <1>8, ManagerListed DEF Manager!Next, blobSeen

LEMMA ManagerInit ==
  ASSUME Init
  PROVE  Manager!Init
<1>1. PICK v : v = << >>
  OBVIOUS
<1>2. Shows(v)
  <2>1. TypeOK /\ LockOK /\ ListOK(<< >>)
    BY InitInv
  <2>2. v = Shown(<< >>)
    BY <1>1 DEF Shown
  <2> QED BY <2>1, <2>2, ListIsShown
<1>3. /\ ListSeq = << >> /\ countSeen = 0
      /\ pathSeen = [f \in Files |-> NULL] /\ blobSeen = [f \in Files |-> NULL]
      /\ memorySeen = [f \in Files |-> NULL] /\ refsSeen = [f \in Files |-> 0]
  BY <1>1, <1>2, EmptyShown
<1> QED
  BY <1>3 DEF Manager!Init, countSeen, pathSeen, blobSeen, memorySeen, refsSeen

LEMMA ManagerNext ==
  ASSUME CleanNodes, ListInv, [Next]_vars
  PROVE  [Manager!Next]_Manager!ofmVars
<1>1. TypeOK /\ LockOK
  BY DEF ListInv
<1>2. PICK s : ListOK(s)
  BY DEF ListInv
<1>3. ASSUME NEW t \in Threads, Call(t) PROVE UNCHANGED Manager!ofmVars
  BY <1>1, <1>2, <1>3, QuietStep
<1>4. ASSUME NEW t \in Threads, CloseAll(t) PROVE Manager!Next
  BY <1>1, <1>2, <1>4, CloseAllStep
<1>5. ASSUME NEW t \in Threads, LockedStep(t) PROVE [Manager!Next]_Manager!ofmVars
  <2>1. CASE \/ WalkOn(t) \/ WalkEnd(t) \/ AllocNode(t) \/ AllocNodeFails(t)
             \/ AllocFileFails(t) \/ FreeUnlinked(t)
    BY <1>1, <1>2, <2>1, QuietStep
  <2>2. CASE OpenAgain(t)
    BY <1>1, <1>2, <2>2, OpenAgainStep
  <2>3. ASSUME NEW b \in Blobs, AllocFile(t, b) PROVE Manager!Next
    BY <1>1, <1>2, <2>3, AllocFileStep
  <2>4. CASE DropReference(t)
    BY <1>1, <1>2, <2>4, DropReferenceStep
  <2>5. CASE Unlink(t)
    BY <1>1, <1>2, <2>5, UnlinkStep
  <2>6. CASE Sweep(t) \/ FreeSwept(t) \/ SweepEnd(t)
    BY <1>1, <1>2, <2>6, SweepQuiet
  <2> QED BY <1>5, <2>1, <2>2, <2>3, <2>4, <2>5, <2>6 DEF LockedStep
<1>6. ASSUME NEW t \in Threads, NEW op \in Walks, NEW p \in Paths, Lock(t, op, p)
      PROVE  UNCHANGED Manager!ofmVars
  BY <1>1, <1>2, <1>6, QuietStep
<1>7. ASSUME NEW f \in Files, Store(f) PROVE Manager!Next
  BY <1>1, <1>2, <1>7, StoreStep
<1>8. CASE UNCHANGED vars
  <2>1. TypeOK' /\ LockOK' /\ ListOK(s)'
    <3>1. ListOK(s)'
      BY <1>2, <1>8, ListKept DEF vars
    <3> QED BY <1>1, <1>8, <3>1 DEF TypeOK, LockOK, Doing, vars, heapVars
  <2>2. Shown(s)' = Shown(s)
    BY <1>8 DEF vars, Shown, Doing
  <2>3. node' = node /\ file' = file
    BY <1>8 DEF vars, heapVars
  <2> QED BY <1>1, <1>2, <2>1, <2>2, <2>3, SameListStutters
<1> QED
  BY <1>3, <1>4, <1>5, <1>6, <1>7, <1>8 DEF Next

\* Seen from outside its critical sections, the list on the heap takes the
\* steps of OpenFileManager: every call takes effect in one step between its
\* lock and its unlock, and no other step of it shows.
THEOREM ManagerImplemented == CleanNodes => (Spec => ImplementsManager)
<1> SUFFICES ASSUME CleanNodes PROVE Spec => ImplementsManager
  OBVIOUS
<1>1. Init => Manager!Init
  BY ManagerInit
<1>2. ListInv /\ [Next]_vars => [Manager!Next]_Manager!ofmVars
  BY ManagerNext
<1>3. Spec => []ListInv
  BY ListExplainsHeap
<1> QED
  BY <1>1, <1>2, <1>3, PTL DEF Spec, ImplementsManager, Manager!Spec
=============================================================================
