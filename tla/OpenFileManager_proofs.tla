----------------------- MODULE OpenFileManager_proofs -----------------------
(* Invariants of the open-file manager and the table its list implements,    *)
(* for every set of paths, blobs and addresses, and every bound on           *)
(* references.                                                               *)
EXTENDS OpenFileManager, PathMatch_proofs, SequenceTheorems, TLAPS

\* openFile() puts a context in front of entries its path does not match.
OrderedList ==
  \A i, j \in 1..Len(firstOpenFile) :
    i < j => ~Matches(openedPath[firstOpenFile[i]], openedPath[firstOpenFile[j]])

\* A context in the list has its fields set and at least one reference.
LiveContexts ==
  \A c \in Listed :
    openedPath[c] \in Paths /\ blobID[c] \in Blobs /\ referenceCount[c] >= 1

\* The inductive invariant.
ListInv == TypeOK /\ CounterMatchesList /\ OrderedList /\ LiveContexts

-----------------------------------------------------------------------------
(* Sequences                                                               *)

\* A new head moves every element of the list one position on.
LEMMA ConsProperties ==
  ASSUME NEW S, NEW s \in Seq(S), NEW e \in S
  PROVE  /\ Cons(e, s) \in Seq(S)
         /\ Len(Cons(e, s)) = Len(s) + 1
         /\ Cons(e, s)[1] = e
         /\ \A i \in 1..Len(s) : Cons(e, s)[i + 1] = s[i]
BY DEF Cons

\* Unlinking the element at i moves the ones behind it one position up.
LEMMA RemoveAtProperties ==
  ASSUME NEW S, NEW s \in Seq(S), NEW i \in 1..Len(s)
  PROVE  /\ RemoveAt(s, i) \in Seq(S)
         /\ Len(RemoveAt(s, i)) = Len(s) - 1
         /\ \A j \in 1..(Len(s) - 1) :
              RemoveAt(s, i)[j] = IF j < i THEN s[j] ELSE s[j + 1]
<1> DEFINE front == SubSeq(s, 1, i - 1)
           back == SubSeq(s, i + 1, Len(s))
<1>1. /\ front \in Seq(S) /\ Len(front) = i - 1
      /\ \A j \in 1..(i - 1) : front[j] = s[j]
  OBVIOUS
<1>2. /\ back \in Seq(S) /\ Len(back) = Len(s) - i
      /\ \A j \in 1..(Len(s) - i) : back[j] = s[i + j]
  OBVIOUS
<1>3. RemoveAt(s, i) = front \o back
  BY DEF RemoveAt
<1> HIDE DEF front, back
<1>4. /\ front \o back \in Seq(S)
      /\ Len(front \o back) = Len(s) - 1
      /\ \A j \in 1..(Len(s) - 1) :
           (front \o back)[j] = IF j < i THEN front[j] ELSE back[j - (i - 1)]
  <2>1. /\ front \o back \in Seq(S)
        /\ Len(front \o back) = Len(front) + Len(back)
        /\ \A j \in 1..(Len(front) + Len(back)) :
             (front \o back)[j] =
               IF j <= Len(front) THEN front[j] ELSE back[j - Len(front)]
    BY <1>1, <1>2, ConcatProperties
  <2>2. Len(s) \in Nat /\ Len(front) = i - 1
        /\ Len(front) + Len(back) = Len(s) - 1
    BY <1>1, <1>2
  <2>3. \A j \in 1..(Len(s) - 1) : j <= i - 1 <=> j < i
    BY <2>2
  <2> QED
    BY <2>1, <2>2, <2>3
<1>5. ASSUME NEW j \in 1..(Len(s) - 1), ~(j < i)
      PROVE  back[j - (i - 1)] = s[j + 1]
  <2>1. j - (i - 1) \in 1..(Len(s) - i)
    BY <1>5
  <2> QED
    BY <1>2, <2>1
<1> QED
  BY <1>1, <1>3, <1>4, <1>5

\* The listed contexts are the elements of the list.
LEMMA ListedElements ==
  ASSUME firstOpenFile \in Seq(Ctxs)
  PROVE  /\ Listed \subseteq Ctxs
         /\ \A i \in 1..Len(firstOpenFile) : firstOpenFile[i] \in Listed
         /\ \A c \in Listed : \E i \in 1..Len(firstOpenFile) : firstOpenFile[i] = c
BY DEF Listed, ToSet

\* No address is linked twice.
LEMMA NoDuplicates ==
  ASSUME ListInv
  PROVE  \A i, j \in 1..Len(firstOpenFile) :
           openedPath[firstOpenFile[i]] = openedPath[firstOpenFile[j]] => i = j
<1> SUFFICES ASSUME NEW i \in 1..Len(firstOpenFile),
                    NEW j \in 1..Len(firstOpenFile),
                    openedPath[firstOpenFile[i]] = openedPath[firstOpenFile[j]],
                    i # j
             PROVE  FALSE
  OBVIOUS
<1> DEFINE p == openedPath[firstOpenFile[i]]
<1>1. p \in Seq(Chars)
  BY ListedElements, OpenFileManagerAssumption DEF ListInv, TypeOK, LiveContexts
<1>2. Matches(p, p)
  BY <1>1, MatchesReflexive
<1>3. i < j \/ j < i
  OBVIOUS
<1> QED
  BY <1>2, <1>3 DEF ListInv, OrderedList

-----------------------------------------------------------------------------
(* Each operation keeps the invariant                                      *)

\* The empty list satisfies the invariant.
LEMMA InitInv == Init => ListInv
BY DEF Init, ListInv, TypeOK, CounterMatchesList, OrderedList, LiveContexts,
       Listed, ToSet

\* openFile() of a path with a context only counts a reference.
LEMMA ReturnExistingInv ==
  ASSUME ListInv, NEW p \in Paths, NEW c, ReturnExisting(p, c)
  PROVE  ListInv'
<1>1. c \in Listed /\ c \in Ctxs
  BY ListedElements DEF ReturnExisting, Hits, ListInv, TypeOK
<1>2. Listed' = Listed
  BY DEF ReturnExisting, Listed
<1>3. TypeOK' /\ CounterMatchesList'
  BY <1>1 DEF ListInv, TypeOK, CounterMatchesList, ReturnExisting
<1>4. OrderedList'
  BY DEF ListInv, OrderedList, ReturnExisting
<1>5. LiveContexts'
  BY <1>1, <1>2 DEF ListInv, TypeOK, LiveContexts, ReturnExisting
<1> QED
  BY <1>3, <1>4, <1>5 DEF ListInv

\* What PushContext makes of the list.
LEMMA PushContextList ==
  ASSUME ListInv, NEW p \in Paths, NEW b \in Blobs, NEW c, PushContext(p, b, c)
  PROVE  /\ firstOpenFile' \in Seq(Ctxs)
         /\ Len(firstOpenFile') = Len(firstOpenFile) + 1
         /\ firstOpenFile'[1] = c
         /\ \A i \in 1..Len(firstOpenFile) :
              firstOpenFile'[i + 1] = firstOpenFile[i]
         /\ Listed' = Listed \cup {c}
         /\ c \in Ctxs \ Listed
<1>1. c \in Ctxs \ Listed /\ firstOpenFile \in Seq(Ctxs)
  BY DEF PushContext, ListInv, TypeOK
<1>2. /\ firstOpenFile' \in Seq(Ctxs)
      /\ Len(firstOpenFile') = Len(firstOpenFile) + 1
      /\ firstOpenFile'[1] = c
      /\ \A i \in 1..Len(firstOpenFile) :
           firstOpenFile'[i + 1] = firstOpenFile[i]
  <2>1. firstOpenFile' = Cons(c, firstOpenFile)
    BY DEF PushContext
  <2>2. c \in Ctxs
    BY <1>1
  <2>3. /\ Cons(c, firstOpenFile) \in Seq(Ctxs)
        /\ Len(Cons(c, firstOpenFile)) = Len(firstOpenFile) + 1
        /\ Cons(c, firstOpenFile)[1] = c
        /\ \A i \in 1..Len(firstOpenFile) :
             Cons(c, firstOpenFile)[i + 1] = firstOpenFile[i]
    BY <1>1, <2>2, ConsProperties
  <2> QED
    BY <2>1, <2>3
<1>3. Listed' = {firstOpenFile'[i] : i \in 1..(Len(firstOpenFile) + 1)}
  BY <1>2 DEF Listed, ToSet
<1>4. ASSUME NEW i \in 1..(Len(firstOpenFile) + 1)
      PROVE  firstOpenFile'[i] \in Listed \cup {c}
  <2>1. i = 1 \/ i - 1 \in 1..Len(firstOpenFile)
    BY <1>1
  <2>2. i - 1 \in 1..Len(firstOpenFile) =>
          firstOpenFile'[i] = firstOpenFile[i - 1]
    BY <1>2
  <2> QED
    BY <1>1, <1>2, <2>1, <2>2, ListedElements
<1>5. ASSUME NEW d \in Listed
      PROVE  \E i \in 1..(Len(firstOpenFile) + 1) : firstOpenFile'[i] = d
  <2>1. PICK i \in 1..Len(firstOpenFile) : firstOpenFile[i] = d
    BY <1>1, ListedElements
  <2>2. i + 1 \in 1..(Len(firstOpenFile) + 1) /\ firstOpenFile'[i + 1] = d
    BY <1>1, <1>2, <2>1
  <2> QED
    BY <2>2
<1>6. 1 \in 1..(Len(firstOpenFile) + 1)
  BY <1>1
<1>7. Listed' = Listed \cup {c}
  BY <1>2, <1>3, <1>4, <1>5, <1>6
<1> QED
  BY <1>1, <1>2, <1>7

\* openFile() of a new path puts a context at the head of the list.
LEMMA PushContextInv ==
  ASSUME ListInv, NEW p \in Paths, NEW b \in Blobs, NEW c,
         Hits(p) = {}, PushContext(p, b, c)
  PROVE  ListInv'
<1>0. /\ firstOpenFile' \in Seq(Ctxs)
      /\ Len(firstOpenFile') = Len(firstOpenFile) + 1
      /\ firstOpenFile'[1] = c
      /\ \A i \in 1..Len(firstOpenFile) :
           firstOpenFile'[i + 1] = firstOpenFile[i]
      /\ Listed' = Listed \cup {c}
      /\ c \in Ctxs \ Listed
  BY PushContextList
<1>1. TypeOK'
  BY <1>0 DEF ListInv, TypeOK, PushContext
<1>2. CounterMatchesList'
  BY <1>0 DEF ListInv, CounterMatchesList, PushContext
<1>3. LiveContexts'
  BY <1>0 DEF ListInv, TypeOK, LiveContexts, PushContext
<1>4. OrderedList'
  <2> SUFFICES ASSUME NEW i \in 1..Len(firstOpenFile'),
                      NEW j \in 1..Len(firstOpenFile'), i < j
               PROVE  ~Matches(openedPath'[firstOpenFile'[i]],
                               openedPath'[firstOpenFile'[j]])
    BY DEF OrderedList
  <2>1. firstOpenFile \in Seq(Ctxs) /\ openedPath \in [Ctxs -> Paths \cup {NULL}]
    BY DEF ListInv, TypeOK
  <2>2. j - 1 \in 1..Len(firstOpenFile)
    BY <1>0, <2>1
  <2>3. firstOpenFile'[j] = firstOpenFile[j - 1]
    BY <1>0, <2>1, <2>2
  <2>4. \A d \in Listed : d \in Ctxs /\ openedPath'[d] = openedPath[d]
    BY <1>0, <2>1, ListedElements DEF PushContext
  <2>5. openedPath'[firstOpenFile'[j]] = openedPath[firstOpenFile[j - 1]]
    BY <2>1, <2>2, <2>3, <2>4, ListedElements
  <2>6. CASE i = 1
    <3>1. openedPath'[firstOpenFile'[i]] = p
      BY <1>0, <2>1, <2>6 DEF PushContext
    <3> QED
      BY <2>2, <2>5, <3>1 DEF Hits
  <2>7. CASE i # 1
    <3>1. i - 1 \in 1..Len(firstOpenFile) /\ i - 1 < j - 1
      BY <1>0, <2>1, <2>7
    <3>2. openedPath'[firstOpenFile'[i]] = openedPath[firstOpenFile[i - 1]]
      BY <1>0, <2>1, <2>4, <3>1, ListedElements
    <3> QED
      BY <2>2, <2>5, <3>1, <3>2 DEF ListInv, OrderedList
  <2> QED
    BY <2>6, <2>7
<1> QED
  BY <1>1, <1>2, <1>3, <1>4 DEF ListInv

\* openFile() keeps the list in order, whichever way it ends.
THEOREM OpenFileInv ==
  ASSUME ListInv, NEW p \in Paths, NEW b \in Blobs, NEW c, openFile(p, b, c)
  PROVE  ListInv'
<1>1. CASE ReturnExisting(p, c)
  BY <1>1, ReturnExistingInv
<1>2. CASE Hits(p) = {} /\ PushContext(p, b, c)
  BY <1>2, PushContextInv
<1>3. CASE RegisterOutOfMemory(c)
  BY <1>3 DEF RegisterOutOfMemory, ofmVars, ListInv, TypeOK, CounterMatchesList,
              OrderedList, LiveContexts, Listed
<1> QED
  BY <1>1, <1>2, <1>3 DEF openFile

\* closeFile() with other references left only counts one less.
LEMMA DropReferenceInv ==
  ASSUME ListInv, NEW c \in Listed, DropReference(c)
  PROVE  ListInv'
<1>1. c \in Ctxs
  BY ListedElements DEF ListInv, TypeOK
<1>2. Listed' = Listed
  BY DEF DropReference, Listed
<1>3. TypeOK' /\ CounterMatchesList'
  BY <1>1 DEF ListInv, TypeOK, CounterMatchesList, DropReference
<1>4. OrderedList'
  BY DEF ListInv, OrderedList, DropReference
<1>5. LiveContexts'
  BY <1>1, <1>2 DEF ListInv, TypeOK, LiveContexts, DropReference
<1> QED
  BY <1>3, <1>4, <1>5 DEF ListInv

\* What Unlink makes of the list: every entry keeps its relative place.
LEMMA UnlinkList ==
  ASSUME ListInv, NEW i \in 1..Len(firstOpenFile), Unlink(i)
  PROVE  /\ firstOpenFile' \in Seq(Ctxs)
         /\ Len(firstOpenFile') = Len(firstOpenFile) - 1
         /\ \A j \in 1..(Len(firstOpenFile) - 1) :
              firstOpenFile'[j] =
                IF j < i THEN firstOpenFile[j] ELSE firstOpenFile[j + 1]
         /\ Listed' = Listed \ {firstOpenFile[i]}
<1>1. firstOpenFile \in Seq(Ctxs)
  BY DEF ListInv, TypeOK
<1>2. /\ firstOpenFile' \in Seq(Ctxs)
      /\ Len(firstOpenFile') = Len(firstOpenFile) - 1
      /\ \A j \in 1..(Len(firstOpenFile) - 1) :
           firstOpenFile'[j] =
             IF j < i THEN firstOpenFile[j] ELSE firstOpenFile[j + 1]
  <2>1. firstOpenFile' = RemoveAt(firstOpenFile, i)
    BY DEF Unlink
  <2>2. /\ RemoveAt(firstOpenFile, i) \in Seq(Ctxs)
        /\ Len(RemoveAt(firstOpenFile, i)) = Len(firstOpenFile) - 1
        /\ \A j \in 1..(Len(firstOpenFile) - 1) :
             RemoveAt(firstOpenFile, i)[j] =
               IF j < i THEN firstOpenFile[j] ELSE firstOpenFile[j + 1]
    BY <1>1, RemoveAtProperties
  <2> QED
    BY <2>1, <2>2
<1>3. Listed' = {firstOpenFile'[j] : j \in 1..(Len(firstOpenFile) - 1)}
  BY <1>2 DEF Listed, ToSet
<1>4. \A j, k \in 1..Len(firstOpenFile) :
        firstOpenFile[j] = firstOpenFile[k] => j = k
  BY NoDuplicates
<1>5. ASSUME NEW j \in 1..(Len(firstOpenFile) - 1)
      PROVE  firstOpenFile'[j] \in Listed \ {firstOpenFile[i]}
  <2>1. CASE j < i
    <3>1. j \in 1..Len(firstOpenFile) /\ j # i
      BY <1>1, <2>1
    <3> QED
      BY <1>1, <1>2, <1>4, <2>1, <3>1, ListedElements
  <2>2. CASE ~(j < i)
    <3>1. j + 1 \in 1..Len(firstOpenFile) /\ j + 1 # i
      BY <1>1, <2>2
    <3> QED
      BY <1>1, <1>2, <1>4, <2>2, <3>1, ListedElements
  <2> QED
    BY <2>1, <2>2
<1>6. ASSUME NEW d \in Listed \ {firstOpenFile[i]}
      PROVE  \E j \in 1..(Len(firstOpenFile) - 1) : firstOpenFile'[j] = d
  <2>1. PICK k \in 1..Len(firstOpenFile) : firstOpenFile[k] = d
    BY <1>1, ListedElements
  <2>2. CASE k < i
    <3>1. k \in 1..(Len(firstOpenFile) - 1)
      BY <1>1, <2>2
    <3> QED
      BY <1>2, <2>1, <2>2, <3>1
  <2>3. CASE k > i
    <3>1. k - 1 \in 1..(Len(firstOpenFile) - 1) /\ ~(k - 1 < i) /\ (k - 1) + 1 = k
      BY <1>1, <2>3
    <3> QED
      BY <1>2, <2>1, <3>1
  <2> QED
    BY <2>1, <2>2, <2>3
<1> QED
  BY <1>2, <1>3, <1>5, <1>6

\* closeFile() of the last reference takes one context out of the list.
LEMMA UnlinkInv ==
  ASSUME ListInv, NEW i \in 1..Len(firstOpenFile), Unlink(i)
  PROVE  ListInv'
<1> DEFINE n == Len(firstOpenFile)
           up(j) == IF j < i THEN j ELSE j + 1
<1>1. /\ firstOpenFile' \in Seq(Ctxs)
      /\ Len(firstOpenFile') = n - 1
      /\ \A j \in 1..(n - 1) :
           firstOpenFile'[j] = IF j < i THEN firstOpenFile[j]
                               ELSE firstOpenFile[j + 1]
      /\ Listed' = Listed \ {firstOpenFile[i]}
  BY UnlinkList
<1>2. /\ firstOpenFile \in Seq(Ctxs)
      /\ n \in Nat
      /\ Listed \subseteq Ctxs
      /\ firstOpenFile[i] \in Ctxs
  BY ListedElements DEF ListInv, TypeOK
<1>3. TypeOK'
  BY <1>1, <1>2 DEF ListInv, TypeOK, CounterMatchesList, Unlink, Clear
<1>4. CounterMatchesList'
  BY <1>1 DEF ListInv, CounterMatchesList, Unlink
<1>5. \A c \in Listed' : /\ openedPath'[c] = openedPath[c]
                        /\ blobID'[c] = blobID[c]
                        /\ referenceCount'[c] = referenceCount[c]
  BY <1>1, <1>2 DEF ListInv, TypeOK, Unlink, Clear
<1>6. LiveContexts'
  BY <1>1, <1>5 DEF ListInv, LiveContexts
<1>7. \A j \in 1..(n - 1) : /\ up(j) \in 1..n
                           /\ firstOpenFile'[j] = firstOpenFile[up(j)]
                           /\ firstOpenFile'[j] \in Listed'
  <2>1. \A j \in 1..(n - 1) : firstOpenFile'[j] \in Listed'
    BY <1>1 DEF Listed, ToSet
  <2> QED
    BY <1>1, <1>2, <2>1
<1>8. \A j, k \in 1..(n - 1) : j < k => up(j) < up(k)
  BY <1>2
<1>9. OrderedList'
  <2> HIDE DEF up, n
  <2>1. Len(firstOpenFile') = n - 1
    BY <1>1
  <2>2. ASSUME NEW j \in 1..(n - 1), NEW k \in 1..(n - 1), j < k
        PROVE  ~Matches(openedPath'[firstOpenFile'[j]],
                        openedPath'[firstOpenFile'[k]])
    <3>1. up(j) \in 1..n /\ up(k) \in 1..n /\ up(j) < up(k)
      BY <1>7, <1>8, <2>2
    <3>2. ~Matches(openedPath[firstOpenFile[up(j)]],
                   openedPath[firstOpenFile[up(k)]])
      BY <3>1 DEF ListInv, OrderedList, n
    <3>3. /\ openedPath'[firstOpenFile'[j]] = openedPath[firstOpenFile[up(j)]]
          /\ openedPath'[firstOpenFile'[k]] = openedPath[firstOpenFile[up(k)]]
      BY <1>5, <1>7, <2>2
    <3> QED
      BY <3>2, <3>3
  <2> QED
    BY <2>1, <2>2 DEF OrderedList
<1> QED
  BY <1>3, <1>4, <1>6, <1>9 DEF ListInv

\* closeFile() keeps the list in order, whether it finds the path or not and
\* whether the context stays or goes.
THEOREM CloseFileInv ==
  ASSUME ListInv, NEW p \in Paths, closeFile(p)
  PROVE  ListInv'
<1>1. CASE UNCHANGED ofmVars
  BY <1>1 DEF ofmVars, ListInv, TypeOK, CounterMatchesList, OrderedList,
              LiveContexts, Listed
<1>2. ASSUME NEW i \in Hits(p), DropReference(firstOpenFile[i])
      PROVE  ListInv'
  <2>1. firstOpenFile[i] \in Listed
    BY ListedElements DEF Hits, ListInv, TypeOK
  <2> QED
    BY <1>2, <2>1, DropReferenceInv
<1>3. ASSUME NEW i \in Hits(p), Unlink(i)
      PROVE  ListInv'
  BY <1>3, UnlinkInv DEF Hits
<1> QED
  BY <1>1, <1>2, <1>3 DEF closeFile

\* closeAllFiles() leaves an empty list.
LEMMA CloseAllFilesInv ==
  ASSUME ListInv, closeAllFiles
  PROVE  ListInv'
BY DEF closeAllFiles, ListInv, TypeOK, CounterMatchesList, OrderedList,
       LiveContexts, Listed, ToSet

\* A download that stores its buffer changes no entry of the list.
LEMMA StoreMemoryInv ==
  ASSUME ListInv, NEW c \in Ctxs, NEW b \in Blobs \cup {ErrorPage, NULL},
         StoreMemory(c, b)
  PROVE  ListInv'
BY DEF StoreMemory, ListInv, TypeOK, CounterMatchesList, OrderedList,
       LiveContexts, Listed

-----------------------------------------------------------------------------
(* What a caller can rely on                                               *)

\* The search fails only if no listed context answers.
LEMMA NoHits ==
  ASSUME ListInv, NEW p, Hits(p) = {}
  PROVE  \A d \in Listed : ~Matches(p, openedPath[d])
BY ListedElements DEF Hits, ListInv, TypeOK

\* getFileContext() returns a listed context that answers the path, or NULL
\* when there is none.
LEMMA GetFileContextResult ==
  ASSUME ListInv, NEW p, NEW c, getFileContext(p, c)
  PROVE  \/ c = NULL /\ \A d \in Listed : ~Matches(p, openedPath[d])
         \/ c \in Listed /\ c # NULL /\ Matches(p, openedPath[c])
<1>1. CASE Hits(p) = {} /\ c = NULL
  BY <1>1, NoHits
<1>2. ASSUME NEW i \in Hits(p), c = firstOpenFile[i]
      PROVE  c \in Listed /\ c # NULL /\ Matches(p, openedPath[c])
  BY <1>2, ListedElements, OpenFileManagerAssumption DEF Hits, ListInv, TypeOK
<1> QED
  BY <1>1, <1>2 DEF getFileContext

\* openFile() leaves the other contexts alone; what it returns answers the
\* path; a context it creates has that path and no content.
LEMMA OpenFileFrame ==
  ASSUME ListInv, NEW p \in Paths, NEW b \in Blobs, NEW c, openFile(p, b, c)
  PROVE  /\ \A d \in Listed : /\ d \in Listed'
                              /\ openedPath'[d] = openedPath[d]
                              /\ blobID'[d] = blobID[d]
                              /\ memory'[d] = memory[d]
         /\ \A d \in Listed' \ Listed :
              d = c /\ openedPath'[d] = p /\ memory'[d] = NULL
         /\ \/ c = NULL
            \/ c \in Listed' /\ c # NULL /\ Matches(p, openedPath'[c])
<1>1. CASE ReturnExisting(p, c)
  <2>1. PICK i \in Hits(p) : c = firstOpenFile[i]
    BY <1>1 DEF ReturnExisting
  <2>2. c \in Listed /\ c # NULL /\ Matches(p, openedPath[c])
    BY <2>1, ListedElements, OpenFileManagerAssumption DEF Hits, ListInv, TypeOK
  <2> QED
    BY <1>1, <2>2 DEF ReturnExisting, Listed
<1>2. CASE Hits(p) = {} /\ PushContext(p, b, c)
  <2>1. Listed' = Listed \cup {c} /\ c \in Ctxs \ Listed
    BY <1>2, PushContextList
  <2>2. c # NULL
    BY <2>1, OpenFileManagerAssumption
  <2>3. Matches(p, p)
    BY MatchesReflexive, OpenFileManagerAssumption
  <2>4. Listed \subseteq Ctxs
    BY ListedElements DEF ListInv, TypeOK
  <2> QED
    BY <1>2, <2>1, <2>2, <2>3, <2>4 DEF PushContext, ListInv, TypeOK
<1>3. CASE RegisterOutOfMemory(c)
  BY <1>3 DEF RegisterOutOfMemory, ofmVars, Listed
<1> QED
  BY <1>1, <1>2, <1>3 DEF openFile

\* closeFile() frees no context but one that answers the path.
LEMMA CloseFileFrame ==
  ASSUME ListInv, NEW p \in Paths, closeFile(p)
  PROVE  /\ \A d \in Listed : ~Matches(p, openedPath[d]) => d \in Listed'
         /\ \A d \in Listed' : /\ d \in Listed
                               /\ openedPath'[d] = openedPath[d]
                               /\ blobID'[d] = blobID[d]
                               /\ memory'[d] = memory[d]
<1>1. CASE UNCHANGED ofmVars
  BY <1>1 DEF ofmVars, Listed
<1>2. CASE \E i \in Hits(p) : DropReference(firstOpenFile[i])
  BY <1>2 DEF DropReference, Listed
<1>3. ASSUME NEW i \in Hits(p), Unlink(i)
      PROVE  /\ \A d \in Listed : ~Matches(p, openedPath[d]) => d \in Listed'
             /\ \A d \in Listed' : /\ d \in Listed
                                   /\ openedPath'[d] = openedPath[d]
                                   /\ blobID'[d] = blobID[d]
                                   /\ memory'[d] = memory[d]
  <2>1. i \in 1..Len(firstOpenFile) /\ Matches(p, openedPath[firstOpenFile[i]])
    BY DEF Hits
  <2>2. Listed' = Listed \ {firstOpenFile[i]}
    BY <1>3, <2>1, UnlinkList
  <2>3. Listed \subseteq Ctxs
    BY ListedElements DEF ListInv, TypeOK
  <2> QED
    BY <1>3, <2>1, <2>2, <2>3 DEF Unlink, Clear, ListInv, TypeOK
<1> QED
  BY <1>1, <1>2, <1>3 DEF closeFile

-----------------------------------------------------------------------------
(* The specification keeps it                                              *)

\* The inductive invariant of the open-file list holds in every state, without
\* any bound on the references.
THEOREM ListInvariant == Spec => []ListInv
<1>1. Init => ListInv
  BY InitInv
<1>2. ListInv /\ [Next]_ofmVars => ListInv'
  <2> SUFFICES ASSUME ListInv, [Next]_ofmVars PROVE ListInv'
    OBVIOUS
  <2>1. ASSUME NEW p \in Paths, NEW b \in Blobs, NEW c \in Ctxs \cup {NULL},
               openFile(p, b, c)
        PROVE  ListInv'
    BY <2>1, OpenFileInv
  <2>2. ASSUME NEW p \in Paths, closeFile(p) PROVE ListInv'
    BY <2>2, CloseFileInv
  <2>3. ASSUME NEW c \in Listed, StoreMemory(c, blobID[c]) PROVE ListInv'
    <3>1. c \in Ctxs /\ blobID[c] \in Blobs
      BY ListedElements DEF ListInv, TypeOK, LiveContexts
    <3> QED
      BY <2>3, <3>1, StoreMemoryInv
  <2>4. CASE closeAllFiles
    BY <2>4, CloseAllFilesInv
  <2>5. CASE UNCHANGED ofmVars
    BY <2>5 DEF ofmVars, ListInv, TypeOK, CounterMatchesList, OrderedList,
                LiveContexts, Listed
  <2> QED
    BY <2>1, <2>2, <2>3, <2>4, <2>5 DEF Next
<1> QED
  BY <1>1, <1>2, PTL DEF Spec

\* Every variable of the manager keeps its type.
THEOREM TypeCorrect == Spec => []TypeOK
BY ListInvariant, PTL DEF ListInv

\* openFiles counts the list: no path through openFile() and closeFile()
\* leaves them apart, and the unsigned counter never wraps.
THEOREM CounterCorrect == Spec => []CounterMatchesList
BY ListInvariant, PTL DEF ListInv

\* A path is registered at most once.
THEOREM NoTwinCorrect == Spec => []NoTwin
<1>1. ListInv => NoTwin
  BY NoDuplicates DEF NoTwin
<1> QED
  BY <1>1, ListInvariant, PTL

-----------------------------------------------------------------------------
(* The table                                                               *)
(* The open-file list implements one reference counter per path, for paths   *)
(* that do not begin one another; the run ofm_found shows why they may not.  *)

PathsApart == \A p, q \in Paths : BeginsWith(q, p) => p = q

\* The table's variables, as the list represents them.
refsOf == [p \in Paths |-> TableValue(referenceCount, p, 0)]
blobOf == [p \in Paths |-> TableValue(blobID, p, NULL)]
contentOf == [p \in Paths |-> TableValue(memory, p, NULL)]

Row(p) == <<refsOf[p], blobOf[p], contentOf[p]>>

-----------------------------------------------------------------------------
(* Rows                                                                    *)

\* A request only hits the context of its own path.
LEMMA HitIsOwn ==
  ASSUME PathsApart, ListInv, NEW q \in Paths, NEW i \in Hits(q)
  PROVE  firstOpenFile[i] \in Listed /\ openedPath[firstOpenFile[i]] = q
<1>1. i \in 1..Len(firstOpenFile) /\ Matches(q, openedPath[firstOpenFile[i]])
  BY DEF Hits
<1>2. firstOpenFile[i] \in Listed
  BY <1>1, ListedElements DEF ListInv, TypeOK
<1>3. openedPath[firstOpenFile[i]] \in Paths
  BY <1>2 DEF ListInv, LiveContexts
<1> QED
  BY <1>1, <1>2, <1>3, MatchesIsPrefix, OpenFileManagerAssumption DEF PathsApart

\* A path that is not hit has no context.
LEMMA NoHitNoContext ==
  ASSUME ListInv, NEW q \in Paths, Hits(q) = {}
  PROVE  ContextOf(q) = {}
BY NoHits, MatchesReflexive, OpenFileManagerAssumption DEF ContextOf

\* A path has no other context.
LEMMA OneContext ==
  ASSUME ListInv, NEW c \in Listed
  PROVE  ContextOf(openedPath[c]) = {c}
<1>1. ASSUME NEW d \in Listed, openedPath[d] = openedPath[c] PROVE d = c
  <2>1. PICK i \in 1..Len(firstOpenFile) : firstOpenFile[i] = c
    BY ListedElements DEF ListInv, TypeOK
  <2>2. PICK j \in 1..Len(firstOpenFile) : firstOpenFile[j] = d
    BY ListedElements DEF ListInv, TypeOK
  <2> QED BY <1>1, <2>1, <2>2, NoDuplicates
<1> QED
  BY <1>1 DEF ContextOf

\* The row of a path with one context is what the context's fields hold.
LEMMA RowOfContext ==
  ASSUME NEW p \in Paths, NEW c, ContextOf(p) = {c}
  PROVE  refsOf[p] = referenceCount[c] /\ blobOf[p] = blobID[c] /\ contentOf[p] = memory[c]
<1>1. (CHOOSE d \in ContextOf(p) : TRUE) = c
  OBVIOUS
<1> QED
  BY <1>1 DEF refsOf, blobOf, contentOf, TableValue

\* A path without a context has an empty row.
LEMMA RowOfNone ==
  ASSUME NEW p \in Paths, ContextOf(p) = {}
  PROVE  refsOf[p] = 0 /\ blobOf[p] = NULL /\ contentOf[p] = NULL
BY DEF refsOf, blobOf, contentOf, TableValue

\* A step that leaves a path's contexts and their fields alone leaves its row
\* alone.
LEMMA RowKept ==
  ASSUME NEW p \in Paths, ContextOf(p)' = ContextOf(p),
         \A c \in ContextOf(p) : /\ referenceCount'[c] = referenceCount[c]
                                 /\ blobID'[c] = blobID[c]
                                 /\ memory'[c] = memory[c]
  PROVE  Row(p)' = Row(p)
<1>1. CASE ContextOf(p) = {}
  BY <1>1 DEF Row, refsOf, blobOf, contentOf, TableValue
<1>2. CASE ContextOf(p) # {}
  <2>1. (CHOOSE d \in ContextOf(p) : TRUE) \in ContextOf(p)
    BY <1>2
  <2>2. (CHOOSE d \in ContextOf(p)' : TRUE) = CHOOSE d \in ContextOf(p) : TRUE
    OBVIOUS
  <2> QED
    BY <1>2, <2>1, <2>2 DEF Row, refsOf, blobOf, contentOf, TableValue
<1> QED BY <1>1, <1>2

\* A table changed in one row.
LEMMA OneRow ==
  ASSUME NEW q \in Paths, \A p \in Paths \ {q} : Row(p)' = Row(p)
  PROVE  /\ refsOf' = [refsOf EXCEPT ![q] = refsOf'[q]]
         /\ blobOf' = [blobOf EXCEPT ![q] = blobOf'[q]]
         /\ contentOf' = [contentOf EXCEPT ![q] = contentOf'[q]]
<1>1. \A p \in Paths \ {q} : /\ refsOf'[p] = refsOf[p]
                            /\ blobOf'[p] = blobOf[p]
                            /\ contentOf'[p] = contentOf[p]
  BY DEF Row
<1>2. refsOf' = [p \in Paths |-> refsOf'[p]] /\ refsOf = [p \in Paths |-> refsOf[p]]
  BY DEF refsOf
<1>3. blobOf' = [p \in Paths |-> blobOf'[p]] /\ blobOf = [p \in Paths |-> blobOf[p]]
  BY DEF blobOf
<1>4. contentOf' = [p \in Paths |-> contentOf'[p]] /\ contentOf = [p \in Paths |-> contentOf[p]]
  BY DEF contentOf
<1> QED BY <1>1, <1>2, <1>3, <1>4

\* A row that does not change leaves the table as it is.
LEMMA ColumnKept ==
  ASSUME NEW q \in Paths, \A p \in Paths \ {q} : Row(p)' = Row(p)
  PROVE  /\ refsOf'[q] = refsOf[q] => refsOf' = refsOf
         /\ blobOf'[q] = blobOf[q] => blobOf' = blobOf
         /\ contentOf'[q] = contentOf[q] => contentOf' = contentOf
<1>1. /\ refsOf' = [refsOf EXCEPT ![q] = refsOf'[q]]
      /\ blobOf' = [blobOf EXCEPT ![q] = blobOf'[q]]
      /\ contentOf' = [contentOf EXCEPT ![q] = contentOf'[q]]
  BY OneRow
<1>2. /\ refsOf = [refsOf EXCEPT ![q] = refsOf[q]]
      /\ blobOf = [blobOf EXCEPT ![q] = blobOf[q]]
      /\ contentOf = [contentOf EXCEPT ![q] = contentOf[q]]
  BY DEF refsOf, blobOf, contentOf
<1> QED BY <1>1, <1>2

\* A step on one listed context that leaves the list and its paths as they are
\* changes the row of that context's path to what its fields hold then.
LEMMA ChangedContext ==
  ASSUME ListInv, NEW c \in Listed, NEW q, q = openedPath[c],
         Listed' = Listed, openedPath' = openedPath,
         \A d \in Listed \ {c} : /\ referenceCount'[d] = referenceCount[d]
                                 /\ blobID'[d] = blobID[d]
                                 /\ memory'[d] = memory[d]
  PROVE  /\ q \in Paths /\ ContextOf(q) = {c}
         /\ refsOf'[q] = referenceCount'[c] /\ blobOf'[q] = blobID'[c]
         /\ contentOf'[q] = memory'[c]
         /\ \A p \in Paths \ {q} : Row(p)' = Row(p)
<1>1. q \in Paths /\ ContextOf(q) = {c}
  BY OneContext DEF ListInv, LiveContexts
<1>2. \A p \in Paths : ContextOf(p)' = ContextOf(p)
  BY DEF ContextOf
<1>3. ContextOf(q)' = {c} /\ (CHOOSE d \in {c} : TRUE) = c
  BY <1>1, <1>2
<1>4. refsOf'[q] = referenceCount'[c] /\ blobOf'[q] = blobID'[c] /\ contentOf'[q] = memory'[c]
  BY <1>1, <1>3 DEF refsOf, blobOf, contentOf, TableValue
<1>5. ASSUME NEW p \in Paths \ {q} PROVE Row(p)' = Row(p)
  <2>1. ContextOf(p) \subseteq Listed \ {c}
    BY <1>5 DEF ContextOf
  <2> QED BY <1>2, <2>1, RowKept
<1> QED BY <1>1, <1>4, <1>5

-----------------------------------------------------------------------------
(* Each operation is a step of the table                                   *)

TableStep == Table!Next \/ UNCHANGED <<refsOf, blobOf, contentOf>>

\* openFile() of a path with a context counts one opening of that path.
LEMMA ReturnExistingTable ==
  ASSUME PathsApart, ListInv, NEW q \in Paths, NEW c, ReturnExisting(q, c)
  PROVE  TableStep
<1>1. c \in Listed /\ openedPath[c] = q /\ c \in Ctxs
  BY HitIsOwn, ListedElements DEF ReturnExisting, ListInv, TypeOK
<1>2. /\ referenceCount[c] \in Nat /\ referenceCount[c] >= 1
      /\ referenceCount'[c] = referenceCount[c] + 1
      /\ \A d \in Listed \ {c} : referenceCount'[d] = referenceCount[d]
  BY <1>1, ListedElements DEF ReturnExisting, ListInv, TypeOK, LiveContexts
<1>3. /\ ContextOf(q) = {c}
      /\ refsOf'[q] = referenceCount'[c] /\ blobOf'[q] = blobID'[c]
      /\ contentOf'[q] = memory'[c]
      /\ \A p \in Paths \ {q} : Row(p)' = Row(p)
  <2>1. Listed' = Listed /\ openedPath' = openedPath /\ blobID' = blobID /\ memory' = memory
    BY DEF ReturnExisting, Listed
  <2> QED BY <1>1, <1>2, <2>1, ChangedContext
<1>4. refsOf[q] = referenceCount[c] /\ blobOf[q] = blobID[c] /\ contentOf[q] = memory[c]
  BY <1>3, RowOfContext
<1>5. refsOf' = [refsOf EXCEPT ![q] = refsOf[q] + 1]
  BY <1>2, <1>3, <1>4, OneRow
<1>6. blobOf' = blobOf /\ contentOf' = contentOf
  BY <1>3, <1>4, ColumnKept DEF ReturnExisting
<1>7. refsOf[q] > 0
  BY <1>2, <1>4
<1> QED BY <1>5, <1>6, <1>7 DEF TableStep, Table!Next, Table!OpenAgain, refsOf, blobOf, contentOf

\* A new context is the first opening of its path.
LEMMA PushContextTable ==
  ASSUME ListInv, NEW q \in Paths, NEW b \in Blobs, NEW c, Hits(q) = {}, PushContext(q, b, c)
  PROVE  TableStep
<1>1. Listed' = Listed \cup {c} /\ c \in Ctxs \ Listed /\ Listed \subseteq Ctxs
  BY PushContextList, ListedElements DEF ListInv, TypeOK
<1>2. \A d \in Listed : /\ openedPath'[d] = openedPath[d] /\ blobID'[d] = blobID[d]
                       /\ memory'[d] = memory[d] /\ referenceCount'[d] = referenceCount[d]
  BY <1>1 DEF PushContext, ListInv, TypeOK
<1>3. /\ openedPath'[c] = q /\ blobID'[c] = b /\ memory'[c] = NULL
      /\ referenceCount'[c] = 1
  BY <1>1 DEF PushContext, ListInv, TypeOK
<1>4. ContextOf(q) = {}
  BY NoHitNoContext
<1>5. ContextOf(q)' = {c}
  BY <1>1, <1>2, <1>3, <1>4 DEF ContextOf
<1>6. (CHOOSE d \in {c} : TRUE) = c
  OBVIOUS
<1>7. refsOf'[q] = 1 /\ blobOf'[q] = b /\ contentOf'[q] = NULL
  BY <1>3, <1>5, <1>6 DEF refsOf, blobOf, contentOf, TableValue
<1>8. refsOf[q] = 0 /\ contentOf[q] = NULL
  BY <1>4, RowOfNone
<1>9. ASSUME NEW p \in Paths \ {q} PROVE Row(p)' = Row(p)
  <2>1. ContextOf(p)' = ContextOf(p) /\ ContextOf(p) \subseteq Listed
    BY <1>1, <1>2, <1>3, <1>9 DEF ContextOf
  <2> QED BY <1>2, <2>1, RowKept
<1>10. /\ refsOf' = [refsOf EXCEPT ![q] = 1] /\ blobOf' = [blobOf EXCEPT ![q] = b]
       /\ contentOf' = contentOf
  BY <1>7, <1>8, <1>9, OneRow, ColumnKept
<1> QED BY <1>8, <1>10 DEF TableStep, Table!Next, Table!OpenFirst, refsOf, blobOf, contentOf

\* closeFile() with references left takes one opening back.
LEMMA DropReferenceTable ==
  ASSUME ListInv, NEW c \in Listed, DropReference(c)
  PROVE  TableStep
<1>1. PICK q : q = openedPath[c]
  OBVIOUS
<1>2. /\ referenceCount[c] \in Nat /\ referenceCount[c] > 1
      /\ referenceCount'[c] = referenceCount[c] - 1
      /\ \A d \in Listed \ {c} : referenceCount'[d] = referenceCount[d]
  BY ListedElements DEF DropReference, ListInv, TypeOK
<1>3. /\ q \in Paths /\ ContextOf(q) = {c}
      /\ refsOf'[q] = referenceCount'[c] /\ blobOf'[q] = blobID'[c]
      /\ contentOf'[q] = memory'[c]
      /\ \A p \in Paths \ {q} : Row(p)' = Row(p)
  <2>1. Listed' = Listed /\ openedPath' = openedPath /\ blobID' = blobID /\ memory' = memory
    BY DEF DropReference, Listed
  <2> QED BY <1>1, <1>2, <2>1, ChangedContext
<1>4. refsOf[q] = referenceCount[c] /\ blobOf[q] = blobID[c] /\ contentOf[q] = memory[c]
  BY <1>3, RowOfContext
<1>5. refsOf' = [refsOf EXCEPT ![q] = refsOf[q] - 1]
  BY <1>2, <1>3, <1>4, OneRow
<1>6. blobOf' = blobOf /\ contentOf' = contentOf
  BY <1>3, <1>4, ColumnKept DEF DropReference
<1>7. refsOf[q] > 1
  BY <1>2, <1>4
<1> QED BY <1>3, <1>5, <1>6, <1>7
     DEF TableStep, Table!Next, Table!CloseShared, refsOf, blobOf, contentOf

\* closeFile() of the last reference empties the path's row.
LEMMA UnlinkTable ==
  ASSUME ListInv, NEW i \in 1..Len(firstOpenFile), Unlink(i)
  PROVE  TableStep
<1>1. PICK c : c = firstOpenFile[i]
  OBVIOUS
<1>2. PICK q : q = openedPath[c]
  OBVIOUS
<1>3. Listed' = Listed \ {c} /\ c \in Listed /\ Listed \subseteq Ctxs
  BY <1>1, UnlinkList, ListedElements DEF ListInv, TypeOK
<1>4. /\ referenceCount[c] = 1 /\ q \in Paths
      /\ \A d \in Listed' : /\ openedPath'[d] = openedPath[d] /\ blobID'[d] = blobID[d]
                            /\ memory'[d] = memory[d]
                            /\ referenceCount'[d] = referenceCount[d]
  BY <1>1, <1>2, <1>3 DEF Unlink, Clear, ListInv, TypeOK, LiveContexts
<1>5. ContextOf(q) = {c}
  BY <1>2, <1>3, OneContext
<1>6. ContextOf(q)' = {}
  BY <1>3, <1>4, <1>5 DEF ContextOf
<1>7. refsOf'[q] = 0 /\ blobOf'[q] = NULL /\ contentOf'[q] = NULL
  BY <1>4, <1>6 DEF refsOf, blobOf, contentOf, TableValue
<1>8. refsOf[q] = 1
  BY <1>4, <1>5, RowOfContext
<1>9. ASSUME NEW p \in Paths \ {q} PROVE Row(p)' = Row(p)
  <2>1. ContextOf(p)' = ContextOf(p) /\ ContextOf(p) \subseteq Listed'
    BY <1>2, <1>3, <1>4, <1>9 DEF ContextOf
  <2> QED BY <1>4, <2>1, RowKept
<1>10. /\ refsOf' = [refsOf EXCEPT ![q] = 0] /\ blobOf' = [blobOf EXCEPT ![q] = NULL]
       /\ contentOf' = [contentOf EXCEPT ![q] = NULL]
  BY <1>4, <1>7, <1>9, OneRow
<1> QED BY <1>4, <1>8, <1>10
     DEF TableStep, Table!Next, Table!CloseLast, refsOf, blobOf, contentOf

\* A download that stores its buffer loads the content of its path.
LEMMA StoreMemoryTable ==
  ASSUME ListInv, NEW c \in Listed, StoreMemory(c, blobID[c])
  PROVE  TableStep
<1>1. PICK q : q = openedPath[c]
  OBVIOUS
<1>2. /\ memory'[c] = blobID[c] /\ referenceCount[c] \in Nat /\ referenceCount[c] >= 1
      /\ \A d \in Listed \ {c} : memory'[d] = memory[d]
  BY ListedElements DEF StoreMemory, ListInv, TypeOK, LiveContexts
<1>3. /\ q \in Paths /\ ContextOf(q) = {c}
      /\ refsOf'[q] = referenceCount'[c] /\ blobOf'[q] = blobID'[c]
      /\ contentOf'[q] = memory'[c]
      /\ \A p \in Paths \ {q} : Row(p)' = Row(p)
  <2>1. Listed' = Listed /\ openedPath' = openedPath /\ blobID' = blobID /\ referenceCount' = referenceCount
    BY DEF StoreMemory, Listed
  <2> QED BY <1>1, <1>2, <2>1, ChangedContext
<1>4. refsOf[q] = referenceCount[c] /\ blobOf[q] = blobID[c]
  BY <1>3, RowOfContext
<1>5. contentOf' = [contentOf EXCEPT ![q] = blobOf[q]]
  BY <1>2, <1>3, <1>4, OneRow
<1>6. refsOf' = refsOf /\ blobOf' = blobOf
  BY <1>3, <1>4, ColumnKept DEF StoreMemory
<1>7. refsOf[q] > 0
  BY <1>2, <1>4
<1> QED BY <1>3, <1>5, <1>6, <1>7
     DEF TableStep, Table!Next, Table!Load, refsOf, blobOf, contentOf

\* closeAllFiles() empties the table.
LEMMA CloseAllFilesTable ==
  ASSUME closeAllFiles
  PROVE  TableStep
<1>1. \A p \in Paths : ContextOf(p)' = {}
  BY DEF closeAllFiles, ContextOf, Listed, ToSet
<1>2. /\ refsOf' = [p \in Paths |-> 0] /\ blobOf' = [p \in Paths |-> NULL]
      /\ contentOf' = [p \in Paths |-> NULL]
  BY <1>1 DEF refsOf, blobOf, contentOf, TableValue
<1> QED BY <1>2 DEF TableStep, Table!Next, Table!CloseAll, refsOf, blobOf, contentOf

-----------------------------------------------------------------------------
(* The refinement                                                          *)

\* When no path begins another one, the list with its search, its shared
\* contexts and its removals is one counter, blob and content per path.
THEOREM TableImplemented ==
  ASSUME PathsApart
  PROVE  Spec => ImplementsTable
<1>1. Init => Table!Init
  <2> SUFFICES ASSUME Init PROVE Table!Init
    OBVIOUS
  <2>1. \A p \in Paths : ContextOf(p) = {}
    BY DEF Init, ContextOf, Listed, ToSet
  <2> QED BY <2>1 DEF Table!Init, TableValue
<1>2. ListInv /\ [Next]_ofmVars => TableStep
  <2> SUFFICES ASSUME ListInv, [Next]_ofmVars PROVE TableStep
    OBVIOUS
  <2>1. CASE UNCHANGED ofmVars
    <3>1. \A p \in Paths : ContextOf(p)' = ContextOf(p)
      BY <2>1 DEF ofmVars, ContextOf, Listed
    <3>2. \A p \in Paths : Row(p)' = Row(p)
      BY <2>1, <3>1, RowKept DEF ofmVars
    <3>3. \A p \in Paths : /\ refsOf'[p] = refsOf[p] /\ blobOf'[p] = blobOf[p]
                           /\ contentOf'[p] = contentOf[p]
      BY <3>2 DEF Row
    <3>4. refsOf' = refsOf /\ blobOf' = blobOf /\ contentOf' = contentOf
      BY <3>3 DEF refsOf, blobOf, contentOf
    <3> QED BY <3>4 DEF TableStep
  <2>2. ASSUME NEW q \in Paths, NEW b \in Blobs, NEW c \in Ctxs \cup {NULL}, openFile(q, b, c)
        PROVE  TableStep
    <3>1. CASE ReturnExisting(q, c)
      BY <3>1, ReturnExistingTable
    <3>2. CASE Hits(q) = {} /\ PushContext(q, b, c)
      BY <3>2, PushContextTable
    <3>3. CASE RegisterOutOfMemory(c)
      BY <2>1, <3>3 DEF RegisterOutOfMemory
    <3> QED BY <2>2, <3>1, <3>2, <3>3 DEF openFile
  <2>3. ASSUME NEW q \in Paths, closeFile(q) PROVE TableStep
    <3>1. ASSUME NEW i \in Hits(q), DropReference(firstOpenFile[i]) PROVE TableStep
      BY <3>1, HitIsOwn, DropReferenceTable
    <3>2. ASSUME NEW i \in Hits(q), Unlink(i) PROVE TableStep
      BY <3>2, UnlinkTable DEF Hits
    <3> QED BY <2>1, <2>3, <3>1, <3>2 DEF closeFile
  <2>4. ASSUME NEW c \in Listed, StoreMemory(c, blobID[c]) PROVE TableStep
    BY <2>4, StoreMemoryTable
  <2>5. CASE closeAllFiles
    BY <2>5, CloseAllFilesTable
  <2> QED BY <2>1, <2>2, <2>3, <2>4, <2>5 DEF Next
<1>3. ListInv /\ [Next]_ofmVars
        => [Table!Next]_<<[p \in Paths |-> TableValue(referenceCount, p, 0)],
                          [p \in Paths |-> TableValue(blobID, p, NULL)],
                          [p \in Paths |-> TableValue(memory, p, NULL)]>>
  BY <1>2 DEF TableStep, refsOf, blobOf, contentOf
<1> QED
  BY <1>1, <1>3, ListInvariant, PTL DEF Spec, ImplementsTable, Table!Spec, Table!tableVars
=============================================================================
