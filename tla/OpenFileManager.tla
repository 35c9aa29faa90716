-------------------------- MODULE OpenFileManager --------------------------
(***************************************************************************)
(* src/open-file-manager.c: the list of open file contexts.                *)
(*                                                                         *)
(* Every public function holds ofm_lock from its first access to the list  *)
(* to its last, so one call is one step here.  A context is the pair of    *)
(* the list node and the FileMemoryStruct_t it owns: they are allocated    *)
(* and freed together, so Ctxs stands for the addresses malloc() hands     *)
(* out, and a context outside the list is freed memory that a later        *)
(* openFile() may be given again.                                          *)
(*                                                                         *)
(* getFileContext, openFile and closeFile are operators over the caller's  *)
(* arguments and result, so that the module that models the callers can    *)
(* take the same steps.                                                    *)
(***************************************************************************)
EXTENDS PathMatch, SequencesExt

CONSTANTS
  Paths,      \* the file paths callers pass
  Blobs,      \* blob identifiers; a blob's content is named by the same value
  Ctxs,       \* addresses a context can have
  ErrorPage,  \* the body of an HTTP error answer
  NULL,       \* the null pointer
  Failures,   \* which outside calls may fail: a subset of FailureKinds
  MaxRefs     \* bound: references a context may collect in Next

\* "memory": malloc() of a list node; "listing", "download": the GET of a
\* folder listing or of a blob returns an error; "status": the server answers
\* a blob's GET with an HTTP error page, which curl reports as success.
FailureKinds == {"memory", "listing", "download", "status"}

ASSUME OpenFileManagerAssumption ==
  /\ Paths \subseteq Seq(Chars)
  /\ NULL \notin Paths \cup Blobs \cup Ctxs \cup {ErrorPage}
  /\ ErrorPage \notin Blobs
  /\ Failures \subseteq FailureKinds
  /\ MaxRefs \in Nat \ {0}

VARIABLES
  firstOpenFile,    \* the list, head first
  openFiles,        \* the counter beside it
  openedPath,       \* OpenFileList_t.path of each context
  blobID,           \* FileMemoryStruct_t.blobID
  memory,           \* FileMemoryStruct_t.memory: a blob's content, or NULL
  referenceCount    \* FileMemoryStruct_t.referenceCount

ofmVars ==
  <<firstOpenFile, openFiles, openedPath, blobID, memory, referenceCount>>

Listed == ToSet(firstOpenFile)

\* Positions of the list whose entry answers a request for p.
Hits(p) ==
  {i \in 1..Len(firstOpenFile) : Matches(p, openedPath[firstOpenFile[i]])}

\* The search runs from the head and stops at the first hit.
FirstHit(p, i) == i \in Hits(p) /\ \A j \in Hits(p) : i <= j

\* c is what getFileContext(p) returns.
getFileContext(p, c) ==
  \/ Hits(p) = {} /\ c = NULL
  \/ \E i \in Hits(p) : FirstHit(p, i) /\ c = firstOpenFile[i]

-----------------------------------------------------------------------------
(* openFile                                                                *)

\* "Denying double opening": the existing context gains a reference.
ReturnExisting(p, c) ==
  /\ \E i \in Hits(p) : FirstHit(p, i) /\ c = firstOpenFile[i]
  /\ referenceCount' = [referenceCount EXCEPT ![c] = @ + 1]
  /\ UNCHANGED <<firstOpenFile, openFiles, openedPath, blobID, memory>>

\* Fault: file->memory is not set, and keeps what the recycled memory held.
PushContextUninitialised(p, b, c) ==
  /\ c \in Ctxs \ Listed
  /\ firstOpenFile' = Cons(c, firstOpenFile)
  /\ openFiles' = openFiles + 1
  /\ openedPath' = [openedPath EXCEPT ![c] = p]
  /\ blobID' = [blobID EXCEPT ![c] = b]
  /\ \E m \in Blobs \cup {NULL} : memory' = [memory EXCEPT ![c] = m]
  /\ referenceCount' = [referenceCount EXCEPT ![c] = 1]

\* A new context goes to the head of the list.
PushContext(p, b, c) ==
  /\ c \in Ctxs \ Listed
  /\ firstOpenFile' = Cons(c, firstOpenFile)
  /\ openFiles' = openFiles + 1
  /\ openedPath' = [openedPath EXCEPT ![c] = p]
  /\ blobID' = [blobID EXCEPT ![c] = b]
  /\ memory' = [memory EXCEPT ![c] = NULL]
  /\ referenceCount' = [referenceCount EXCEPT ![c] = 1]

\* The node cannot be allocated: the counter is put back, the result is NULL.
RegisterOutOfMemory(c) ==
  /\ "memory" \in Failures
  /\ c = NULL
  /\ UNCHANGED ofmVars

\* Fault: the search before the insertion is left out.
openFileUnchecked(p, b, c) == PushContext(p, b, c)

openFile(p, b, c) ==
  \/ ReturnExisting(p, c)
  \/ Hits(p) = {} /\ PushContext(p, b, c)
  \/ Hits(p) = {} /\ RegisterOutOfMemory(c)

-----------------------------------------------------------------------------
(* closeFile, closeAllFiles                                                *)

\* Fault: the last reference is dropped like any other.
DropReferenceUnguarded(c) ==
  /\ referenceCount' = [referenceCount EXCEPT ![c] = @ - 1]
  /\ UNCHANGED <<firstOpenFile, openFiles, openedPath, blobID, memory>>

DropReference(c) ==
  /\ referenceCount[c] > 1
  /\ referenceCount' = [referenceCount EXCEPT ![c] = @ - 1]
  /\ UNCHANGED <<firstOpenFile, openFiles, openedPath, blobID, memory>>

\* Unlink and free the context at position i.  The fields of freed memory
\* carry no information and are shown as NULL.
Clear(c) ==
  /\ openedPath' = [openedPath EXCEPT ![c] = NULL]
  /\ blobID' = [blobID EXCEPT ![c] = NULL]
  /\ memory' = [memory EXCEPT ![c] = NULL]
  /\ referenceCount' = [referenceCount EXCEPT ![c] = 0]

\* Fault: the counter is left alone when a context is unlinked.
UnlinkUncounted(i) ==
  /\ referenceCount[firstOpenFile[i]] <= 1
  /\ firstOpenFile' = RemoveAt(firstOpenFile, i)
  /\ openFiles' = openFiles
  /\ Clear(firstOpenFile[i])

Unlink(i) ==
  /\ referenceCount[firstOpenFile[i]] <= 1
  /\ firstOpenFile' = RemoveAt(firstOpenFile, i)
  /\ openFiles' = openFiles - 1
  /\ Clear(firstOpenFile[i])

\* Fault: the context is freed whatever its reference count.
closeFileEager(p) ==
  \/ Hits(p) = {} /\ UNCHANGED ofmVars
  \/ \E i \in Hits(p) :
       /\ FirstHit(p, i)
       /\ firstOpenFile' = RemoveAt(firstOpenFile, i)
       /\ openFiles' = openFiles - 1
       /\ Clear(firstOpenFile[i])

\* Fault: the context at the head is taken for the one that was found.
closeFileHead(p) ==
  \/ Hits(p) = {} /\ UNCHANGED ofmVars
  \/ Hits(p) # {} /\ (DropReference(firstOpenFile[1]) \/ Unlink(1))

closeFile(p) ==
  \/ Hits(p) = {} /\ UNCHANGED ofmVars
  \/ \E i \in Hits(p) :
       /\ FirstHit(p, i)
       /\ DropReference(firstOpenFile[i]) \/ Unlink(i)

closeAllFiles ==
  /\ firstOpenFile' = << >>
  /\ openFiles' = openFiles - Len(firstOpenFile)
  /\ openedPath' = [c \in Ctxs |-> NULL]
  /\ blobID' = [c \in Ctxs |-> NULL]
  /\ memory' = [c \in Ctxs |-> NULL]
  /\ referenceCount' = [c \in Ctxs |-> 0]

-----------------------------------------------------------------------------
(* What a caller does with the pointer it was given: the download writes   *)
(* the content through &file->memory, without ofm_lock.                    *)
StoreMemory(c, b) ==
  /\ memory' = [memory EXCEPT ![c] = b]
  /\ UNCHANGED <<firstOpenFile, openFiles, openedPath, blobID, referenceCount>>

Init ==
  /\ firstOpenFile = << >>
  /\ openFiles = 0
  /\ openedPath = [c \in Ctxs |-> NULL]
  /\ blobID = [c \in Ctxs |-> NULL]
  /\ memory = [c \in Ctxs |-> NULL]
  /\ referenceCount = [c \in Ctxs |-> 0]

BelowRefBound == \A c \in Ctxs : referenceCount[c] < MaxRefs

Next ==
  \/ \E p \in Paths, b \in Blobs, c \in Ctxs \cup {NULL} :
       BelowRefBound /\ openFile(p, b, c)
  \/ \E p \in Paths : closeFile(p)
  \/ \E c \in Listed : StoreMemory(c, blobID[c])
  \/ closeAllFiles

Spec == Init /\ [][Next]_ofmVars

-----------------------------------------------------------------------------
TypeOK ==
  /\ firstOpenFile \in Seq(Ctxs)
  /\ openFiles \in Nat
  /\ openedPath \in [Ctxs -> Paths \cup {NULL}]
  /\ blobID \in [Ctxs -> Blobs \cup {NULL}]
  /\ memory \in [Ctxs -> Blobs \cup {ErrorPage, NULL}]
  /\ referenceCount \in [Ctxs -> Nat]

\* The counter openFile() and closeFile() keep beside the list is its length
\* through every interleaving of openings, double openings, failed openings
\* and closings; --openFiles never wraps below zero.
CounterMatchesList == openFiles = Len(firstOpenFile)

\* No path is registered twice and no address is linked twice: the search and
\* the insertion of openFile() are one critical section, so two threads that
\* both found the file closed end up sharing one context.
NoTwin ==
  \A i, j \in 1..Len(firstOpenFile) :
    openedPath[firstOpenFile[i]] = openedPath[firstOpenFile[j]] => i = j

\* getFileContext() logs "Found file OPEN" for the path it was asked about:
\* the context it returns was opened with that path.
FoundMeansOpen ==
  \A p \in Paths, c \in Listed :
    getFileContext(p, c) => openedPath[c] = p

-----------------------------------------------------------------------------
\* What the module promises per path, when no path begins another one.
ContextOf(p) == {c \in Listed : openedPath[c] = p}

TableValue(f, p, none) ==
  IF ContextOf(p) = {} THEN none ELSE f[CHOOSE c \in ContextOf(p) : TRUE]

Table == INSTANCE OpenFileTable WITH
  refs <- [p \in Paths |-> TableValue(referenceCount, p, 0)],
  blob <- [p \in Paths |-> TableValue(blobID, p, NULL)],
  content <- [p \in Paths |-> TableValue(memory, p, NULL)]

\* The list with its search, its shared contexts and its reference counts
\* implements one counter per path: each openFile(p) adds one to p's counter
\* and to no other, each closeFile(p) takes one back, and p's content and
\* blob live exactly while its counter is positive.
ImplementsTable == Table!Spec
=============================================================================
