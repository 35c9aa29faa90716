---------------------------- MODULE OpenFileList ----------------------------
(***************************************************************************)
(* src/open-file-manager.c inside its critical sections: the mutex, the    *)
(* linked list, and the heap the list lives in.                            *)
(*                                                                         *)
(* A node is an OpenFileList_t, a file a FileMemoryStruct_t; NULL marks an *)
(* address that is not allocated.  A call takes ofm_lock, walks the list   *)
(* node by node, and changes it in the order of the code; callers of       *)
(* openFile() store content at any time, without the lock.                 *)
(***************************************************************************)
EXTENDS PathMatch, FiniteSets, Functions

CONSTANTS
  Threads,   \* callers
  Paths, Blobs, NULL,
  Nodes,     \* addresses of list nodes
  Files,     \* addresses of file structures: what callers are given
  Failures,  \* "node": the first MALLOC may fail; "file": the second may
  FreshFile, \* what malloc() may leave in a new node's file member
  MaxRefs    \* bound: references of a file

\* A list node and a file structure.
OpenFileList_t ==
  [path : Paths, next : Nodes \cup {NULL}, file : Files \cup {NULL}]

FileMemoryStruct_t ==
  [blobID : Blobs, memory : Blobs \cup {NULL}, referenceCount : 1..MaxRefs]

ASSUME OpenFileListAssumption ==
  /\ Paths \subseteq Seq(Chars)
  /\ NULL \notin Threads \cup Paths \cup Blobs \cup Nodes \cup Files
  /\ NULL \notin OpenFileList_t \cup FileMemoryStruct_t
  /\ Failures \subseteq {"node", "file"}
  /\ FreshFile \subseteq Files \cup {NULL}
  /\ MaxRefs \in Nat \ {0}
  /\ IsFiniteSet(Nodes)

VARIABLES
  mounted,        \* FALSE once closeAllFiles() has been called
  ofm_lock,       \* the thread that holds the mutex, or NULL
  firstOpenFile,  \* the head of the list, or NULL
  openFiles,      \* the counter beside the list
  node,           \* node[n] = [path, next, file]
  file,           \* file[f] = [blobID, memory, referenceCount]
  pc,             \* per thread: the next step of its call
  arg,            \* per thread: the path it was called with
  cur,            \* per thread: fileInList, or openedFile in openFile()
  prev            \* per thread: previousFileInList, or next in closeAllFiles()

heapVars == <<firstOpenFile, openFiles, node, file>>
vars == <<mounted, ofm_lock, heapVars, pc, arg, cur, prev>>

Walks == {"get", "open", "close"}
Sweeps == {"closeAll", "sweep"}

Free(heap) == {a \in DOMAIN heap : heap[a] = NULL}

\* The code looks at no address beyond NULL, so which free one malloc() hands
\* out makes no difference; it is given out again as soon as it is freed.
Malloc(heap) == CHOOSE a \in Free(heap) : TRUE

Goto(t, l) == pc' = [pc EXCEPT ![t] = l]

-----------------------------------------------------------------------------
(* Entry and exit                                                          *)

\* A call waits for the mutex.  Which function it calls, with which path, can
\* be left open until it gets it: nothing is read or written before.
Call(t) ==
  /\ mounted /\ pc[t] = "idle"
  /\ Goto(t, "lock")
  /\ UNCHANGED <<mounted, ofm_lock, heapVars, arg, cur, prev>>

BelowRefBound ==
  \A f \in Files \ Free(file) : file[f].referenceCount < MaxRefs

Lock(t, op, p) ==
  /\ pc[t] = "lock" /\ ofm_lock = NULL
  /\ op = "open" => BelowRefBound
  /\ ofm_lock' = t
  /\ Goto(t, op)
  /\ arg' = [arg EXCEPT ![t] = p]
  /\ cur' = [cur EXCEPT ![t] = firstOpenFile]
  /\ UNCHANGED <<mounted, heapVars, prev>>

\* destroy_callback() runs when libfuse has joined the other threads.
CloseAll(t) ==
  /\ mounted /\ \A u \in Threads : pc[u] = "idle"
  /\ mounted' = FALSE
  /\ ofm_lock = NULL
  /\ ofm_lock' = t
  /\ Goto(t, "closeAll")
  /\ cur' = [cur EXCEPT ![t] = firstOpenFile]
  /\ UNCHANGED <<heapVars, arg, prev>>

\* pthread_mutex_unlock() and return.
Return(t) ==
  /\ ofm_lock' = NULL
  /\ Goto(t, "idle")
  /\ arg' = [arg EXCEPT ![t] = NULL]
  /\ cur' = [cur EXCEPT ![t] = NULL]
  /\ prev' = [prev EXCEPT ![t] = NULL]

-----------------------------------------------------------------------------
(* The walk                                                                *)

Hit(t) == cur[t] # NULL /\ Matches(arg[t], node[cur[t]].path)

\* Fault: previousFileInList stays behind.
WalkOnForgetting(t) ==
  /\ pc[t] \in Walks
  /\ cur[t] # NULL /\ ~Hit(t)
  /\ cur' = [cur EXCEPT ![t] = node[cur[t]].next]
  /\ UNCHANGED <<mounted, ofm_lock, heapVars, pc, arg, prev>>

WalkOn(t) ==
  /\ pc[t] \in Walks
  /\ cur[t] # NULL /\ ~Hit(t)
  /\ cur' = [cur EXCEPT ![t] = node[cur[t]].next]
  /\ prev' = [prev EXCEPT ![t] = IF pc[t] = "close" THEN cur[t] ELSE NULL]
  /\ UNCHANGED <<mounted, ofm_lock, heapVars, pc, arg>>

\* getFileContext() returns what it found; closeFile() found nothing.
WalkEnd(t) ==
  /\ \/ pc[t] = "get" /\ (Hit(t) \/ cur[t] = NULL)
     \/ pc[t] = "close" /\ cur[t] = NULL
  /\ Return(t)
  /\ UNCHANGED <<mounted, heapVars>>

-----------------------------------------------------------------------------
(* openFile                                                                *)

\* Fault: the early return of a double opening keeps the mutex.
OpenAgainLocked(t) ==
  /\ pc[t] = "open" /\ Hit(t)
  /\ file' = [file EXCEPT ![node[cur[t]].file].referenceCount = @ + 1]
  /\ Goto(t, "idle")
  /\ UNCHANGED <<mounted, ofm_lock, firstOpenFile, openFiles, node, arg, cur, prev>>

\* "Denying double opening"
OpenAgain(t) ==
  /\ pc[t] = "open" /\ Hit(t)
  /\ file' = [file EXCEPT ![node[cur[t]].file].referenceCount = @ + 1]
  /\ Return(t)
  /\ UNCHANGED <<mounted, firstOpenFile, openFiles, node>>

\* Fault: the counter moves only when the context is listed.
AllocNodeUncounted(t) ==
  /\ pc[t] = "open" /\ cur[t] = NULL
  /\ Free(node) # {}
  /\ cur' = [cur EXCEPT ![t] = Malloc(node)]
  /\ \E fresh \in FreshFile :
       node' = [node EXCEPT ![Malloc(node)] =
                 [path |-> arg[t], next |-> NULL, file |-> fresh]]
  /\ Goto(t, "alloc_file")
  /\ UNCHANGED <<mounted, ofm_lock, firstOpenFile, openFiles, file, arg, prev>>

\* The node's path is set, its file member is not.
AllocNode(t) ==
  /\ pc[t] = "open" /\ cur[t] = NULL
  /\ openFiles' = openFiles + 1
  /\ Free(node) # {}
  /\ cur' = [cur EXCEPT ![t] = Malloc(node)]
  /\ \E fresh \in FreshFile :
       node' = [node EXCEPT ![Malloc(node)] =
                 [path |-> arg[t], next |-> NULL, file |-> fresh]]
  /\ Goto(t, "alloc_file")
  /\ UNCHANGED <<mounted, ofm_lock, firstOpenFile, file, arg, prev>>

\* ++openFiles, MALLOC fails, --openFiles
AllocNodeFails(t) ==
  /\ "node" \in Failures
  /\ pc[t] = "open" /\ cur[t] = NULL
  /\ Return(t)
  /\ UNCHANGED <<mounted, heapVars>>

\* Fault: the error path forgets the node.
AllocFileFailsLeaking(t) ==
  /\ "file" \in Failures
  /\ pc[t] = "alloc_file"
  /\ openFiles' = openFiles - 1
  /\ Return(t)
  /\ UNCHANGED <<mounted, firstOpenFile, node, file>>

\* FREE(openedFile->file) frees what the new node happens to hold there.
AllocFileFails(t) ==
  /\ "file" \in Failures
  /\ pc[t] = "alloc_file"
  /\ file' = [f \in Files |-> IF f = node[cur[t]].file THEN NULL ELSE file[f]]
  /\ node' = [node EXCEPT ![cur[t]] = NULL]
  /\ openFiles' = openFiles - 1
  /\ Return(t)
  /\ UNCHANGED <<mounted, firstOpenFile>>

\* The file is filled in and the node becomes the head.
AllocFile(t, b) ==
  /\ pc[t] = "alloc_file"
  /\ Free(file) # {}
  /\ file' = [file EXCEPT ![Malloc(file)] =
                [blobID |-> b, memory |-> NULL, referenceCount |-> 1]]
  /\ node' = [node EXCEPT ![cur[t]].file = Malloc(file),
                          ![cur[t]].next = firstOpenFile]
  /\ firstOpenFile' = cur[t]
  /\ Return(t)
  /\ UNCHANGED <<mounted, openFiles>>

-----------------------------------------------------------------------------
(* closeFile                                                               *)

DropReference(t) ==
  /\ pc[t] = "close" /\ Hit(t)
  /\ file[node[cur[t]].file].referenceCount > 1
  /\ file' = [file EXCEPT ![node[cur[t]].file].referenceCount = @ - 1]
  /\ Return(t)
  /\ UNCHANGED <<mounted, firstOpenFile, openFiles, node>>

\* Fault: only the head of the list is unlinked.
UnlinkHead(t) ==
  /\ pc[t] = "close" /\ Hit(t)
  /\ file[node[cur[t]].file].referenceCount <= 1
  /\ openFiles' = openFiles - 1
  /\ firstOpenFile' = IF prev[t] = NULL THEN node[cur[t]].next ELSE firstOpenFile
  /\ Goto(t, "free")
  /\ UNCHANGED <<mounted, ofm_lock, node, file, arg, cur, prev>>

Unlink(t) ==
  /\ pc[t] = "close" /\ Hit(t)
  /\ file[node[cur[t]].file].referenceCount <= 1
  /\ openFiles' = openFiles - 1
  /\ IF prev[t] = NULL
       THEN /\ firstOpenFile' = node[cur[t]].next
            /\ UNCHANGED node
       ELSE /\ node' = [node EXCEPT ![prev[t]].next = node[cur[t]].next]
            /\ UNCHANGED firstOpenFile
  /\ Goto(t, "free")
  /\ UNCHANGED <<mounted, ofm_lock, file, arg, cur, prev>>

\* FREE(file), FREE(node)
FreeCurrent(t) ==
  /\ file' = [file EXCEPT ![node[cur[t]].file] = NULL]
  /\ node' = [node EXCEPT ![cur[t]] = NULL]

FreeUnlinked(t) ==
  /\ pc[t] = "free"
  /\ FreeCurrent(t)
  /\ Return(t)
  /\ UNCHANGED <<mounted, firstOpenFile, openFiles>>

-----------------------------------------------------------------------------
(* closeAllFiles                                                           *)

\* Fault: the current file is freed before its node is asked for the next.
SweepFreed(t) ==
  /\ pc[t] = "closeAll" /\ cur[t] # NULL
  /\ FreeCurrent(t)
  /\ Goto(t, "sweep")
  /\ UNCHANGED <<mounted, ofm_lock, firstOpenFile, openFiles, arg, cur, prev>>

\* next is read from the node that is about to be freed.
Sweep(t) ==
  /\ pc[t] = "closeAll" /\ cur[t] # NULL
  /\ prev' = [prev EXCEPT ![t] = node[cur[t]].next]
  /\ Goto(t, "sweep")
  /\ UNCHANGED <<mounted, ofm_lock, heapVars, arg, cur>>

FreeSwept(t) ==
  /\ pc[t] = "sweep"
  /\ openFiles' = openFiles - 1
  /\ FreeCurrent(t)
  /\ cur' = [cur EXCEPT ![t] = prev[t]]
  /\ prev' = [prev EXCEPT ![t] = NULL]
  /\ Goto(t, "closeAll")
  /\ UNCHANGED <<mounted, ofm_lock, firstOpenFile, arg>>

SweepEnd(t) ==
  /\ pc[t] = "closeAll" /\ cur[t] = NULL
  /\ firstOpenFile' = NULL
  /\ Return(t)
  /\ UNCHANGED <<mounted, openFiles, node, file>>

-----------------------------------------------------------------------------
(* The list as a sequence                                                  *)

\* The nodes reached from n; a cycle is cut off.
Chain(n) ==
  LET walk[i \in Nat] ==
        [m \in Nodes \cup {NULL} |->
           IF i = 0 \/ m = NULL \/ node[m] = NULL
             THEN << >>
             ELSE <<m>> \o walk[i - 1][node[m].next]]
  IN walk[Cardinality(Nodes) + 1][n]

\* closeAllFiles() works on a list nobody else will see again.
Sweeping == \E t \in Threads : pc[t] \in Sweeps

NodeSeq == IF Sweeping THEN << >> ELSE Chain(firstOpenFile)

ListSeq == LET s == NodeSeq IN [i \in DOMAIN s |-> node[s[i]].file]

ListedFiles == Range(ListSeq)

\* What of has at the node of a listed file; none for the other files.
OfListed(of, none) ==
  LET s == NodeSeq
      at(f) == {i \in DOMAIN s : node[s[i]].file = f}
  IN [f \in Files |->
        IF at(f) = {} THEN none ELSE of[s[CHOOSE i \in at(f) : TRUE]]]

\* The download of another module stores through a pointer from openFile().
Store(f) ==
  /\ f \in ListedFiles
  /\ file' = [file EXCEPT ![f].memory = file[f].blobID]
  /\ UNCHANGED <<mounted, ofm_lock, firstOpenFile, openFiles, node, pc, arg, cur, prev>>

-----------------------------------------------------------------------------
Init ==
  /\ mounted = TRUE
  /\ ofm_lock = NULL
  /\ firstOpenFile = NULL
  /\ openFiles = 0
  /\ node = [n \in Nodes |-> NULL]
  /\ file = [f \in Files |-> NULL]
  /\ pc = [t \in Threads |-> "idle"]
  /\ arg = [t \in Threads |-> NULL]
  /\ cur = [t \in Threads |-> NULL]
  /\ prev = [t \in Threads |-> NULL]

\* A step inside a critical section.
LockedStep(t) ==
  \/ WalkOn(t) \/ WalkEnd(t)
  \/ OpenAgain(t) \/ AllocNode(t) \/ AllocNodeFails(t)
  \/ AllocFileFails(t) \/ \E b \in Blobs : AllocFile(t, b)
  \/ DropReference(t) \/ Unlink(t) \/ FreeUnlinked(t)
  \/ Sweep(t) \/ FreeSwept(t) \/ SweepEnd(t)

Next ==
  \/ \E t \in Threads : Call(t) \/ CloseAll(t) \/ LockedStep(t)
  \/ \E t \in Threads, op \in Walks, p \in Paths : Lock(t, op, p)
  \/ \E f \in Files : Store(f)

\* A thread that holds the mutex is scheduled.  Nothing is assumed of who
\* gets it: a pthread mutex is not a queue.
Fairness == \A t \in Threads : WF_vars(LockedStep(t))

Spec == Init /\ [][Next]_vars /\ Fairness

-----------------------------------------------------------------------------
TypeOK ==
  /\ mounted \in BOOLEAN
  /\ ofm_lock \in Threads \cup {NULL}
  /\ firstOpenFile \in Nodes \cup {NULL}
  /\ openFiles \in Nat
  /\ node \in [Nodes -> OpenFileList_t \cup {NULL}]
  /\ file \in [Files -> FileMemoryStruct_t \cup {NULL}]
  /\ pc \in [Threads -> Walks \cup Sweeps \cup
              {"idle", "lock", "alloc_file", "free"}]
  /\ arg \in [Threads -> Paths \cup {NULL}]
  /\ cur \in [Threads -> Nodes \cup {NULL}]
  /\ prev \in [Threads -> Nodes \cup {NULL}]

\* Between calls the heap holds exactly the list: every node and every file
\* that was allocated is linked once, nothing linked has been freed, and no
\* error or close path has leaked; openFiles counts them.  The error path of
\* openFile() keeps to it only if malloc() leaves NULL in a new node's file
\* member (FreshFile), which it frees without having set it.
HeapMatchesList ==
  ofm_lock = NULL =>
    /\ Cardinality(Nodes \ Free(node)) = Len(NodeSeq)
    /\ Files \ Free(file) = ListedFiles
    /\ Cardinality(ListedFiles) = Len(NodeSeq)
    /\ openFiles = Len(NodeSeq)

\* Whatever a walk, an unlinking or the sweep dereferences, the entry it is at
\* and the one it remembers, is allocated, and what they free is freed once:
\* a closing frees after it has unlinked, and the sweep asks a node for the
\* next one before it frees it.  The error path of openFile() is not covered:
\* it dereferences a node whose file member was never set.
NoUseAfterFree ==
  \A t \in Threads :
    /\ cur[t] # NULL => node[cur[t]] # NULL
    /\ cur[t] # NULL /\ pc[t] # "alloc_file" => file[node[cur[t]].file] # NULL
    /\ prev[t] # NULL => node[prev[t]] # NULL
    /\ prev[t] # NULL /\ pc[t] = "close" => node[prev[t]].next = cur[t]
    /\ pc[t] \in {"free", "sweep"} => cur[t] # NULL

\* Every critical section ends: a thread that got ofm_lock comes to the end
\* of the list or of its list surgery and returns without the lock, on every
\* path of the four functions.
EveryCallReturns ==
  \A t \in Threads : ofm_lock = t ~> pc[t] = "idle" /\ ofm_lock # t

-----------------------------------------------------------------------------
\* An opening has counted its file before the file is listed, and the sweep
\* has not yet counted off what it will free.
InFlight ==
  IF \E t \in Threads : pc[t] = "alloc_file" THEN 1
  ELSE IF Sweeping THEN Len(Chain(cur[ofm_lock]))
  ELSE 0

Manager == INSTANCE OpenFileManager WITH
  Ctxs <- Files,
  ErrorPage <- "error page",
  Failures <- {"memory"},
  firstOpenFile <- ListSeq,
  openFiles <- openFiles - InFlight,
  openedPath <- OfListed([n \in Nodes |-> node[n].path], NULL),
  blobID <- OfListed([n \in Nodes |-> file[node[n].file].blobID], NULL),
  memory <- OfListed([n \in Nodes |-> file[node[n].file].memory], NULL),
  referenceCount <- OfListed([n \in Nodes |-> file[node[n].file].referenceCount], 0)

\* Seen from outside its critical sections, the list on the heap takes the
\* atomic steps of OpenFileManager: a call takes effect once, at one moment
\* between its lock and its unlock, and search, insertion, removal and
\* counting never show a half-made list.
ImplementsManager == Manager!Spec
=============================================================================
