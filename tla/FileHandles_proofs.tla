------------------------- MODULE FileHandles_proofs -------------------------
(* What the handlers of open, read and release keep to, for any number of    *)
(* threads, files and paths.  The guarantees of a handler are those of a     *)
(* file of Alone, which is used by one handle at a time; the other files may *)
(* be shared, and their handlers may hold pointers to freed contexts.        *)
EXTENDS FileHandles, OpenFileManager_proofs

\* Steps in which a handler holds a pointer to a context.
HoldPcs == {"open_request", "open_store", "read_compare", "read_copy"}

\* Steps in which a handler has its copy of the blob identifier.
BlobPcs == HoldPcs \cup {"open_check", "open_register",
                         "read_lookup", "read_register"}

\* A handler's locals fit the step it is at and the state of its handle.
LocalsInv ==
  \A t \in Threads :
    /\ pc[t] = "idle" => hdl[t] = NULL
    /\ pc[t] \in OpenPcs => hdl[t] \in Handles /\ hstate[hdl[t]] = "opening"
    /\ pc[t] \in ReadPcs => hdl[t] \in Handles /\ hstate[hdl[t]] = "open"
    /\ pc[t] \in BlobPcs => blob[t] \in Blobs
    /\ pc[t] \in HoldPcs <=> file[t] # NULL

\* One thread opens a handle, and no other works for it meanwhile.
OneOpener ==
  \A t, u \in Threads : pc[t] \in OpenPcs /\ hdl[t] = hdl[u] => t = u

\* A handle in use on a file of Alone overlaps no other handle in use.
HandlesApart ==
  /\ \A h \in Handles : hstate[h] # "closed" => hpath[h] \in Paths
  /\ \A g, h \in Handles :
       /\ hstate[g] # "closed" /\ hstate[h] # "closed" /\ g # h
       /\ hpath[g] \in Alone
       => ~Overlap(hpath[g], hpath[h])

KernelInv == FHTypeOK /\ LocalsInv /\ OneOpener /\ HandlesApart

\* No listed context answers the path thread t is about to register.
Unregistered(t) == \A c \in Listed : ~Matches(TPath(t), openedPath[c])

\* What thread t may assume of the context it holds, step by step, when it
\* works for a file of Alone.  Content is safe from handlers that hold freed
\* contexts only when there are none.
PointerOK(t) ==
  TPath(t) \in Alone =>
    /\ pc[t] \in HoldPcs => /\ file[t] \in Listed
                            /\ Matches(TPath(t), openedPath[file[t]])
    /\ pc[t] = "open_register" => Unregistered(t)
    /\ pc[t] \in {"open_request", "open_store"} /\ Alone = Paths =>
         memory[file[t]] = NULL
    /\ pc[t] \in {"open_store", "read_copy"} => blob[t] = blobID[file[t]]

\* A context's content is that of its blob, or an error page.
ContentInv ==
  Alone = Paths => \A c \in Listed : memory[c] \in {NULL, ErrorPage, blobID[c]}

\* The inductive invariant.
FHInv ==
  /\ ListInv
  /\ KernelInv
  /\ ContentInv
  /\ \A t \in Threads : PointerOK(t)

-----------------------------------------------------------------------------
(* Consequences                                                            *)

\* Two handlers that could use one context work for the same handle.
LEMMA SameContextSameHandle ==
  ASSUME FHInv, NEW t \in Threads, NEW u \in Threads, NEW c \in Listed,
         hdl[t] \in Handles, hdl[u] \in Handles, TPath(t) \in Alone,
         hstate[hdl[t]] # "closed", hstate[hdl[u]] # "closed",
         Matches(TPath(t), openedPath[c]), Matches(TPath(u), openedPath[c])
  PROVE  hdl[t] = hdl[u]
<1>1. /\ TPath(t) \in Paths
      /\ TPath(u) \in Paths
      /\ openedPath[c] \in Paths
  BY DEF FHInv, KernelInv, HandlesApart, TPath, ListInv, LiveContexts
<1>2. Overlap(TPath(t), TPath(u))
  BY <1>1, CommonEntryOverlap, OpenFileManagerAssumption
<1> QED
  BY <1>2 DEF FHInv, KernelInv, HandlesApart, TPath

\* The mounted, idle file system satisfies the inductive invariant.
LEMMA InitFHInv == FHInit => FHInv
<1> SUFFICES ASSUME FHInit PROVE FHInv
  OBVIOUS
<1>1. ListInv
  BY InitInv DEF FHInit
<1>2. Listed = {}
  BY DEF FHInit, Init, Listed, ToSet
<1>3. FHTypeOK
  BY <1>1, FileHandlesAssumption DEF FHInit, FHTypeOK, ListInv
<1>4. LocalsInv /\ OneOpener /\ HandlesApart
  BY DEF FHInit, LocalsInv, OneOpener, HandlesApart, OpenPcs, ReadPcs, HoldPcs,
         BlobPcs
<1>5. ContentInv /\ \A t \in Threads : PointerOK(t)
  BY <1>2 DEF FHInit, ContentInv, PointerOK, HoldPcs
<1> QED
  BY <1>1, <1>3, <1>4, <1>5 DEF FHInv, KernelInv

\* The manager's state is untouched: its invariant still holds.
LEMMA SameList ==
  ASSUME ListInv, UNCHANGED ofmVars
  PROVE  ListInv' /\ Listed' = Listed
BY DEF ofmVars, ListInv, TypeOK, CounterMatchesList, OrderedList, LiveContexts,
       Listed

\* A handler that does not move keeps its guarantees when the step leaves the
\* contexts that answer its path alone and adds none.
LEMMA OtherThread ==
  ASSUME FHInv, NEW u \in Threads,
         pc'[u] = pc[u], hdl'[u] = hdl[u], blob'[u] = blob[u],
         file'[u] = file[u],
         pc[u] # "idle" => hpath'[hdl[u]] = hpath[hdl[u]],
         \A d \in Listed : TPath(u) \in Alone /\ Matches(TPath(u), openedPath[d]) =>
           /\ d \in Listed'
           /\ openedPath'[d] = openedPath[d]
           /\ blobID'[d] = blobID[d]
           /\ pc[u] \in {"open_request", "open_store"} /\ Alone = Paths =>
                memory'[d] = memory[d],
         pc[u] = "open_register" /\ TPath(u) \in Alone =>
           \A d \in Listed' : \/ d \in Listed /\ openedPath'[d] = openedPath[d]
                              \/ ~Matches(TPath(u), openedPath'[d])
  PROVE  PointerOK(u)'
<1>1. pc[u] # "idle" => TPath(u)' = TPath(u)
  BY DEF TPath
<1>2. PointerOK(u)
  BY DEF FHInv
<1> SUFFICES ASSUME pc[u] # "idle", TPath(u) \in Alone
             PROVE  PointerOK(u)'
  BY <1>1 DEF PointerOK, HoldPcs
<1>3. pc[u] \in HoldPcs => /\ file[u]' \in Listed'
                           /\ Matches(TPath(u), openedPath[file[u]])'
  BY <1>1, <1>2 DEF PointerOK, HoldPcs
<1>4. pc[u] = "open_register" => Unregistered(u)'
  BY <1>1, <1>2 DEF PointerOK, Unregistered
<1>5. pc[u] \in {"open_request", "open_store"} /\ Alone = Paths =>
        (memory[file[u]] = NULL)'
  BY <1>2 DEF PointerOK, HoldPcs
<1>6. pc[u] \in {"open_store", "read_copy"} => (blob[u] = blobID[file[u]])'
  BY <1>2 DEF PointerOK, HoldPcs
<1> QED
  BY <1>3, <1>4, <1>5, <1>6 DEF PointerOK

Pcs == {"idle"} \cup OpenPcs \cup ReadPcs
Listing == [Paths -> Blobs \cup {NULL}]

\* A step of one handler to step l, with handle g, blob b and context c.
LEMMA KernelMove ==
  ASSUME FHInv, TypeOK', NEW t \in Threads,
         UNCHANGED kernelVars,
         remote' \in Listing,
         cache' \in [Threads -> Listing \cup {NULL}],
         NEW l \in Pcs, NEW g \in Handles \cup {NULL},
         NEW b \in Blobs \cup {NULL}, NEW c \in Ctxs \cup {NULL},
         pc' = [pc EXCEPT ![t] = l],
         hdl' = [hdl EXCEPT ![t] = g],
         blob' = [blob EXCEPT ![t] = b],
         file' = [file EXCEPT ![t] = c],
         l = "idle" => g = NULL,
         l \in OpenPcs => pc[t] \in OpenPcs /\ g = hdl[t],
         l \in ReadPcs => g \in Handles /\ hstate[g] = "open",
         l \in BlobPcs => b \in Blobs,
         l \in HoldPcs <=> c # NULL
  PROVE  KernelInv'
<1>1. FHTypeOK'
  BY DEF FHInv, KernelInv, FHTypeOK, kernelVars, Pcs, Listing
<1>2. /\ pc'[t] = l /\ hdl'[t] = g /\ blob'[t] = b /\ file'[t] = c
      /\ \A u \in Threads \ {t} : /\ pc'[u] = pc[u] /\ hdl'[u] = hdl[u]
                                 /\ blob'[u] = blob[u] /\ file'[u] = file[u]
  BY DEF FHInv, KernelInv, FHTypeOK
<1>3. LocalsInv'
  BY <1>2 DEF FHInv, KernelInv, LocalsInv, kernelVars
<1>4. OneOpener'
  <2> SUFFICES ASSUME NEW v \in Threads, NEW w \in Threads,
                      pc'[v] \in OpenPcs, hdl'[v] = hdl'[w], v # w
               PROVE  FALSE
    BY DEF OneOpener
  <2>1. hdl'[v] \in Handles /\ hstate[hdl'[v]] = "opening"
    BY <1>3 DEF LocalsInv, kernelVars
  <2>2. pc'[w] \notin ReadPcs /\ pc'[w] # "idle"
    BY <1>3, <2>1, FileHandlesAssumption DEF LocalsInv, kernelVars
  <2>3. pc'[w] \in OpenPcs
    BY <1>1, <2>2 DEF FHTypeOK
  <2>4. pc[v] \in OpenPcs /\ hdl[v] = hdl[w]
    BY <1>2, <2>3
  <2> QED
    BY <2>4 DEF FHInv, KernelInv, OneOpener
<1>5. HandlesApart'
  BY DEF FHInv, KernelInv, HandlesApart, kernelVars
<1> QED
  BY <1>1, <1>3, <1>4, <1>5 DEF KernelInv

\* Such a step that leaves the contexts alone keeps the whole invariant when
\* the moving thread's guarantees hold at l.
LEMMA HandlerStep ==
  ASSUME FHInv, NEW t \in Threads,
         UNCHANGED <<ofmVars, kernelVars>>,
         NEW l, NEW g, NEW b, NEW c,
         pc' = [pc EXCEPT ![t] = l],
         hdl' = [hdl EXCEPT ![t] = g],
         blob' = [blob EXCEPT ![t] = b],
         file' = [file EXCEPT ![t] = c],
         TypeOK' => KernelInv',
         PointerOK(t)'
  PROVE  FHInv'
<1>1. ListInv' /\ Listed' = Listed
  BY SameList DEF FHInv
<1>2. \A u \in Threads \ {t} : /\ pc'[u] = pc[u] /\ hdl'[u] = hdl[u]
                             /\ blob'[u] = blob[u] /\ file'[u] = file[u]
  BY DEF FHInv, KernelInv, FHTypeOK
<1>3. ContentInv'
  BY <1>1 DEF FHInv, ContentInv, ofmVars
<1>4. ASSUME NEW u \in Threads \ {t} PROVE PointerOK(u)'
  BY <1>1, <1>2, OtherThread DEF ofmVars, kernelVars
<1> QED
  BY <1>1, <1>3, <1>4 DEF FHInv, ListInv

\* What a thread's resolution of its path leaves behind.
LEMMA ResolveResult ==
  ASSUME FHInv, NEW t \in Threads, NEW b, Resolve(t, b), hdl[t] \in Handles,
         hstate[hdl[t]] # "closed", UNCHANGED remote
  PROVE  /\ remote' \in Listing
         /\ cache' \in [Threads -> Listing \cup {NULL}]
BY DEF FHInv, KernelInv, FHTypeOK, Resolve, Folder!Fetch, Listing

-----------------------------------------------------------------------------
(* read                                                                    *)

\* read_callback() starts: a handler leaves idle, no context is touched.
LEMMA ReadInv ==
  ASSUME FHInv, NEW t \in Threads, NEW h \in Handles, Read(t, h)
  PROVE  FHInv'
<1>1. /\ pc' = [pc EXCEPT ![t] = "read_resolve"]
      /\ hdl' = [hdl EXCEPT ![t] = h]
      /\ blob' = [blob EXCEPT ![t] = blob[t]]
      /\ file' = [file EXCEPT ![t] = NULL]
  BY DEF Read, Goto, FHInv, KernelInv, FHTypeOK, LocalsInv, HoldPcs
<1>2. blob[t] \in Blobs \cup {NULL} /\ "read_resolve" \in Pcs
  BY DEF FHInv, KernelInv, FHTypeOK, Pcs, ReadPcs
<1>3. PointerOK(t)'
  BY <1>1 DEF PointerOK, HoldPcs, FHInv, KernelInv, FHTypeOK
<1>4. remote' \in Listing /\ cache' \in [Threads -> Listing \cup {NULL}]
  BY DEF Read, FHInv, KernelInv, FHTypeOK, Listing
<1>5. hstate[h] = "open" /\ UNCHANGED <<ofmVars, kernelVars>>
  BY DEF Read
<1>6. "read_resolve" \notin OpenPcs \cup BlobPcs \cup HoldPcs \cup {"idle"}
  BY DEF OpenPcs, BlobPcs, HoldPcs
<1> QED
  BY <1>1, <1>2, <1>3, <1>4, <1>5, <1>6, KernelMove, HandlerStep

\* A handler that returns without having touched anything.
LEMMA LeaveInv ==
  ASSUME FHInv, NEW t \in Threads, Leave(t), UNCHANGED <<ofmVars, kernelVars>>,
         remote' \in Listing, cache' \in [Threads -> Listing \cup {NULL}]
  PROVE  FHInv'
<1>1. PointerOK(t)'
  BY DEF Leave, Goto, PointerOK, HoldPcs, FHInv, KernelInv, FHTypeOK
<1>2. "idle" \in Pcs /\ "idle" \notin OpenPcs \cup ReadPcs \cup BlobPcs \cup HoldPcs
  BY DEF Pcs, OpenPcs, ReadPcs, BlobPcs, HoldPcs
<1> QED
  BY <1>1, <1>2, KernelMove, HandlerStep DEF Leave, Goto

\* A step of a running read to its next step l, with the blob b and the
\* context c.
LEMMA ReadMoves ==
  ASSUME FHInv, NEW t \in Threads, pc[t] \in ReadPcs,
         UNCHANGED <<ofmVars, kernelVars, hdl>>,
         remote' \in Listing, cache' \in [Threads -> Listing \cup {NULL}],
         NEW l \in ReadPcs \ {"read_resolve"}, NEW b \in Blobs,
         NEW c \in Ctxs \cup {NULL},
         pc' = [pc EXCEPT ![t] = l],
         blob' = [blob EXCEPT ![t] = b],
         file' = [file EXCEPT ![t] = c],
         l \in {"read_lookup", "read_register"} => c = NULL,
         l \in {"read_compare", "read_copy"} => c # NULL,
         l \in {"read_compare", "read_copy"} /\ TPath(t) \in Alone =>
           c \in Listed /\ Matches(TPath(t), openedPath[c]),
         l = "read_copy" /\ TPath(t) \in Alone => b = blobID[c]
  PROVE  FHInv'
<1>1. hdl' = [hdl EXCEPT ![t] = hdl[t]] /\ hdl[t] \in Handles
      /\ hstate[hdl[t]] = "open"
  BY DEF FHInv, KernelInv, FHTypeOK, LocalsInv
<1>2. TPath(t)' = TPath(t)
  BY DEF TPath, kernelVars
<1>3. pc'[t] = l /\ blob'[t] = b /\ file'[t] = c
  BY DEF FHInv, KernelInv, FHTypeOK
<1>4. Listed' = Listed /\ openedPath' = openedPath /\ blobID' = blobID
  BY DEF ofmVars, Listed
<1>5. PointerOK(t)'
  BY <1>2, <1>3, <1>4 DEF PointerOK, HoldPcs, ReadPcs
<1>6. l \in Pcs /\ l \notin OpenPcs \cup {"idle"} /\ (l \in HoldPcs <=> c # NULL)
  BY DEF Pcs, OpenPcs, ReadPcs, HoldPcs
<1> QED
  BY <1>1, <1>5, <1>6, KernelMove, HandlerStep

\* readFile()'s path resolution keeps it: the blob it takes is the listing's.
LEMMA ReadResolveInv ==
  ASSUME FHInv, NEW t \in Threads, ReadResolve(t)
  PROVE  FHInv'
<1>1. /\ pc[t] \in ReadPcs
      /\ hdl[t] \in Handles /\ hstate[hdl[t]] # "closed"
      /\ file' = [file EXCEPT ![t] = NULL]
      /\ UNCHANGED <<ofmVars, kernelVars, remote>>
  BY DEF ReadResolve, Leave, FHInv, KernelInv, FHTypeOK, LocalsInv, ReadPcs,
         HoldPcs
<1>2. PICK b \in Blobs \cup {NULL} :
        /\ Resolve(t, b)
        /\ \/ b = NULL /\ Leave(t)
           \/ /\ b # NULL
              /\ blob' = [blob EXCEPT ![t] = b]
              /\ Goto(t, "read_lookup")
              /\ UNCHANGED <<hdl, file>>
  BY DEF ReadResolve
<1>3. remote' \in Listing /\ cache' \in [Threads -> Listing \cup {NULL}]
  BY <1>1, <1>2, ResolveResult
<1>4. CASE Leave(t)
  BY <1>1, <1>3, <1>4, LeaveInv
<1>5. CASE b # NULL /\ blob' = [blob EXCEPT ![t] = b] /\ Goto(t, "read_lookup")
           /\ UNCHANGED hdl
  <2>1. "read_lookup" \in ReadPcs \ {"read_resolve"}
    BY DEF ReadPcs
  <2> QED
    BY <1>1, <1>3, <1>5, <2>1, ReadMoves DEF Goto
<1> QED
  BY <1>2, <1>4, <1>5

\* readFile()'s getFileContext() keeps it: a context it finds answers its path.
LEMMA ReadLookupInv ==
  ASSUME FHInv, NEW t \in Threads, ReadLookup(t)
  PROVE  FHInv'
<1>1. PICK c \in Ctxs \cup {NULL} :
        /\ getFileContext(TPath(t), c)
        /\ file' = [file EXCEPT ![t] = c]
        /\ Goto(t, IF c = NULL THEN "read_register" ELSE "read_compare")
  BY DEF ReadLookup
<1>2. \/ c = NULL
      \/ c \in Listed /\ c # NULL /\ Matches(TPath(t), openedPath[c])
  BY <1>1, GetFileContextResult DEF FHInv
<1>3. /\ pc[t] \in ReadPcs
      /\ UNCHANGED <<ofmVars, kernelVars, hdl>>
      /\ blob[t] \in Blobs
      /\ blob' = [blob EXCEPT ![t] = blob[t]]
      /\ remote' \in Listing
      /\ cache' \in [Threads -> Listing \cup {NULL}]
  BY DEF ReadLookup, FHInv, KernelInv, FHTypeOK, LocalsInv, ReadPcs, BlobPcs,
         Listing
<1>4. {"read_register", "read_compare"} \subseteq ReadPcs \ {"read_resolve"}
  BY DEF ReadPcs
<1>5. CASE c = NULL
  BY <1>1, <1>3, <1>4, <1>5, ReadMoves DEF Goto
<1>6. CASE c # NULL
  BY <1>1, <1>2, <1>3, <1>4, <1>6, ReadMoves DEF Goto
<1> QED
  BY <1>5, <1>6

\* readFile()'s blob comparison keeps it: only the listed blob goes on to the copy.
LEMMA ReadCompareInv ==
  ASSUME FHInv, NEW t \in Threads, ReadCompare(t)
  PROVE  FHInv'
<1>1. /\ pc[t] \in ReadPcs
      /\ file[t] # NULL /\ file[t] \in Ctxs
      /\ TPath(t) \in Alone =>
           file[t] \in Listed /\ Matches(TPath(t), openedPath[file[t]])
      /\ blob[t] \in Blobs
      /\ UNCHANGED <<ofmVars, kernelVars>>
      /\ remote' \in Listing
      /\ cache' \in [Threads -> Listing \cup {NULL}]
  BY DEF ReadCompare, FHInv, KernelInv, FHTypeOK, LocalsInv, ReadPcs, HoldPcs,
         BlobPcs, PointerOK, Listing
<1>2. CASE Leave(t)
  BY <1>1, <1>2, LeaveInv
<1>3. CASE /\ file[t] \in Listed => blobID[file[t]] = blob[t]
           /\ Goto(t, "read_copy")
           /\ UNCHANGED <<hdl, blob, file>>
  <2>1. blob' = [blob EXCEPT ![t] = blob[t]] /\ file' = [file EXCEPT ![t] = file[t]]
    BY <1>3 DEF FHInv, KernelInv, FHTypeOK
  <2>2. "read_copy" \in ReadPcs \ {"read_resolve"}
    BY DEF ReadPcs
  <2> QED
    <3>1. /\ TPath(t) \in Alone => blob[t] = blobID[file[t]]
          /\ UNCHANGED <<ofmVars, kernelVars, hdl>>
          /\ pc' = [pc EXCEPT ![t] = "read_copy"]
      BY <1>1, <1>3 DEF Goto
    <3> QED
      BY <1>1, <2>1, <2>2, <3>1, ReadMoves
<1> QED
  BY <1>1, <1>2, <1>3 DEF ReadCompare

\* The copy of the content keeps it, and the copied content is the listing's blob.
LEMMA ReadCopyInv ==
  ASSUME FHInv, NEW t \in Threads, ReadCopy(t)
  PROVE  FHInv'
<1>1. remote' \in Listing /\ cache' \in [Threads -> Listing \cup {NULL}]
  BY DEF ReadCopy, FHInv, KernelInv, FHTypeOK, Listing
<1> QED
  BY <1>1, LeaveInv DEF ReadCopy

\* Registering a path disturbs no other handler.
LEMMA RegisterList ==
  ASSUME FHInv, NEW t \in Threads, pc[t] \in {"open_register", "read_register"},
         NEW c, openFile(TPath(t), blob[t], c),
         \A u \in Threads \ {t} : /\ pc'[u] = pc[u] /\ hdl'[u] = hdl[u]
                                /\ blob'[u] = blob[u] /\ file'[u] = file[u],
         UNCHANGED hpath
  PROVE  ListInv' /\ ContentInv' /\ \A u \in Threads \ {t} : PointerOK(u)'
<1>1. /\ hdl[t] \in Handles /\ hstate[hdl[t]] # "closed"
      /\ TPath(t) \in Paths /\ blob[t] \in Blobs
  BY DEF FHInv, KernelInv, LocalsInv, HandlesApart, TPath, OpenPcs, ReadPcs,
         BlobPcs
<1>2. ListInv'
  BY <1>1, OpenFileInv DEF FHInv
<1>3. /\ \A d \in Listed : /\ d \in Listed'
                           /\ openedPath'[d] = openedPath[d]
                           /\ blobID'[d] = blobID[d]
                           /\ memory'[d] = memory[d]
      /\ \A d \in Listed' \ Listed : openedPath'[d] = TPath(t) /\ memory'[d] = NULL
  BY <1>1, OpenFileFrame DEF FHInv
<1>4. ContentInv'
  BY <1>3 DEF FHInv, ContentInv
<1>5. ASSUME NEW u \in Threads \ {t}, pc[u] = "open_register", TPath(u) \in Alone
      PROVE  ~Matches(TPath(u), TPath(t))
  <2>1. pc[u] \in OpenPcs
    BY <1>5 DEF OpenPcs
  <2>2. hdl[u] # hdl[t] /\ hdl[u] \in Handles /\ hstate[hdl[u]] # "closed"
    BY <2>1 DEF FHInv, KernelInv, OneOpener, LocalsInv
  <2> QED
    BY <1>1, <1>5, <2>2 DEF FHInv, KernelInv, HandlesApart, TPath, Overlap
<1>6. ASSUME NEW u \in Threads \ {t} PROVE PointerOK(u)'
  BY <1>3, <1>5, OtherThread
<1> QED
  BY <1>2, <1>4, <1>6

\* readFile()'s own openFile() keeps it: the context it gets answers its path.
LEMMA ReadRegisterInv ==
  ASSUME FHInv, NEW t \in Threads, ReadRegister(t)
  PROVE  FHInv'
<1>1. PICK c \in Ctxs \cup {NULL} :
        /\ openFile(TPath(t), blob[t], c)
        /\ \/ c = NULL /\ Leave(t)
           \/ /\ c # NULL
              /\ file' = [file EXCEPT ![t] = c]
              /\ Goto(t, "read_compare")
              /\ UNCHANGED <<hdl, blob>>
  BY DEF ReadRegister
<1>2. /\ pc[t] = "read_register"
      /\ UNCHANGED <<kernelVars, remote, cache>>
      /\ UNCHANGED hpath
      /\ remote' \in Listing
      /\ cache' \in [Threads -> Listing \cup {NULL}]
      /\ hdl[t] \in Handles /\ hstate[hdl[t]] = "open" /\ hpath[hdl[t]] \in Paths
      /\ blob[t] \in Blobs
  BY DEF ReadRegister, kernelVars, FHInv, KernelInv, FHTypeOK, Listing, LocalsInv,
         HandlesApart, ReadPcs, BlobPcs
<1>3. \A u \in Threads \ {t} : /\ pc'[u] = pc[u] /\ hdl'[u] = hdl[u]
                             /\ blob'[u] = blob[u] /\ file'[u] = file[u]
  BY <1>1 DEF Leave, Goto, FHInv, KernelInv, FHTypeOK
<1>4. ListInv' /\ ContentInv' /\ \A u \in Threads \ {t} : PointerOK(u)'
  BY <1>1, <1>2, <1>3, RegisterList
<1>5. TypeOK'
  BY <1>4 DEF ListInv
<1>6. KernelInv'
  <2>1. CASE Leave(t)
    <3>1. "idle" \in Pcs /\ "idle" \notin OpenPcs \cup ReadPcs \cup BlobPcs \cup HoldPcs
      BY DEF Pcs, OpenPcs, ReadPcs, BlobPcs, HoldPcs
    <3> QED
      BY <1>2, <1>5, <2>1, <3>1, KernelMove DEF Leave, Goto
  <2>2. CASE /\ c # NULL
             /\ file' = [file EXCEPT ![t] = c]
             /\ Goto(t, "read_compare")
             /\ UNCHANGED <<hdl, blob>>
    <3>1. "read_compare" \in Pcs /\ "read_compare" \notin OpenPcs
      BY DEF Pcs, OpenPcs, ReadPcs
    <3>2. /\ hdl' = [hdl EXCEPT ![t] = hdl[t]]
          /\ blob' = [blob EXCEPT ![t] = blob[t]]
          /\ pc' = [pc EXCEPT ![t] = "read_compare"]
      BY <2>2 DEF Goto, FHInv, KernelInv, FHTypeOK
    <3>3. "read_compare" \in HoldPcs /\ "read_compare" # "idle"
      BY DEF HoldPcs
    <3> QED
      BY <1>2, <1>5, <2>2, <3>1, <3>2, <3>3, KernelMove
  <2> QED
    BY <1>1, <2>1, <2>2
<1>7. PointerOK(t)'
  <2>1. CASE Leave(t)
    BY <2>1 DEF Leave, Goto, PointerOK, HoldPcs, FHInv, KernelInv, FHTypeOK
  <2>2. CASE /\ c # NULL
             /\ file' = [file EXCEPT ![t] = c]
             /\ Goto(t, "read_compare")
             /\ UNCHANGED <<hdl, blob>>
    <3>1. file'[t] = c /\ pc'[t] = "read_compare" /\ TPath(t)' = TPath(t)
      BY <1>2, <2>2 DEF Goto, TPath, FHInv, KernelInv, FHTypeOK
    <3>2. c \in Listed' /\ Matches(TPath(t), openedPath'[c])
      BY <1>1, <1>2, <2>2, OpenFileFrame DEF FHInv, TPath
    <3> QED
      BY <3>1, <3>2 DEF PointerOK
  <2> QED
    BY <1>1, <2>1, <2>2
<1> QED
  BY <1>4, <1>6, <1>7 DEF FHInv

-----------------------------------------------------------------------------
(* open                                                                    *)

\* open_callback() starts: the handle is entered, no context is touched.
LEMMA OpenInv ==
  ASSUME FHInv, NEW t \in Threads, NEW h \in Handles, NEW p \in Paths, Open(t, h, p)
  PROVE  FHInv'
<1>1. /\ pc' = [pc EXCEPT ![t] = "open_resolve"]
      /\ hdl' = [hdl EXCEPT ![t] = h]
      /\ hstate' = [hstate EXCEPT ![h] = "opening"]
      /\ hpath' = [hpath EXCEPT ![h] = p]
      /\ hstate[h] = "closed"
      /\ pc[t] = "idle"
      /\ UNCHANGED <<ofmVars, mount, opened, remote, cache, blob, file>>
  BY DEF Open, Goto
<1>2. ListInv' /\ Listed' = Listed
  BY <1>1, SameList DEF FHInv
<1>3. FHTypeOK'
  BY <1>1, <1>2 DEF FHInv, KernelInv, FHTypeOK, ListInv, OpenPcs
<1>4. /\ pc'[t] = "open_resolve" /\ hdl'[t] = h
      /\ hstate'[h] = "opening" /\ hpath'[h] = p
      /\ \A u \in Threads \ {t} : pc'[u] = pc[u] /\ hdl'[u] = hdl[u]
      /\ \A g \in Handles \ {h} : hstate'[g] = hstate[g] /\ hpath'[g] = hpath[g]
  BY <1>1 DEF FHInv, KernelInv, FHTypeOK
<1>5. \A u \in Threads : hdl[u] # h
  <2>1. \A u \in Threads : pc[u] \in Pcs
    BY DEF FHInv, KernelInv, FHTypeOK, Pcs
  <2> QED
    BY <1>1, <2>1, FileHandlesAssumption DEF FHInv, KernelInv, LocalsInv, Pcs
<1>6. LocalsInv'
  <2>1. /\ "open_resolve" \in OpenPcs
        /\ "open_resolve" \notin ReadPcs \cup BlobPcs \cup HoldPcs \cup {"idle"}
        /\ "idle" \notin HoldPcs
    BY DEF OpenPcs, ReadPcs, BlobPcs, HoldPcs
  <2>2. ASSUME NEW u \in Threads \ {t}
        PROVE  /\ pc'[u] = "idle" => hdl'[u] = NULL
               /\ pc'[u] \in OpenPcs => hdl'[u] \in Handles /\ hstate'[hdl'[u]] = "opening"
               /\ pc'[u] \in ReadPcs => hdl'[u] \in Handles /\ hstate'[hdl'[u]] = "open"
    BY <1>4, <1>5 DEF FHInv, KernelInv, LocalsInv
  <2>3. ASSUME NEW u \in Threads \ {t}
        PROVE  /\ pc'[u] \in BlobPcs => blob'[u] \in Blobs
               /\ pc'[u] \in HoldPcs <=> file'[u] # NULL
    BY <1>1, <1>4 DEF FHInv, KernelInv, LocalsInv
  <2>4. file'[t] = NULL
    BY <1>1, <2>1 DEF FHInv, KernelInv, LocalsInv
  <2> QED
    BY <1>4, <2>1, <2>2, <2>3, <2>4 DEF LocalsInv
<1>7. OneOpener'
  BY <1>4, <1>5 DEF FHInv, KernelInv, OneOpener
<1>8. HandlesApart'
  <2>1. ASSUME NEW g \in Handles, hstate[g] # "closed", p \in Alone
        PROVE  ~Overlap(p, hpath[g])
    BY <2>1 DEF Open, MayOpen, Blocks
  <2>2. ASSUME NEW g \in Handles, hstate[g] # "closed", hpath[g] \in Alone
        PROVE  ~Overlap(hpath[g], p)
    <3>1. CASE p \in Alone
      BY <2>1, <2>2, <3>1 DEF Overlap
    <3>2. CASE p \notin Alone
      BY <2>2, <3>2, FileHandlesAssumption
    <3> QED
      BY <3>1, <3>2
  <2> QED
    BY <1>1, <1>4, <2>1, <2>2 DEF FHInv, KernelInv, HandlesApart
<1>9. ContentInv'
  BY <1>1, <1>2 DEF FHInv, ContentInv, ofmVars
<1>10. PointerOK(t)'
  BY <1>4 DEF PointerOK, HoldPcs
<1>11. ASSUME NEW u \in Threads \ {t} PROVE PointerOK(u)'
  <2>1. pc[u] # "idle" => hpath'[hdl[u]] = hpath[hdl[u]]
    <3>1. pc[u] # "idle" => hdl[u] \in Handles
      BY DEF FHInv, KernelInv, LocalsInv, FHTypeOK
    <3> QED
      BY <1>4, <1>5, <3>1
  <2> QED
    BY <1>1, <1>2, <1>4, <2>1, OtherThread DEF ofmVars
<1> QED
  BY <1>2, <1>3, <1>6, <1>7, <1>8, <1>9, <1>10, <1>11 DEF FHInv, KernelInv

\* The opening handler returns, whatever its result.
LEMMA ReturnOpenInv ==
  ASSUME FHInv, NEW t \in Threads, pc[t] \in OpenPcs, NEW ok \in BOOLEAN,
         ReturnOpen(t, ok), UNCHANGED remote,
         cache' \in [Threads -> Listing \cup {NULL}],
         ListInv', ContentInv', \A u \in Threads \ {t} : PointerOK(u)'
  PROVE  FHInv'
<1> DEFINE h == hdl[t]
<1>1. h \in Handles /\ hstate[h] = "opening"
  BY DEF FHInv, KernelInv, LocalsInv
<1>2. /\ pc' = [pc EXCEPT ![t] = "idle"]
      /\ hdl' = [hdl EXCEPT ![t] = NULL]
      /\ blob' = [blob EXCEPT ![t] = NULL]
      /\ file' = [file EXCEPT ![t] = NULL]
      /\ hstate' = [hstate EXCEPT ![h] = "open"]
      /\ opened' = [opened EXCEPT ![h] = ok]
      /\ UNCHANGED <<mount, hpath>>
  BY DEF ReturnOpen, Leave, Goto
<1>3. FHTypeOK'
  BY <1>1, <1>2 DEF FHInv, KernelInv, FHTypeOK, ListInv, Listing
<1>4. /\ pc'[t] = "idle" /\ hdl'[t] = NULL /\ file'[t] = NULL
      /\ \A u \in Threads \ {t} : /\ pc'[u] = pc[u] /\ hdl'[u] = hdl[u]
                                 /\ blob'[u] = blob[u] /\ file'[u] = file[u]
      /\ \A g \in Handles \ {h} : hstate'[g] = hstate[g]
  BY <1>2 DEF FHInv, KernelInv, FHTypeOK
<1>5. \A u \in Threads \ {t} : hdl[u] # h
  BY DEF FHInv, KernelInv, OneOpener
<1>6. LocalsInv'
  <2>1. "idle" \notin OpenPcs \cup ReadPcs \cup BlobPcs \cup HoldPcs
    BY DEF OpenPcs, ReadPcs, BlobPcs, HoldPcs
  <2>2. ASSUME NEW u \in Threads \ {t}
        PROVE  /\ pc'[u] = "idle" => hdl'[u] = NULL
               /\ pc'[u] \in OpenPcs => hdl'[u] \in Handles /\ hstate'[hdl'[u]] = "opening"
               /\ pc'[u] \in ReadPcs => hdl'[u] \in Handles /\ hstate'[hdl'[u]] = "open"
               /\ pc'[u] \in BlobPcs => blob'[u] \in Blobs
               /\ pc'[u] \in HoldPcs <=> file'[u] # NULL
    BY <1>4, <1>5 DEF FHInv, KernelInv, LocalsInv
  <2> QED
    BY <1>4, <2>1, <2>2 DEF LocalsInv
<1>7. OneOpener'
  <2>1. "idle" \notin OpenPcs
    BY DEF OpenPcs
  <2>2. ASSUME NEW u \in Threads \ {t}, pc[u] \in OpenPcs PROVE hdl[u] # NULL
    BY <2>2, FileHandlesAssumption DEF FHInv, KernelInv, LocalsInv
  <2> QED
    BY <1>4, <2>1, <2>2 DEF FHInv, KernelInv, OneOpener
<1>8. HandlesApart'
  BY <1>1, <1>2, <1>4 DEF FHInv, KernelInv, HandlesApart
<1>9. PointerOK(t)'
  BY <1>4 DEF PointerOK, HoldPcs
<1> QED
  BY <1>3, <1>6, <1>7, <1>8, <1>9 DEF FHInv, KernelInv

\* A step of a running open to its next step l, with the blob b.
LEMMA OpenMoves ==
  ASSUME FHInv, NEW t \in Threads, pc[t] \in OpenPcs,
         UNCHANGED <<ofmVars, kernelVars, hdl, file>>,
         remote' \in Listing, cache' \in [Threads -> Listing \cup {NULL}],
         NEW l \in OpenPcs \ {"open_resolve"}, NEW b \in Blobs,
         pc' = [pc EXCEPT ![t] = l],
         blob' = [blob EXCEPT ![t] = b],
         l \in HoldPcs <=> pc[t] \in HoldPcs,
         l = "open_register" => Unregistered(t),
         l \in {"open_request", "open_store"} =>
           pc[t] \in {"open_request", "open_store"},
         l = "open_store" /\ TPath(t) \in Alone => b = blobID[file[t]]
  PROVE  FHInv'
<1>1. /\ hdl' = [hdl EXCEPT ![t] = hdl[t]] /\ hdl[t] \in Handles
      /\ file' = [file EXCEPT ![t] = file[t]] /\ file[t] \in Ctxs \cup {NULL}
      /\ pc[t] \in HoldPcs <=> file[t] # NULL
  BY DEF FHInv, KernelInv, FHTypeOK, LocalsInv
<1>2. TPath(t)' = TPath(t)
  BY DEF TPath, kernelVars
<1>3. pc'[t] = l /\ blob'[t] = b /\ file'[t] = file[t]
  BY DEF FHInv, KernelInv, FHTypeOK
<1>4. /\ Listed' = Listed /\ openedPath' = openedPath /\ blobID' = blobID
      /\ memory' = memory
  BY DEF ofmVars, Listed
<1>5. PointerOK(t)'
  <2>1. PointerOK(t)
    BY DEF FHInv
  <2>2. l # "read_copy"
    BY DEF OpenPcs
  <2> QED
    BY <1>2, <1>3, <1>4, <2>1, <2>2 DEF PointerOK, Unregistered
<1>6. l \in Pcs /\ l \notin ReadPcs \cup {"idle"}
  BY DEF Pcs, OpenPcs, ReadPcs
<1> QED
  BY <1>1, <1>5, <1>6, KernelMove, HandlerStep

\* An opening that returns without having touched the contexts.
LEMMA QuietReturnInv ==
  ASSUME FHInv, NEW t \in Threads, pc[t] \in OpenPcs, NEW ok \in BOOLEAN,
         ReturnOpen(t, ok), UNCHANGED <<ofmVars, remote>>,
         cache' \in [Threads -> Listing \cup {NULL}]
  PROVE  FHInv'
<1>1. ListInv' /\ Listed' = Listed
  BY SameList DEF FHInv
<1>2. ContentInv'
  BY <1>1 DEF FHInv, ContentInv, ofmVars
<1>3. ASSUME NEW u \in Threads \ {t} PROVE PointerOK(u)'
  <2>1. /\ pc'[u] = pc[u] /\ hdl'[u] = hdl[u]
        /\ blob'[u] = blob[u] /\ file'[u] = file[u]
        /\ hpath' = hpath
    BY DEF ReturnOpen, Leave, Goto, FHInv, KernelInv, FHTypeOK
  <2> QED
    BY <1>1, <2>1, OtherThread DEF ofmVars
<1> QED
  BY <1>1, <1>2, <1>3, ReturnOpenInv

\* openFile()'s path resolution keeps it.
LEMMA OpenResolveInv ==
  ASSUME FHInv, NEW t \in Threads, OpenResolve(t)
  PROVE  FHInv'
<1>1. /\ pc[t] = "open_resolve" /\ pc[t] \in OpenPcs /\ pc[t] \notin HoldPcs
      /\ hdl[t] \in Handles /\ hstate[hdl[t]] # "closed"
      /\ UNCHANGED <<ofmVars, remote>>
  BY DEF OpenResolve, FHInv, KernelInv, LocalsInv, OpenPcs, HoldPcs
<1>2. PICK b \in Blobs \cup {NULL} :
        /\ Resolve(t, b)
        /\ \/ b = NULL /\ ReturnOpen(t, FALSE)
           \/ /\ b # NULL
              /\ blob' = [blob EXCEPT ![t] = b]
              /\ Goto(t, "open_check")
              /\ UNCHANGED <<kernelVars, hdl, file>>
  BY DEF OpenResolve
<1>3. remote' \in Listing /\ cache' \in [Threads -> Listing \cup {NULL}]
  BY <1>1, <1>2, ResolveResult
<1>4. CASE ReturnOpen(t, FALSE)
  BY <1>1, <1>3, <1>4, QuietReturnInv
<1>5. CASE /\ b # NULL
           /\ blob' = [blob EXCEPT ![t] = b]
           /\ Goto(t, "open_check")
           /\ UNCHANGED <<kernelVars, hdl, file>>
  <2>1. "open_check" \in OpenPcs \ {"open_resolve"} /\ "open_check" \notin HoldPcs
    BY DEF OpenPcs, HoldPcs
  <2>2. UNCHANGED <<ofmVars, kernelVars, hdl, file>>
    BY <1>1, <1>5
  <2> QED
    BY <1>1, <1>3, <1>5, <2>1, <2>2, OpenMoves DEF Goto
<1> QED
  BY <1>2, <1>4, <1>5

\* openFile()'s check for a context keeps it: without one the path is unregistered.
LEMMA OpenCheckInv ==
  ASSUME FHInv, NEW t \in Threads, OpenCheck(t)
  PROVE  FHInv'
<1>1. /\ pc[t] = "open_check" /\ pc[t] \in OpenPcs /\ pc[t] \notin HoldPcs
      /\ blob[t] \in Blobs
      /\ UNCHANGED <<ofmVars, remote, cache>>
      /\ remote' \in Listing
      /\ cache' \in [Threads -> Listing \cup {NULL}]
  BY DEF OpenCheck, FHInv, KernelInv, FHTypeOK, LocalsInv, OpenPcs, HoldPcs,
         BlobPcs, Listing
<1>2. PICK c \in Ctxs \cup {NULL} :
        /\ getFileContext(TPath(t), c)
        /\ \/ c # NULL /\ ReturnOpen(t, TRUE)
           \/ /\ c = NULL
              /\ Goto(t, "open_register")
              /\ UNCHANGED <<kernelVars, hdl, blob, file>>
  BY DEF OpenCheck
<1>3. CASE ReturnOpen(t, TRUE)
  BY <1>1, <1>3, QuietReturnInv
<1>4. CASE /\ c = NULL
           /\ Goto(t, "open_register")
           /\ UNCHANGED <<kernelVars, hdl, blob, file>>
  <2>1. Unregistered(t)
    BY <1>2, <1>4, GetFileContextResult DEF Unregistered, FHInv
  <2>2. /\ "open_register" \in OpenPcs \ {"open_resolve"}
        /\ "open_register" \notin HoldPcs
    BY DEF OpenPcs, HoldPcs
  <2>3. /\ UNCHANGED <<ofmVars, kernelVars, hdl, file>>
        /\ blob' = [blob EXCEPT ![t] = blob[t]]
        /\ pc' = [pc EXCEPT ![t] = "open_register"]
    BY <1>1, <1>4 DEF Goto, FHInv, KernelInv, FHTypeOK
  <2> QED
    BY <1>1, <2>1, <2>2, <2>3, OpenMoves
<1> QED
  BY <1>2, <1>3, <1>4

\* openFile()'s registration keeps it: the new context has no content yet.
LEMMA OpenRegisterInv ==
  ASSUME FHInv, NEW t \in Threads, OpenRegister(t)
  PROVE  FHInv'
<1>1. PICK c \in Ctxs \cup {NULL} :
        /\ openFile(TPath(t), blob[t], c)
        /\ \/ c = NULL /\ ReturnOpen(t, FALSE)
           \/ /\ c # NULL
              /\ file' = [file EXCEPT ![t] = c]
              /\ Goto(t, "open_request")
              /\ UNCHANGED <<kernelVars, hdl, blob>>
  BY DEF OpenRegister
<1>2. /\ pc[t] = "open_register" /\ pc[t] \in OpenPcs
      /\ UNCHANGED <<remote, cache>>
      /\ remote' \in Listing
      /\ cache' \in [Threads -> Listing \cup {NULL}]
      /\ hdl[t] \in Handles /\ hpath[hdl[t]] \in Paths
      /\ blob[t] \in Blobs
      /\ TPath(t) \in Alone => Unregistered(t)
  BY DEF OpenRegister, FHInv, KernelInv, FHTypeOK, Listing, LocalsInv,
         HandlesApart, OpenPcs, BlobPcs, PointerOK
<1>3. hpath' = hpath
  BY <1>1 DEF ReturnOpen, kernelVars
<1>4. \A u \in Threads \ {t} : /\ pc'[u] = pc[u] /\ hdl'[u] = hdl[u]
                             /\ blob'[u] = blob[u] /\ file'[u] = file[u]
  BY <1>1 DEF ReturnOpen, Leave, Goto, FHInv, KernelInv, FHTypeOK
<1>5. ListInv' /\ ContentInv' /\ \A u \in Threads \ {t} : PointerOK(u)'
  BY <1>1, <1>2, <1>3, <1>4, RegisterList
<1>6. CASE ReturnOpen(t, FALSE)
  BY <1>2, <1>5, <1>6, ReturnOpenInv
<1>7. CASE /\ c # NULL
           /\ file' = [file EXCEPT ![t] = c]
           /\ Goto(t, "open_request")
           /\ UNCHANGED <<kernelVars, hdl, blob>>
  <2>1. KernelInv'
    <3>1. /\ "open_request" \in Pcs /\ "open_request" \notin ReadPcs \cup {"idle"}
          /\ "open_request" \in HoldPcs
      BY DEF Pcs, OpenPcs, ReadPcs, HoldPcs
    <3>2. /\ hdl' = [hdl EXCEPT ![t] = hdl[t]]
          /\ blob' = [blob EXCEPT ![t] = blob[t]]
          /\ pc' = [pc EXCEPT ![t] = "open_request"]
      BY <1>7 DEF Goto, FHInv, KernelInv, FHTypeOK
    <3>3. TypeOK'
      BY <1>5 DEF ListInv
    <3> QED
      BY <1>2, <1>7, <3>1, <3>2, <3>3, KernelMove
  <2>2. PointerOK(t)'
    <3>1. file'[t] = c /\ pc'[t] = "open_request" /\ TPath(t)' = TPath(t)
      BY <1>3, <1>7 DEF Goto, TPath, FHInv, KernelInv, FHTypeOK
    <3>2. /\ c \in Listed' /\ Matches(TPath(t), openedPath'[c])
          /\ \A d \in Listed : openedPath'[d] = openedPath[d]
          /\ \A d \in Listed' \ Listed : memory'[d] = NULL
      BY <1>1, <1>2, <1>7, OpenFileFrame DEF FHInv, TPath
    <3>3. TPath(t) \in Alone => memory'[c] = NULL
      BY <1>2, <3>2 DEF Unregistered
    <3> QED
      BY <3>1, <3>2, <3>3 DEF PointerOK
  <2> QED
    BY <1>5, <2>1, <2>2 DEF FHInv
<1> QED
  BY <1>1, <1>6, <1>7

\* The download's request keeps it: the context waits empty for the answer.
LEMMA OpenRequestInv ==
  ASSUME FHInv, NEW t \in Threads, OpenRequest(t)
  PROVE  FHInv'
<1>1. /\ pc[t] = "open_request" /\ pc[t] \in OpenPcs /\ pc[t] \in HoldPcs
      /\ TPath(t) \in Alone => file[t] \in Listed
      /\ file[t] \in Listed => blobID[file[t]] \in Blobs
      /\ UNCHANGED <<ofmVars, kernelVars, hdl, file>>
      /\ remote' \in Listing
      /\ cache' \in [Threads -> Listing \cup {NULL}]
  BY DEF OpenRequest, FHInv, KernelInv, FHTypeOK, LocalsInv, OpenPcs, HoldPcs,
         PointerOK, ListInv, LiveContexts, Listing
<1>2. PICK b \in Blobs : /\ blob' = [blob EXCEPT ![t] = b]
                         /\ TPath(t) \in Alone => b = blobID[file[t]]
                         /\ pc' = [pc EXCEPT ![t] = "open_store"]
  BY <1>1 DEF OpenRequest, Goto
<1>3. "open_store" \in OpenPcs \ {"open_resolve"} /\ "open_store" \in HoldPcs
  BY DEF OpenPcs, HoldPcs
<1> QED
  BY <1>1, <1>2, <1>3, OpenMoves

\* Storing a finished download disturbs no handler of a file of Alone.
LEMMA StoreDownloadInv ==
  ASSUME FHInv, NEW t \in Threads, pc[t] = "open_store",
         NEW content \in {blob[t], ErrorPage}, StoreDownload(t, content),
         NEW ok \in BOOLEAN, ReturnOpen(t, ok), UNCHANGED <<remote, cache>>
  PROVE  FHInv'
<1> DEFINE c == file[t]
<1>1. /\ pc[t] \in OpenPcs
      /\ hdl[t] \in Handles /\ hstate[hdl[t]] # "closed" /\ TPath(t) \in Paths
      /\ blob[t] \in Blobs
      /\ TPath(t) \in Alone =>
           c \in Listed /\ Matches(TPath(t), openedPath[c]) /\ blob[t] = blobID[c]
      /\ cache' \in [Threads -> Listing \cup {NULL}]
  BY DEF FHInv, KernelInv, FHTypeOK, LocalsInv, HandlesApart, TPath, OpenPcs, BlobPcs,
     HoldPcs, PointerOK, Listing
<1>2. CASE c \notin Listed
  BY <1>1, <1>2, QuietReturnInv DEF StoreDownload
<1>3. CASE c \in Listed
  <2>1. c \in Ctxs /\ StoreMemory(c, content)
    BY <1>3, ListedElements DEF StoreDownload, FHInv, ListInv, TypeOK
  <2>2. ListInv'
    BY <1>1, <2>1, StoreMemoryInv DEF FHInv
  <2>3. /\ Listed' = Listed /\ openedPath' = openedPath /\ blobID' = blobID
        /\ memory'[c] = content
        /\ \A d \in Listed \ {c} : memory'[d] = memory[d]
    <3>1. Listed \subseteq Ctxs /\ memory \in [Ctxs -> Blobs \cup {ErrorPage, NULL}]
      BY ListedElements DEF FHInv, ListInv, TypeOK
    <3> QED
      BY <2>1, <3>1 DEF StoreMemory, Listed
  <2>4. ContentInv'
    BY <1>1, <2>3 DEF FHInv, ContentInv
  <2>5. ASSUME NEW u \in Threads \ {t} PROVE PointerOK(u)'
    <3>1. /\ pc'[u] = pc[u] /\ hdl'[u] = hdl[u]
          /\ blob'[u] = blob[u] /\ file'[u] = file[u]
          /\ hpath' = hpath
      BY DEF ReturnOpen, Leave, Goto, FHInv, KernelInv, FHTypeOK
    <3>2. ASSUME Alone = Paths, pc[u] \in {"open_request", "open_store"},
                 Matches(TPath(u), openedPath[c])
          PROVE  FALSE
      <4>1. pc[u] \in OpenPcs
        BY <3>2 DEF OpenPcs
      <4>2. hdl[u] \in Handles /\ hstate[hdl[u]] # "closed"
        BY <4>1 DEF FHInv, KernelInv, LocalsInv
      <4>3. hdl[u] = hdl[t]
        BY <1>1, <1>3, <3>2, <4>2, SameContextSameHandle
      <4> QED
        BY <4>1, <4>3 DEF FHInv, KernelInv, OneOpener
    <3> QED
      BY <2>3, <3>1, <3>2, OtherThread
  <2> QED
    BY <1>1, <2>2, <2>4, <2>5, ReturnOpenInv
<1> QED
  BY <1>2, <1>3

\* A step that changes neither the contexts, nor the handles in use, nor any
\* handler.
LEMMA OutsideStep ==
  ASSUME FHInv, UNCHANGED <<ofmVars, hstate, hpath, opened, localVars>>,
         mount' \in {"up", "crashed", "unmounted"}, remote' \in Listing,
         cache' \in [Threads -> Listing \cup {NULL}]
  PROVE  FHInv'
<1>1. ListInv' /\ Listed' = Listed
  BY SameList DEF FHInv
<1>2. KernelInv'
  BY <1>1 DEF FHInv, KernelInv, FHTypeOK, ListInv, LocalsInv, OneOpener,
              HandlesApart, localVars, Listing
<1>3. ContentInv'
  BY <1>1 DEF FHInv, ContentInv, ofmVars
<1>4. ASSUME NEW u \in Threads PROVE PointerOK(u)'
  BY <1>1, OtherThread DEF ofmVars, localVars
<1> QED
  BY <1>1, <1>2, <1>3, <1>4 DEF FHInv

\* The download's answer keeps it, wherever it is stored.
LEMMA OpenStoreInv ==
  ASSUME FHInv, NEW t \in Threads, OpenStore(t)
  PROVE  FHInv'
<1>1. /\ pc[t] = "open_store" /\ pc[t] \in OpenPcs
      /\ UNCHANGED <<remote, cache>>
      /\ remote' \in Listing
      /\ cache' \in [Threads -> Listing \cup {NULL}]
  BY DEF OpenStore, OpenPcs, FHInv, KernelInv, FHTypeOK, Listing
<1>2. CASE StoreDownload(t, blob[t]) /\ ReturnOpen(t, TRUE)
  BY <1>1, <1>2, StoreDownloadInv
<1>3. CASE StoreDownload(t, ErrorPage) /\ ReturnOpen(t, TRUE)
  BY <1>1, <1>3, StoreDownloadInv
<1>4. CASE ReturnOpen(t, FALSE) /\ UNCHANGED ofmVars
  BY <1>1, <1>4, QuietReturnInv
<1>5. CASE mount' = "crashed"
           /\ UNCHANGED <<ofmVars, hstate, hpath, opened, localVars>>
  BY <1>1, <1>5, OutsideStep
<1> QED
  BY <1>2, <1>3, <1>4, <1>5 DEF OpenStore

\* Damage to the heap ends what is known of the process.
LEMMA DamageInv ==
  ASSUME FHInv, NEW t \in Threads, Damage(t)
  PROVE  FHInv'
<1>1. /\ mount' \in {"up", "crashed", "unmounted"}
      /\ remote' \in Listing
      /\ cache' \in [Threads -> Listing \cup {NULL}]
      /\ UNCHANGED <<ofmVars, hstate, hpath, opened, localVars>>
  BY DEF Damage, FHInv, KernelInv, FHTypeOK, Listing
<1> QED
  BY <1>1, OutsideStep

-----------------------------------------------------------------------------
(* release, the server, the end of the mount                               *)

\* No handler works for a handle that is being released.
LEMMA ReleasingUnused ==
  ASSUME FHInv, NEW h \in Handles, hstate[h] \in {"closed", "releasing"}
  PROVE  \A u \in Threads : hdl[u] # h
<1>1. \A u \in Threads : pc[u] \in Pcs
  BY DEF FHInv, KernelInv, FHTypeOK, Pcs
<1> QED
  BY <1>1, FileHandlesAssumption DEF FHInv, KernelInv, LocalsInv, Pcs

\* The handle h moves on to state s; no handler works for it.
LEMMA HandleMoves ==
  ASSUME FHInv, NEW h \in Handles, NEW s \in {"releasing", "closed"},
         hstate[h] # "closed", \A u \in Threads : hdl[u] # h,
         hstate' = [hstate EXCEPT ![h] = s],
         hpath' \in [Handles -> Paths \cup {NULL}],
         opened' \in [Handles -> BOOLEAN],
         \A g \in Handles : g # h \/ s # "closed" => hpath'[g] = hpath[g],
         TypeOK', UNCHANGED <<mount, remote, cache, localVars>>
  PROVE  KernelInv'
<1>1. /\ hstate'[h] = s
      /\ \A g \in Handles \ {h} : hstate'[g] = hstate[g]
  BY DEF FHInv, KernelInv, FHTypeOK
<1>2. FHTypeOK'
  BY DEF FHInv, KernelInv, FHTypeOK, localVars
<1>3. LocalsInv'
  BY <1>1 DEF FHInv, KernelInv, LocalsInv, localVars
<1>4. OneOpener'
  BY DEF FHInv, KernelInv, OneOpener, localVars
<1>5. HandlesApart'
  BY <1>1 DEF FHInv, KernelInv, HandlesApart
<1> QED
  BY <1>2, <1>3, <1>4, <1>5 DEF KernelInv

\* Closing a handle keeps it: no handler is inside a handle that is closed.
LEMMA CloseInv ==
  ASSUME FHInv, NEW h \in Handles, Close(h)
  PROVE  FHInv'
<1>1. ListInv' /\ Listed' = Listed
  BY SameList DEF FHInv, Close
<1>2. KernelInv'
  <2>1. TypeOK'
    BY <1>1 DEF ListInv
  <2>2. /\ hpath' \in [Handles -> Paths \cup {NULL}]
        /\ opened' \in [Handles -> BOOLEAN]
        /\ \A g \in Handles : hpath'[g] = hpath[g]
    BY DEF Close, FHInv, KernelInv, FHTypeOK
  <2> QED
    BY <2>1, <2>2, HandleMoves DEF Close
<1>3. ContentInv'
  BY <1>1 DEF Close, FHInv, ContentInv, ofmVars
<1>4. ASSUME NEW u \in Threads PROVE PointerOK(u)'
  BY <1>1, OtherThread DEF Close, ofmVars, localVars
<1> QED
  BY <1>1, <1>2, <1>3, <1>4 DEF FHInv

\* Releasing a file takes no context away from a handler of another one.
LEMMA ReleaseInv ==
  ASSUME FHInv, NEW t \in Threads, NEW h \in Handles, Release(t, h)
  PROVE  FHInv'
<1>1. /\ hstate[h] = "releasing" /\ hpath[h] \in Paths
      /\ closeFile(hpath[h])
      /\ \A u \in Threads : hdl[u] # h
      /\ \A g \in Handles \ {h} : hpath'[g] = hpath[g]
      /\ UNCHANGED localVars
  BY ReleasingUnused DEF Release, FHInv, KernelInv, HandlesApart, FHTypeOK
<1>2. ListInv'
  BY <1>1, CloseFileInv DEF FHInv
<1>3. /\ \A d \in Listed : ~Matches(hpath[h], openedPath[d]) => d \in Listed'
      /\ \A d \in Listed' : /\ d \in Listed
                            /\ openedPath'[d] = openedPath[d]
                            /\ blobID'[d] = blobID[d]
                            /\ memory'[d] = memory[d]
  BY <1>1, CloseFileFrame DEF FHInv
<1>4. KernelInv'
  <2>1. TypeOK'
    BY <1>2 DEF ListInv
  <2>2. /\ hpath' \in [Handles -> Paths \cup {NULL}]
        /\ opened' \in [Handles -> BOOLEAN]
    BY DEF Release, FHInv, KernelInv, FHTypeOK
  <2> QED
    BY <1>1, <2>1, <2>2, HandleMoves DEF Release
<1>5. ContentInv'
  BY <1>3 DEF FHInv, ContentInv
<1>6. ASSUME NEW u \in Threads PROVE PointerOK(u)'
  <2>1. CASE pc[u] = "idle"
    BY <1>1, <2>1 DEF PointerOK, HoldPcs, localVars
  <2>2. CASE pc[u] # "idle"
    <3>1. hdl[u] \in Handles \ {h} /\ hstate[hdl[u]] # "closed"
      BY <1>1, <2>2 DEF FHInv, KernelInv, LocalsInv, FHTypeOK
    <3>2. TPath(u) \in Paths /\ (TPath(u) \in Alone => ~Overlap(hpath[h], TPath(u)))
      BY <1>1, <3>1 DEF FHInv, KernelInv, HandlesApart, TPath, Overlap
    <3>3. ASSUME NEW d \in Listed, TPath(u) \in Alone, Matches(TPath(u), openedPath[d])
          PROVE  ~Matches(hpath[h], openedPath[d])
      <4>1. openedPath[d] \in Paths
        BY DEF FHInv, ListInv, LiveContexts
      <4> QED
        BY <1>1, <3>2, <3>3, <4>1, CommonEntryOverlap, OpenFileManagerAssumption
    <3>4. \A d \in Listed : TPath(u) \in Alone /\ Matches(TPath(u), openedPath[d]) =>
            /\ d \in Listed'
            /\ openedPath'[d] = openedPath[d]
            /\ blobID'[d] = blobID[d]
            /\ memory'[d] = memory[d]
      BY <1>3, <3>3
    <3> QED
      BY <1>1, <1>3, <3>1, <3>4, OtherThread DEF localVars
  <2> QED
    BY <2>1, <2>2
<1> QED
  BY <1>2, <1>4, <1>5, <1>6 DEF FHInv

\* destroy finds no handler at work, and empties the list.
LEMMA DestroyInv ==
  ASSUME FHInv, Destroy
  PROVE  FHInv'
<1>1. ListInv'
  BY CloseAllFilesInv DEF Destroy, FHInv
<1>2. Listed' = {}
  BY DEF Destroy, closeAllFiles, Listed, ToSet
<1>3. KernelInv'
  BY <1>1 DEF Destroy, FHInv, KernelInv, FHTypeOK, ListInv, LocalsInv, OneOpener,
              HandlesApart, localVars
<1>4. ContentInv'
  BY <1>2 DEF ContentInv
<1>5. ASSUME NEW u \in Threads PROVE PointerOK(u)'
  BY DEF Destroy, PointerOK, HoldPcs, localVars
<1> QED
  BY <1>1, <1>3, <1>4, <1>5 DEF FHInv

\* A request in another folder drops a listing no handler is using.
LEMMA SwitchFolderInv ==
  ASSUME FHInv, NEW t \in Threads, SwitchFolder(t)
  PROVE  FHInv'
<1>1. /\ mount' \in {"up", "crashed", "unmounted"}
      /\ remote' \in Listing
      /\ cache' \in [Threads -> Listing \cup {NULL}]
      /\ UNCHANGED <<ofmVars, hstate, hpath, opened, localVars>>
  BY DEF SwitchFolder, Folder!Drop, kernelVars, FHInv, KernelInv, FHTypeOK,
         Listing
<1> QED
  BY <1>1, OutsideStep

\* A change on the server touches no context and no listing.
LEMMA UploadInv ==
  ASSUME FHInv, NEW p \in Paths, Upload(p)
  PROVE  FHInv'
<1>1. /\ mount' \in {"up", "crashed", "unmounted"}
      /\ cache' \in [Threads -> Listing \cup {NULL}]
      /\ UNCHANGED <<ofmVars, hstate, hpath, opened, localVars>>
  BY DEF Upload, kernelVars, FHInv, KernelInv, FHTypeOK, Listing
<1>2. remote' \in Listing
  <2>1. PICK b \in RemoteBlobs[p] : remote' = [remote EXCEPT ![p] = b]
    BY DEF Upload
  <2>2. b \in Blobs \cup {NULL}
    BY FileHandlesAssumption
  <2> QED
    BY <2>1, <2>2 DEF FHInv, KernelInv, FHTypeOK, Listing
<1> QED
  BY <1>1, <1>2, OutsideStep

-----------------------------------------------------------------------------
(* The specification keeps it                                              *)

\* Every step keeps the inductive invariant: one case per disjunct of FHNext.
LEMMA NextFHInv ==
  ASSUME FHInv, [FHNext]_vars
  PROVE  FHInv'
<1>1. ASSUME NEW t \in Threads, OpenStep(t) PROVE FHInv'
  BY <1>1, OpenResolveInv, OpenCheckInv, OpenRegisterInv, OpenRequestInv,
     OpenStoreInv DEF OpenStep
<1>2. ASSUME NEW t \in Threads, ReadStep(t) PROVE FHInv'
  BY <1>2, ReadResolveInv, ReadLookupInv, ReadRegisterInv, ReadCompareInv,
     ReadCopyInv DEF ReadStep
<1>3. ASSUME NEW t \in Threads, ThreadStep(t) PROVE FHInv'
  BY <1>1, <1>2, <1>3, DamageInv, SwitchFolderInv, ReadInv, ReleaseInv, OpenInv
     DEF ThreadStep
<1>4. ASSUME NEW h \in Handles, Close(h) PROVE FHInv'
  BY <1>4, CloseInv
<1>5. ASSUME NEW p \in Paths, Upload(p) PROVE FHInv'
  BY <1>5, UploadInv
<1>6. CASE Destroy
  BY <1>6, DestroyInv
<1>7. CASE UNCHANGED vars
  <2>1. /\ mount' \in {"up", "crashed", "unmounted"}
        /\ remote' \in Listing
        /\ cache' \in [Threads -> Listing \cup {NULL}]
        /\ UNCHANGED <<ofmVars, hstate, hpath, opened, localVars>>
    BY <1>7 DEF vars, kernelVars, FHInv, KernelInv, FHTypeOK, Listing
  <2> QED
    BY <2>1, OutsideStep
<1> QED
  BY <1>3, <1>4, <1>5, <1>6, <1>7 DEF FHNext

\* The inductive invariant of the file handlers: the list is well formed, and
\* a handler that works for a file of Alone and holds a context holds a live
\* one of its own path, whatever the handlers of other files do.
THEOREM FHInvariant == FHSpec => []FHInv
<1>1. FHInit => FHInv
  BY InitFHInv
<1>2. FHInv /\ [FHNext]_vars => FHInv'
  BY NextFHInv
<1> QED
  BY <1>1, <1>2, PTL DEF FHSpec

\* Handlers, handles, caches and contexts keep their types, however the files
\* are used.
THEOREM FHTypeCorrect == FHSpec => []FHTypeOK
<1>1. FHInv => FHTypeOK
  BY DEF FHInv, KernelInv
<1> QED
  BY <1>1, FHInvariant, PTL

\* However the files are used, shared ones and second openings included, the
\* open-file manager's counter is the length of its list.
THEOREM FHCounterCorrect == FHSpec => []CounterMatchesList
<1>1. FHInv => CounterMatchesList
  BY DEF FHInv, ListInv
<1> QED
  BY <1>1, FHInvariant, PTL

\* Under the same general use no file has two contexts, although the check for
\* an open file and its registration are two critical sections.
THEOREM FHNoTwinCorrect == FHSpec => []NoTwin
<1>1. FHInv => NoTwin
  BY NoDuplicates DEF FHInv, NoTwin
<1> QED
  BY <1>1, FHInvariant, PTL

\* When every file is used by one handle at a time, no handler ever holds a
\* pointer to a context that another thread has freed, although it works
\* without ofm_lock.
THEOREM NoDanglingContextCorrect ==
  ASSUME Alone = Paths
  PROVE  FHSpec => []NoDanglingContext
<1>1. FHInv => NoDanglingContext
  <2> SUFFICES ASSUME FHInv, NEW t \in Threads, file[t] # NULL
               PROVE  file[t] \in Listed
    BY DEF NoDanglingContext
  <2>1. pc[t] \in HoldPcs /\ TPath(t) \in Paths
    BY DEF FHInv, KernelInv, LocalsInv, HandlesApart, TPath, HoldPcs, OpenPcs, ReadPcs
  <2> QED
    BY <2>1 DEF FHInv, PointerOK
<1> QED
  BY <1>1, FHInvariant, PTL

\* Under the same condition a read never returns bytes of another blob than
\* the one its listing names, an error page in its place excepted.
THEOREM ReadMatchesListingCorrect ==
  ASSUME Alone = Paths
  PROVE  FHSpec => []ReadMatchesListing
<1>1. FHInv => ReadMatchesListing
  <2> SUFFICES ASSUME FHInv, NEW t \in Threads, pc[t] = "read_copy",
                      memory[file[t]] \notin {NULL, ErrorPage}
               PROVE  memory[file[t]] = blob[t]
    BY DEF ReadMatchesListing
  <2>1. TPath(t) \in Paths
    BY DEF FHInv, KernelInv, LocalsInv, HandlesApart, TPath, ReadPcs
  <2> QED
    BY <2>1 DEF FHInv, ContentInv, PointerOK, HoldPcs
<1> QED
  BY <1>1, FHInvariant, PTL

\* Under the same condition every download is stored in a live context that
\* had no content: no buffer is overwritten or lost.
THEOREM DownloadTargetEmptyCorrect ==
  ASSUME Alone = Paths
  PROVE  FHSpec => []DownloadTargetEmpty
<1>1. FHInv => DownloadTargetEmpty
  <2> SUFFICES ASSUME FHInv, NEW t \in Threads, pc[t] = "open_store"
               PROVE  file[t] \in Listed /\ memory[file[t]] = NULL
    BY DEF DownloadTargetEmpty
  <2>1. TPath(t) \in Paths
    BY DEF FHInv, KernelInv, LocalsInv, HandlesApart, TPath, OpenPcs
  <2> QED
    BY <2>1 DEF FHInv, PointerOK, HoldPcs
<1> QED
  BY <1>1, FHInvariant, PTL
=============================================================================
