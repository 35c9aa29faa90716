------------------------ MODULE FileReferences_proofs ------------------------
(* What becomes of the files of Alone, those that are used by one handle at   *)
(* a time, when every listing can be had and names a blob for them, and       *)
(* memory suffices: each of their handles owns one context, from its          *)
(* registration to its release, with one reference.  Downloads may fail and   *)
(* files may change.  The other files are used in any way, by several handles *)
(* at once and through pointers to freed contexts.                            *)
EXTENDS FileHandles_proofs

Served ==
  /\ "memory" \notin Failures /\ "listing" \notin Failures
  /\ \A p \in Alone : NULL \notin RemoteBlobs[p]

Loading == {"open_request", "open_store"}

\* The opening of handle h has got its context.
Registered(h) ==
  \/ hstate[h] \in {"open", "releasing"}
  \/ \E t \in Threads : hdl[t] = h /\ pc[t] \in Loading

\* Contexts and registered handles of the files of Alone belong to each other.
OwnersInv ==
  /\ \A c \in Listed : openedPath[c] \in Alone =>
       /\ referenceCount[c] = 1
       /\ \E h \in Handles : Registered(h) /\ openedPath[c] = hpath[h]
  /\ \A h \in Handles : Registered(h) /\ hpath[h] \in Alone =>
       \E c \in Listed : openedPath[c] = hpath[h] /\ (opened[h] => memory[c] # NULL)

\* Every listing names a blob for every file of Alone.
ServerInv ==
  /\ \A p \in Alone : remote[p] # NULL
  /\ \A t \in Threads : cache[t] # NULL => \A p \in Alone : cache[t][p] # NULL

ProgressInv ==
  /\ \A h \in Handles : hstate[h] \in {"closed", "opening"} => ~opened[h]
  /\ \A t \in Threads : pc[t] = "read_register" => TPath(t) \notin Alone

EndInv == mount = "unmounted" => firstOpenFile = << >> /\ \A t \in Threads : pc[t] = "idle"

\* The inductive invariant, beside FHInv.
OwnInv == ServerInv /\ ProgressInv /\ EndInv /\ (mount # "unmounted" => OwnersInv)

-----------------------------------------------------------------------------
(* Owners                                                                  *)

\* A registered handle is not closed.
LEMMA RegisteredInUse ==
  ASSUME FHInv, NEW h \in Handles, Registered(h)
  PROVE  hstate[h] # "closed" /\ hpath[h] \in Paths
BY DEF Registered, Loading, FHInv, KernelInv, LocalsInv, OpenPcs, HandlesApart

\* A request for a path outside of Alone hits no context of a file of Alone.
LEMMA AloneApart ==
  ASSUME FHInv, NEW p \in Paths \ Alone, NEW c \in Listed, openedPath[c] \in Alone
  PROVE  ~Matches(p, openedPath[c])
BY FileHandlesAssumption DEF Overlap

\* A context that answers the path of a handle on a file of Alone is that
\* handle's own.
LEMMA OwnContext ==
  ASSUME FHInv, OwnersInv, NEW h \in Handles, hstate[h] # "closed", hpath[h] \in Alone,
         NEW c \in Listed, Matches(hpath[h], openedPath[c])
  PROVE  Registered(h) /\ openedPath[c] = hpath[h] /\ referenceCount[c] = 1
<1>1. Overlap(hpath[h], openedPath[c]) /\ openedPath[c] \in Paths
  BY DEF Overlap, FHInv, ListInv, LiveContexts
<1>2. openedPath[c] \in Alone
  BY <1>1, FileHandlesAssumption
<1>3. PICK g \in Handles : Registered(g) /\ openedPath[c] = hpath[g]
  BY <1>2 DEF OwnersInv
<1>4. hstate[g] # "closed" /\ Overlap(hpath[h], hpath[g])
  BY <1>1, <1>3, RegisteredInUse
<1>5. g = h
  BY <1>4 DEF FHInv, KernelInv, HandlesApart
<1> QED BY <1>2, <1>3, <1>5 DEF OwnersInv

\* A request for the path of such a handle, registered, finds its context.
LEMMA OwnHit ==
  ASSUME FHInv, OwnersInv, NEW h \in Handles, Registered(h), hpath[h] \in Alone
  PROVE  \E k \in 1..Len(firstOpenFile) :
           /\ Hits(hpath[h]) = {k} /\ firstOpenFile[k] \in Listed
           /\ openedPath[firstOpenFile[k]] = hpath[h]
           /\ opened[h] => memory[firstOpenFile[k]] # NULL
<1>1. PICK c \in Listed : openedPath[c] = hpath[h] /\ (opened[h] => memory[c] # NULL)
  BY DEF OwnersInv
<1>2. PICK k \in 1..Len(firstOpenFile) : firstOpenFile[k] = c
  BY ListedElements DEF FHInv, ListInv, TypeOK
<1>3. hpath[h] \in Paths /\ hstate[h] # "closed"
  BY RegisteredInUse
<1>4. k \in Hits(hpath[h])
  BY <1>1, <1>2, <1>3, MatchesReflexive, OpenFileManagerAssumption DEF Hits
<1>5. ASSUME NEW j \in Hits(hpath[h]) PROVE j = k
  <2>1. j \in 1..Len(firstOpenFile) /\ Matches(hpath[h], openedPath[firstOpenFile[j]])
    BY DEF Hits
  <2>2. openedPath[firstOpenFile[j]] = hpath[h]
    BY <1>3, <2>1, OwnContext, ListedElements DEF FHInv, ListInv, TypeOK
  <2> QED BY <1>1, <1>2, <2>1, <2>2, NoDuplicates DEF FHInv
<1> QED BY <1>1, <1>2, <1>4, <1>5

\* Listed contexts of one path are one context.
OnePerPath(c, d) == openedPath[c] = openedPath[d] => c = d

LEMMA NoTwins ==
  ASSUME FHInv, NEW c \in Listed, NEW d \in Listed
  PROVE  OnePerPath(c, d)
<1>1. PICK i \in 1..Len(firstOpenFile) : firstOpenFile[i] = c
  BY ListedElements DEF FHInv, ListInv, TypeOK
<1>2. PICK j \in 1..Len(firstOpenFile) : firstOpenFile[j] = d
  BY ListedElements DEF FHInv, ListInv, TypeOK
<1> QED BY <1>1, <1>2, NoDuplicates DEF FHInv, OnePerPath

\* A handle on a file of Alone and another one in use have different paths.
LEMMA PathsDiffer ==
  ASSUME FHInv, NEW g \in Handles, NEW h \in Handles, g # h, Registered(g),
         hpath[g] \in Alone, hstate[h] # "closed"
  PROVE  hpath[g] # hpath[h]
<1>1. hstate[g] # "closed" /\ hpath[g] \in Paths
  BY RegisteredInUse
<1>2. Overlap(hpath[g], hpath[g])
  BY <1>1, MatchesReflexive, OpenFileManagerAssumption DEF Overlap
<1> QED BY <1>1, <1>2 DEF FHInv, KernelInv, HandlesApart

\* A thread that opens a handle and has no context yet is its only one.
LEMMA NotYetRegistered ==
  ASSUME FHInv, NEW t \in Threads, pc[t] \in OpenPcs \ Loading
  PROVE  hdl[t] \in Handles /\ ~Registered(hdl[t]) /\ hstate[hdl[t]] = "opening"
BY DEF FHInv, KernelInv, LocalsInv, OneOpener, Registered, Loading, OpenPcs

-----------------------------------------------------------------------------
(* Steps that leave the owners as they are                                 *)

\* Handlers that neither enter nor leave the download change no ownership.
LEMMA SameRegistered ==
  ASSUME hstate' = hstate,
         \A u \in Threads : pc'[u] \in Loading <=> pc[u] \in Loading,
         \A u \in Threads : pc[u] \in Loading => hdl'[u] = hdl[u]
  PROVE  \A h \in Handles : Registered(h)' <=> Registered(h)
BY DEF Registered

\* A step that leaves the list and what belongs to registered handles alone.
LEMMA OwnersKept ==
  ASSUME OwnersInv, UNCHANGED ofmVars,
         \A h \in Handles : Registered(h)' <=> Registered(h),
         \A h \in Handles : Registered(h) => hpath'[h] = hpath[h] /\ (opened'[h] => opened[h])
  PROVE  OwnersInv'
<1>1. Listed' = Listed
  BY DEF ofmVars, Listed
<1> QED BY <1>1 DEF OwnersInv, ofmVars

\* A step that leaves the contexts and the handles of the files of Alone
\* alone, except for content that replaces content.
LEMMA OthersStep ==
  ASSUME FHInv, OwnersInv,
         \A c \in Listed : openedPath[c] \in Alone =>
           /\ c \in Listed' /\ openedPath'[c] = openedPath[c]
           /\ referenceCount'[c] = referenceCount[c]
           /\ memory[c] # NULL => memory'[c] # NULL,
         \A c \in Listed' : openedPath'[c] \in Alone =>
           c \in Listed /\ openedPath'[c] = openedPath[c],
         \A h \in Handles : hpath[h] \in Alone \/ hpath'[h] \in Alone =>
           /\ hpath'[h] = hpath[h] /\ (Registered(h)' <=> Registered(h))
           /\ opened'[h] => opened[h]
  PROVE  OwnersInv'
<1>1. ASSUME NEW c \in Listed', openedPath'[c] \in Alone
      PROVE  /\ referenceCount'[c] = 1
             /\ \E h \in Handles : Registered(h)' /\ openedPath'[c] = hpath'[h]
  <2>1. c \in Listed /\ openedPath'[c] = openedPath[c]
    BY <1>1
  <2>2. PICK h \in Handles : Registered(h) /\ openedPath[c] = hpath[h]
    BY <1>1, <2>1 DEF OwnersInv
  <2> QED BY <1>1, <2>1, <2>2 DEF OwnersInv
<1>2. ASSUME NEW h \in Handles, Registered(h)', hpath'[h] \in Alone
      PROVE  \E c \in Listed' : openedPath'[c] = hpath'[h] /\ (opened'[h] => memory'[c] # NULL)
  <2>1. PICK c \in Listed : openedPath[c] = hpath[h] /\ (opened[h] => memory[c] # NULL)
    BY <1>2 DEF OwnersInv
  <2> QED BY <1>2, <2>1
<1> QED BY <1>1, <1>2 DEF OwnersInv

\* openFile() and closeFile() of a path outside of Alone.
LEMMA OtherOpenFile ==
  ASSUME FHInv, NEW p \in Paths \ Alone, NEW b \in Blobs, NEW c, openFile(p, b, c)
  PROVE  /\ \A d \in Listed : openedPath[d] \in Alone =>
              /\ d \in Listed' /\ openedPath'[d] = openedPath[d]
              /\ referenceCount'[d] = referenceCount[d] /\ memory'[d] = memory[d]
         /\ \A d \in Listed' : openedPath'[d] \in Alone =>
              d \in Listed /\ openedPath'[d] = openedPath[d]
<1>1. /\ \A d \in Listed : /\ d \in Listed' /\ openedPath'[d] = openedPath[d]
                          /\ memory'[d] = memory[d]
      /\ \A d \in Listed' \ Listed : openedPath'[d] = p
  BY OpenFileFrame DEF FHInv
<1>2. ASSUME NEW d \in Listed, openedPath[d] \in Alone
      PROVE  referenceCount'[d] = referenceCount[d]
  <2>1. ~Matches(p, openedPath[d]) /\ d \in Ctxs
    BY <1>2, AloneApart, ListedElements DEF FHInv, ListInv, TypeOK
  <2>2. CASE ReturnExisting(p, c)
    <3>1. PICK i \in Hits(p) : c = firstOpenFile[i]
      BY <2>2 DEF ReturnExisting
    <3>2. c # d
      BY <2>1, <3>1 DEF Hits
    <3> QED BY <2>1, <2>2, <3>2 DEF ReturnExisting, FHInv, ListInv, TypeOK
  <2>3. CASE PushContext(p, b, c)
    BY <2>1, <2>3 DEF PushContext, FHInv, ListInv, TypeOK
  <2>4. CASE RegisterOutOfMemory(c)
    BY <2>4 DEF RegisterOutOfMemory, ofmVars
  <2> QED BY <2>2, <2>3, <2>4 DEF openFile
<1> QED BY <1>1, <1>2

LEMMA OtherCloseFile ==
  ASSUME FHInv, NEW p \in Paths \ Alone, closeFile(p)
  PROVE  /\ \A d \in Listed : openedPath[d] \in Alone =>
              /\ d \in Listed' /\ openedPath'[d] = openedPath[d]
              /\ referenceCount'[d] = referenceCount[d] /\ memory'[d] = memory[d]
         /\ \A d \in Listed' : openedPath'[d] \in Alone =>
              d \in Listed /\ openedPath'[d] = openedPath[d]
<1>1. /\ \A d \in Listed : ~Matches(p, openedPath[d]) => d \in Listed'
      /\ \A d \in Listed' : /\ d \in Listed /\ openedPath'[d] = openedPath[d]
                           /\ memory'[d] = memory[d]
  BY CloseFileFrame DEF FHInv
<1>2. ASSUME NEW d \in Listed, openedPath[d] \in Alone
      PROVE  d \in Listed' /\ referenceCount'[d] = referenceCount[d]
  <2>1. ~Matches(p, openedPath[d]) /\ d \in Ctxs
    BY <1>2, AloneApart, ListedElements DEF FHInv, ListInv, TypeOK
  <2>2. ASSUME NEW i \in Hits(p), DropReference(firstOpenFile[i]) \/ Unlink(i)
        PROVE  referenceCount'[d] = referenceCount[d]
    <3>1. firstOpenFile[i] # d
      BY <2>1 DEF Hits
    <3> QED BY <2>1, <2>2, <3>1 DEF DropReference, Unlink, Clear, FHInv, ListInv, TypeOK
  <2> QED BY <1>1, <2>1, <2>2 DEF closeFile, ofmVars
<1> QED BY <1>1, <1>2

\* A step of thread t outside a download, to a step l outside of it.
LEMMA QuietStep ==
  ASSUME FHInv, OwnInv, mount = "up", NEW t \in Threads, NEW l,
         UNCHANGED <<ofmVars, kernelVars, remote>>, ServerInv',
         pc' = [pc EXCEPT ![t] = l],
         l = "read_register" => hdl' = hdl /\ TPath(t) \notin Alone,
         \A u \in Threads \ {t} : hdl'[u] = hdl[u],
         \/ l \notin Loading /\ pc[t] \notin Loading
         \/ l \in Loading /\ pc[t] \in Loading /\ hdl' = hdl
  PROVE  OwnInv'
<1>1. \A u \in Threads : pc'[u] = IF u = t THEN l ELSE pc[u]
  BY DEF FHInv, KernelInv, FHTypeOK
<1>2. OwnersInv'
  BY <1>1, SameRegistered, OwnersKept DEF OwnInv, kernelVars
<1>3. ProgressInv'
  BY <1>1 DEF OwnInv, ProgressInv, TPath, kernelVars
<1> QED BY <1>2, <1>3 DEF OwnInv, EndInv, kernelVars

\* The handler of a file outside of Alone returns to the kernel.
LEMMA OtherReturns ==
  ASSUME FHInv, OwnInv, mount = "up", NEW t \in Threads, pc[t] \in OpenPcs,
         TPath(t) \notin Alone, NEW ok \in BOOLEAN, ReturnOpen(t, ok), ServerInv',
         Listed' = Listed, openedPath' = openedPath, referenceCount' = referenceCount,
         \A d \in Listed : memory[d] # NULL => memory'[d] # NULL
  PROVE  OwnInv'
<1>1. PICK g : g = hdl[t]
  OBVIOUS
<1>2. g \in Handles /\ hstate[g] = "opening" /\ hpath[g] \notin Alone
  BY <1>1 DEF FHInv, KernelInv, LocalsInv, TPath
<1>3. /\ hstate'[g] = "open" /\ hpath' = hpath /\ mount' = mount
      /\ \A h \in Handles \ {g} : hstate'[h] = hstate[h] /\ opened'[h] = opened[h]
      /\ \A u \in Threads \ {t} : pc'[u] = pc[u] /\ hdl'[u] = hdl[u]
      /\ pc'[t] = "idle"
  BY <1>1, <1>2 DEF ReturnOpen, Leave, Goto, FHInv, KernelInv, FHTypeOK
<1>4. \A h \in Handles \ {g} : Registered(h)' <=> Registered(h)
  BY <1>1, <1>3 DEF Registered, Loading
<1>5. OwnersInv'
  BY <1>2, <1>3, <1>4, OthersStep DEF OwnInv
<1>6. ProgressInv' /\ EndInv'
  BY <1>3 DEF OwnInv, ProgressInv, EndInv, TPath
<1> QED BY <1>5, <1>6 DEF OwnInv

\* The handler of a file outside of Alone registers a context, and goes on.
LEMMA OtherRegisters ==
  ASSUME FHInv, OwnInv, mount = "up", NEW t \in Threads, NEW c \in Ctxs \cup {NULL},
         pc[t] \in {"open_register", "read_register"}, TPath(t) \notin Alone,
         openFile(TPath(t), blob[t], c), UNCHANGED <<kernelVars, remote, cache>>,
         pc'[t] # "read_register", pc'[t] \in Loading => pc[t] \in OpenPcs /\ hdl' = hdl,
         \A u \in Threads \ {t} : pc'[u] = pc[u] /\ hdl'[u] = hdl[u]
  PROVE  OwnInv'
<1>1. PICK g : g = hdl[t]
  OBVIOUS
<1>2. /\ g \in Handles /\ hpath[g] \in Paths \ Alone /\ TPath(t) = hpath[g]
      /\ blob[t] \in Blobs
  BY <1>1 DEF FHInv, KernelInv, LocalsInv, HandlesApart, TPath, OpenPcs, ReadPcs, BlobPcs
<1>3. \A h \in Handles \ {g} : Registered(h)' <=> Registered(h)
  BY <1>1 DEF Registered, Loading, kernelVars
<1>4. OwnersInv'
  BY <1>2, <1>3, OtherOpenFile, OthersStep DEF OwnInv, kernelVars
<1>5. ServerInv' /\ ProgressInv' /\ EndInv'
  BY DEF OwnInv, ServerInv, ProgressInv, EndInv, TPath, kernelVars
<1> QED BY <1>4, <1>5 DEF OwnInv

\* The resolution of a file of Alone has a blob for an answer, and listings
\* stay complete.
LEMMA ResolveServed ==
  ASSUME Served, FHInv, OwnInv, NEW t \in Threads, NEW b, Resolve(t, b), UNCHANGED remote
  PROVE  (TPath(t) \in Alone => b # NULL) /\ ServerInv'
<1>1. TPath(t) \in Alone =>
        remote[TPath(t)] # NULL /\ (cache[t] # NULL => cache[t][TPath(t)] # NULL)
  BY DEF OwnInv, ServerInv
<1>2. CASE cache[t] # NULL /\ b = cache[t][TPath(t)] /\ UNCHANGED cache
  BY <1>1, <1>2 DEF OwnInv, ServerInv
<1>3. CASE Folder!Fetch(t) /\ b = remote[TPath(t)]
  BY <1>1, <1>3, FileHandlesAssumption
     DEF OwnInv, ServerInv, Folder!Fetch, FHInv, KernelInv, FHTypeOK
<1> QED BY <1>2, <1>3 DEF Resolve, Served

-----------------------------------------------------------------------------
(* open                                                                    *)

\* open_callback() starts for a handle that owns nothing yet.
LEMMA OpenOwn ==
  ASSUME FHInv, OwnInv, mount = "up", NEW t \in Threads, NEW h \in Handles, NEW p \in Paths,
         Open(t, h, p)
  PROVE  OwnInv'
<1>1. /\ \A u \in Threads : pc'[u] = IF u = t THEN "open_resolve" ELSE pc[u]
      /\ \A u \in Threads \ {t} : hdl'[u] = hdl[u]
      /\ \A g \in Handles \ {h} : hstate'[g] = hstate[g] /\ hpath'[g] = hpath[g]
      /\ pc[t] = "idle" /\ hstate[h] = "closed" /\ hstate'[h] = "opening"
      /\ opened' = opened /\ UNCHANGED ofmVars
  BY DEF Open, Goto, FHInv, KernelInv, FHTypeOK
<1>2. ~Registered(h)
  BY <1>1, RegisteredInUse
<1>3. \A g \in Handles : Registered(g)' <=> Registered(g)
  BY <1>1, <1>2 DEF Registered, Loading
<1>4. OwnersInv'
  BY <1>1, <1>2, <1>3, OwnersKept DEF OwnInv
<1>5. ServerInv' /\ ProgressInv'
  <2>1. \A u \in Threads : pc[u] = "read_register" => hdl[u] # h
    BY <1>1 DEF FHInv, KernelInv, LocalsInv, ReadPcs
  <2>2. \A u \in Threads : pc[u] = "read_register" => hdl[u] \in Handles
    BY DEF FHInv, KernelInv, LocalsInv, ReadPcs
  <2> QED BY <1>1, <2>1, <2>2 DEF OwnInv, ServerInv, ProgressInv, TPath, Open
<1>6. mount' = mount
  BY DEF Open
<1> QED BY <1>4, <1>5, <1>6 DEF OwnInv, EndInv

\* fsh_datacontainer_openFile() resolves its path: a file of Alone has a blob.
LEMMA OpenResolveOwn ==
  ASSUME Served, FHInv, OwnInv, mount = "up", NEW t \in Threads, OpenResolve(t)
  PROVE  OwnInv'
<1>1. PICK b \in Blobs \cup {NULL} :
        /\ Resolve(t, b)
        /\ \/ b = NULL /\ ReturnOpen(t, FALSE)
           \/ /\ b # NULL
              /\ Goto(t, "open_check")
              /\ UNCHANGED <<kernelVars, hdl, file>>
  BY DEF OpenResolve
<1>2. UNCHANGED <<ofmVars, remote>> /\ pc[t] = "open_resolve" /\ pc[t] \in OpenPcs
  BY DEF OpenResolve, OpenPcs
<1>3. (TPath(t) \in Alone => b # NULL) /\ ServerInv'
  BY <1>1, <1>2, ResolveServed
<1>4. CASE TPath(t) \notin Alone /\ ReturnOpen(t, FALSE)
  BY <1>2, <1>3, <1>4, OtherReturns DEF ofmVars, Listed
<1>5. CASE UNCHANGED <<kernelVars, hdl>> /\ Goto(t, "open_check")
  <2>1. {"open_check", "open_resolve"} \cap Loading = {}
    BY DEF Loading
  <2> QED BY <1>2, <1>3, <1>5, <2>1, QuietStep DEF Goto
<1> QED BY <1>1, <1>3, <1>4, <1>5

\* The check whether a file of Alone is open finds no context.
LEMMA OpenCheckOwn ==
  ASSUME FHInv, OwnInv, mount = "up", NEW t \in Threads, OpenCheck(t)
  PROVE  OwnInv'
<1>1. PICK c \in Ctxs \cup {NULL} :
        /\ getFileContext(TPath(t), c)
        /\ \/ c # NULL /\ ReturnOpen(t, TRUE)
           \/ /\ c = NULL
              /\ Goto(t, "open_register")
              /\ UNCHANGED <<kernelVars, hdl, blob, file>>
  BY DEF OpenCheck
<1>2. /\ pc[t] = "open_check" /\ pc[t] \in OpenPcs
      /\ UNCHANGED <<ofmVars, remote, cache>>
  BY DEF OpenCheck, OpenPcs
<1>3. hdl[t] \in Handles /\ ~Registered(hdl[t]) /\ hstate[hdl[t]] = "opening"
  BY <1>2, NotYetRegistered DEF OpenPcs, Loading
<1>4. TPath(t) \in Alone => c = NULL
  <2> SUFFICES ASSUME c # NULL, TPath(t) \in Alone PROVE FALSE
    OBVIOUS
  <2>1. c \in Listed /\ Matches(hpath[hdl[t]], openedPath[c]) /\ hpath[hdl[t]] \in Alone
    BY <1>1, GetFileContextResult DEF TPath, FHInv
  <2> QED BY <1>3, <2>1, OwnContext DEF OwnInv
<1>5. ServerInv'
  BY <1>2 DEF OwnInv, ServerInv
<1>6. CASE TPath(t) \notin Alone /\ ReturnOpen(t, TRUE)
  BY <1>2, <1>5, <1>6, OtherReturns DEF ofmVars, Listed
<1>7. CASE UNCHANGED <<kernelVars, hdl>> /\ Goto(t, "open_register")
  <2>1. {"open_check", "open_register"} \cap Loading = {}
    BY DEF Loading
  <2> QED BY <1>2, <1>5, <1>7, <2>1, QuietStep DEF Goto
<1> QED BY <1>1, <1>4, <1>6, <1>7

\* The registration gives the handle of a file of Alone a context of its own.
LEMMA AloneRegistered ==
  ASSUME Served, FHInv, OwnInv, mount = "up", NEW t \in Threads, OpenRegister(t),
         TPath(t) \in Alone
  PROVE  OwnInv'
<1>1. PICK c \in Ctxs \cup {NULL} :
        /\ openFile(TPath(t), blob[t], c)
        /\ \/ c = NULL /\ ReturnOpen(t, FALSE)
           \/ /\ c # NULL
              /\ Goto(t, "open_request")
              /\ UNCHANGED <<kernelVars, hdl, blob>>
  BY DEF OpenRegister
<1>2. PICK g : g = hdl[t]
  OBVIOUS
<1>3. pc[t] = "open_register" /\ UNCHANGED <<remote, cache>>
  BY DEF OpenRegister
<1>4. g \in Handles /\ ~Registered(g) /\ hstate[g] = "opening" /\ TPath(t) = hpath[g]
  BY <1>2, <1>3, NotYetRegistered DEF OpenPcs, Loading, TPath
<1>5. hpath[g] \in Paths /\ blob[t] \in Blobs
  BY <1>3, <1>4 DEF FHInv, KernelInv, LocalsInv, HandlesApart, BlobPcs
<1>6. Hits(hpath[g]) = {}
  BY <1>3, <1>4, ListedElements
     DEF FHInv, PointerOK, Unregistered, Hits, ListInv, TypeOK
<1>7. PushContext(hpath[g], blob[t], c) /\ c # NULL
  BY <1>1, <1>4, <1>6, OpenFileManagerAssumption
     DEF openFile, ReturnExisting, RegisterOutOfMemory, Served, PushContext
<1>8. /\ Listed' = Listed \cup {c} /\ c \in Ctxs \ Listed /\ Listed \subseteq Ctxs
  BY <1>5, <1>7, PushContextList, ListedElements DEF FHInv, ListInv, TypeOK
<1>9. /\ \A d \in Listed : /\ openedPath'[d] = openedPath[d] /\ memory'[d] = memory[d]
                          /\ referenceCount'[d] = referenceCount[d]
      /\ openedPath'[c] = hpath[g] /\ referenceCount'[c] = 1
  BY <1>7, <1>8 DEF PushContext, FHInv, ListInv, TypeOK
<1>10. /\ UNCHANGED <<kernelVars, hdl>>
       /\ \A u \in Threads : pc'[u] = IF u = t THEN "open_request" ELSE pc[u]
  BY <1>1, <1>7 DEF Goto, FHInv, KernelInv, FHTypeOK
<1>11. Registered(g)' /\ \A h \in Handles \ {g} : Registered(h)' <=> Registered(h)
  BY <1>2, <1>3, <1>10 DEF Registered, Loading, kernelVars
<1>12. ~opened[g]
  BY <1>4 DEF OwnInv, ProgressInv
<1>13. OwnersInv
  BY DEF OwnInv
<1>14. OwnersInv'
  <2>1. ASSUME NEW d \in Listed', openedPath'[d] \in Alone
        PROVE  /\ referenceCount'[d] = 1
               /\ \E h \in Handles : Registered(h)' /\ openedPath'[d] = hpath'[h]
    <3>1. CASE d = c
      BY <1>4, <1>9, <1>10, <1>11, <3>1 DEF kernelVars
    <3>2. CASE d \in Listed
      <4>1. PICK h \in Handles : Registered(h) /\ openedPath[d] = hpath[h]
        BY <1>9, <1>13, <2>1, <3>2 DEF OwnersInv
      <4> QED BY <1>9, <1>10, <1>11, <1>13, <2>1, <3>2, <4>1 DEF OwnersInv, kernelVars
    <3> QED BY <1>8, <2>1, <3>1, <3>2
  <2>2. ASSUME NEW h \in Handles, Registered(h)', hpath'[h] \in Alone
        PROVE  \E d \in Listed' : openedPath'[d] = hpath'[h] /\ (opened'[h] => memory'[d] # NULL)
    <3>1. CASE h = g
      BY <1>8, <1>9, <1>10, <1>12, <3>1 DEF kernelVars
    <3>2. CASE h # g
      <4>1. PICK d \in Listed : openedPath[d] = hpath[h] /\ (opened[h] => memory[d] # NULL)
        BY <1>10, <1>11, <1>13, <2>2, <3>2 DEF OwnersInv, kernelVars
      <4> QED BY <1>8, <1>9, <1>10, <4>1 DEF kernelVars
    <3> QED BY <3>1, <3>2
  <2> QED BY <2>1, <2>2 DEF OwnersInv
<1>15. ServerInv' /\ ProgressInv' /\ EndInv'
  BY <1>3, <1>10 DEF OwnInv, ServerInv, ProgressInv, EndInv, TPath, kernelVars
<1> QED BY <1>14, <1>15 DEF OwnInv

\* Any other registration leaves the files of Alone as they are.
LEMMA OpenRegisterOwn ==
  ASSUME Served, FHInv, OwnInv, mount = "up", NEW t \in Threads, OpenRegister(t)
  PROVE  OwnInv'
<1>1. PICK c \in Ctxs \cup {NULL} :
        /\ openFile(TPath(t), blob[t], c)
        /\ \/ c = NULL /\ ReturnOpen(t, FALSE)
           \/ /\ c # NULL
              /\ Goto(t, "open_request")
              /\ UNCHANGED <<kernelVars, hdl, blob>>
  BY DEF OpenRegister
<1>2. pc[t] = "open_register" /\ pc[t] \in OpenPcs /\ UNCHANGED <<remote, cache>>
  BY DEF OpenRegister, OpenPcs
<1>3. c # NULL
  <2>1. Listed \subseteq Ctxs
    BY ListedElements DEF FHInv, ListInv, TypeOK
  <2>2. \A i \in Hits(TPath(t)) : firstOpenFile[i] \in Listed
    BY ListedElements DEF FHInv, ListInv, TypeOK, Hits
  <2> QED BY <1>1, <2>1, <2>2, OpenFileManagerAssumption
          DEF openFile, ReturnExisting, PushContext, RegisterOutOfMemory, Served
<1>4. CASE TPath(t) \in Alone
  BY <1>4, AloneRegistered
<1>5. CASE TPath(t) \notin Alone
  <2>1. pc'[t] # "read_register" /\ UNCHANGED <<kernelVars, hdl>>
        /\ \A u \in Threads \ {t} : pc'[u] = pc[u] /\ hdl'[u] = hdl[u]
    BY <1>1, <1>3 DEF Goto, FHInv, KernelInv, FHTypeOK
  <2> QED BY <1>1, <1>2, <1>5, <2>1, OtherRegisters
<1> QED BY <1>4, <1>5

\* The URL is built from the context.
LEMMA OpenRequestOwn ==
  ASSUME FHInv, OwnInv, mount = "up", NEW t \in Threads, OpenRequest(t)
  PROVE  OwnInv'
<1>1. /\ UNCHANGED <<ofmVars, kernelVars, remote, hdl>> /\ ServerInv'
      /\ pc' = [pc EXCEPT ![t] = "open_store"] /\ pc[t] = "open_request"
  BY DEF OpenRequest, Goto, OwnInv, ServerInv
<1>2. {"open_request", "open_store"} \subseteq Loading
  BY DEF Loading
<1> QED BY <1>1, <1>2, QuietStep

\* The kernel has its handle, whose context is unchanged or has content now.
LEMMA ReturnOpenOwn ==
  ASSUME FHInv, OwnInv, mount = "up", NEW t \in Threads, pc[t] = "open_store",
         TPath(t) \in Alone,
         NEW ok \in BOOLEAN, ReturnOpen(t, ok), ServerInv',
         Listed' = Listed, openedPath' = openedPath, referenceCount' = referenceCount,
         \A d \in Listed \ {file[t]} : memory'[d] = memory[d],
         ok => memory'[file[t]] # NULL
  PROVE  OwnInv'
<1>1. PICK g : g = hdl[t]
  OBVIOUS
<1>2. g \in Handles /\ hstate[g] = "opening" /\ Registered(g) /\ hpath[g] \in Alone
  BY <1>1 DEF FHInv, KernelInv, LocalsInv, OpenPcs, Registered, Loading, TPath
<1>3. /\ file[t] \in Listed /\ openedPath[file[t]] = hpath[g]
  <2>1. file[t] \in Listed /\ Matches(hpath[g], openedPath[file[t]])
    BY <1>1 DEF FHInv, PointerOK, HoldPcs, TPath
  <2> QED BY <1>2, <2>1, OwnContext DEF OwnInv
<1>4. /\ hstate'[g] = "open" /\ opened'[g] = ok /\ hpath' = hpath /\ mount' = mount
      /\ \A h \in Handles \ {g} : hstate'[h] = hstate[h] /\ opened'[h] = opened[h]
      /\ \A u \in Threads \ {t} : pc'[u] = pc[u] /\ hdl'[u] = hdl[u]
      /\ pc'[t] = "idle"
  BY <1>1, <1>2 DEF ReturnOpen, Leave, Goto, FHInv, KernelInv, FHTypeOK
<1>5. Registered(g)' /\ \A h \in Handles \ {g} : Registered(h)' <=> Registered(h)
  BY <1>1, <1>4 DEF Registered, Loading
<1>6. OwnersInv
  BY DEF OwnInv
<1>7. \A h \in Handles \ {g} : Registered(h) => hpath[h] # hpath[g]
  BY <1>2, PathsDiffer, RegisteredInUse
<1>8. OwnersInv'
  <2>1. ASSUME NEW d \in Listed', openedPath'[d] \in Alone
        PROVE  /\ referenceCount'[d] = 1
               /\ \E h \in Handles : Registered(h)' /\ openedPath'[d] = hpath'[h]
    <3>1. PICK h \in Handles : Registered(h) /\ openedPath[d] = hpath[h]
      BY <1>6, <2>1 DEF OwnersInv
    <3> QED BY <1>2, <1>4, <1>5, <1>6, <2>1, <3>1 DEF OwnersInv
  <2>2. ASSUME NEW h \in Handles, Registered(h)', hpath'[h] \in Alone
        PROVE  \E d \in Listed' : openedPath'[d] = hpath'[h] /\ (opened'[h] => memory'[d] # NULL)
    <3>1. CASE h = g
      BY <1>3, <1>4, <3>1
    <3>2. CASE h # g
      <4>1. PICK d \in Listed : openedPath[d] = hpath[h] /\ (opened[h] => memory[d] # NULL)
        BY <1>4, <1>5, <1>6, <2>2, <3>2 DEF OwnersInv
      <4>2. d # file[t]
        BY <1>3, <1>5, <1>7, <2>2, <3>2, <4>1
      <4> QED BY <1>4, <3>2, <4>1, <4>2
    <3> QED BY <3>1, <3>2
  <2> QED BY <2>1, <2>2 DEF OwnersInv
<1>9. ProgressInv' /\ EndInv'
  BY <1>4 DEF OwnInv, ProgressInv, EndInv, TPath
<1> QED BY <1>8, <1>9 DEF OwnInv

\* The process ends, or its heap is damaged: nothing else has changed.
LEMMA CrashOwn ==
  ASSUME FHInv, OwnInv, mount = "up", mount' = "crashed",
         UNCHANGED <<ofmVars, hstate, hpath, opened, remote, cache, localVars>>
  PROVE  OwnInv'
<1>1. OwnersInv'
  BY SameRegistered, OwnersKept DEF OwnInv, localVars
<1>2. ServerInv' /\ ProgressInv' /\ EndInv'
  BY DEF OwnInv, ServerInv, ProgressInv, EndInv, TPath, localVars
<1> QED BY <1>1, <1>2 DEF OwnInv

\* The download ends: with content, an error page, an error, or the process.
LEMMA OpenStoreOwn ==
  ASSUME FHInv, OwnInv, mount = "up", NEW t \in Threads, OpenStore(t)
  PROVE  OwnInv'
<1>1. pc[t] = "open_store" /\ pc[t] \in OpenPcs /\ UNCHANGED <<remote, cache>>
  BY DEF OpenStore, OpenPcs
<1>2. ServerInv'
  BY <1>1 DEF OwnInv, ServerInv
<1>3. blob[t] \in Blobs /\ (TPath(t) \in Alone => file[t] \in Listed)
  BY <1>1 DEF FHInv, PointerOK, HoldPcs, BlobPcs, KernelInv, LocalsInv
<1>4. ASSUME NEW ok \in BOOLEAN, ReturnOpen(t, ok),
             Listed' = Listed, openedPath' = openedPath, referenceCount' = referenceCount,
             \A d \in Listed \ {file[t]} : memory'[d] = memory[d],
             file[t] \in Listed => \/ memory'[file[t]] # NULL
                                   \/ ~ok /\ memory'[file[t]] = memory[file[t]]
      PROVE  OwnInv'
  <2>1. CASE TPath(t) \in Alone
    BY <1>1, <1>2, <1>3, <1>4, <2>1, ReturnOpenOwn
  <2>2. CASE TPath(t) \notin Alone
    <3>1. \A d \in Listed : memory[d] # NULL => memory'[d] # NULL
      BY <1>4
    <3> QED BY <1>1, <1>2, <1>4, <2>2, <3>1, OtherReturns
  <2> QED BY <2>1, <2>2
<1>5. ASSUME NEW content \in Blobs \cup {ErrorPage}, StoreDownload(t, content), ReturnOpen(t, TRUE)
      PROVE  OwnInv'
  <2>1. content # NULL
    BY OpenFileManagerAssumption
  <2>2. CASE file[t] \in Listed
    <3>1. StoreMemory(file[t], content) /\ file[t] \in Ctxs
      BY <1>5, <2>2, ListedElements DEF StoreDownload, FHInv, ListInv, TypeOK
    <3>2. /\ Listed' = Listed /\ openedPath' = openedPath /\ referenceCount' = referenceCount
          /\ \A d \in Listed \ {file[t]} : memory'[d] = memory[d]
          /\ memory'[file[t]] = content
      BY <3>1, ListedElements DEF StoreMemory, Listed, FHInv, ListInv, TypeOK
    <3> QED BY <1>4, <1>5, <2>1, <3>2
  <2>3. CASE file[t] \notin Listed
    BY <1>4, <1>5, <2>3 DEF StoreDownload, ofmVars, Listed
  <2> QED BY <2>2, <2>3
<1>6. CASE ReturnOpen(t, FALSE) /\ UNCHANGED ofmVars
  BY <1>4, <1>6 DEF ofmVars, Listed
<1>7. CASE mount' = "crashed" /\ UNCHANGED <<ofmVars, hstate, hpath, opened, localVars>>
  BY <1>1, <1>7, CrashOwn
<1> QED BY <1>3, <1>5, <1>6, <1>7 DEF OpenStore

-----------------------------------------------------------------------------
(* read                                                                    *)

\* A read starts, copies or gives up: no ownership changes.
LEMMA ReadQuietOwn ==
  ASSUME FHInv, OwnInv, mount = "up", NEW t \in Threads,
         \/ \E h \in Handles : Read(t, h)
         \/ ReadCompare(t) \/ ReadCopy(t)
  PROVE  OwnInv'
<1>1. PICK l \in {"read_resolve", "read_copy", "idle"} : pc' = [pc EXCEPT ![t] = l]
  BY DEF Read, ReadCompare, ReadCopy, Leave, Goto
<1>2. /\ UNCHANGED <<ofmVars, kernelVars, remote, cache>>
      /\ \A u \in Threads \ {t} : hdl'[u] = hdl[u]
      /\ pc[t] \notin Loading
  BY DEF Read, ReadCompare, ReadCopy, Leave, Loading, FHInv, KernelInv, FHTypeOK
<1>3. ServerInv'
  BY <1>2 DEF OwnInv, ServerInv
<1>4. l \notin Loading /\ l # "read_register"
  BY DEF Loading
<1> QED BY <1>1, <1>2, <1>3, <1>4, QuietStep

\* fsh_datacontainer_readFile() resolves its path.
LEMMA ReadResolveOwn ==
  ASSUME Served, FHInv, OwnInv, mount = "up", NEW t \in Threads, ReadResolve(t)
  PROVE  OwnInv'
<1>1. PICK b \in Blobs \cup {NULL} :
        Resolve(t, b) /\ (Leave(t) \/ (Goto(t, "read_lookup") /\ UNCHANGED hdl))
  BY DEF ReadResolve
<1>2. UNCHANGED <<ofmVars, kernelVars, remote>> /\ pc[t] = "read_resolve"
  BY DEF ReadResolve
<1>3. ServerInv'
  BY <1>1, <1>2, ResolveServed
<1>4. PICK l \in {"idle", "read_lookup"} : pc' = [pc EXCEPT ![t] = l]
  BY <1>1 DEF Leave, Goto
<1>5. \A u \in Threads \ {t} : hdl'[u] = hdl[u]
  BY <1>1 DEF Leave, FHInv, KernelInv, FHTypeOK
<1>6. {"idle", "read_resolve", "read_lookup"} \cap Loading = {}
  BY DEF Loading
<1> QED BY <1>2, <1>3, <1>4, <1>5, <1>6, QuietStep

\* The lookup finds the context of a handle on a file of Alone.
LEMMA ReadLookupOwn ==
  ASSUME FHInv, OwnInv, mount = "up", NEW t \in Threads, ReadLookup(t)
  PROVE  OwnInv'
<1>1. PICK c \in Ctxs \cup {NULL} :
        /\ getFileContext(TPath(t), c)
        /\ Goto(t, IF c = NULL THEN "read_register" ELSE "read_compare")
  BY DEF ReadLookup
<1>2. /\ pc[t] = "read_lookup" /\ UNCHANGED <<ofmVars, kernelVars, remote, cache, hdl>>
  BY DEF ReadLookup
<1>3. hdl[t] \in Handles /\ Registered(hdl[t])
  BY <1>2 DEF FHInv, KernelInv, LocalsInv, ReadPcs, Registered
<1>4. TPath(t) \in Alone => c # NULL
  <2> SUFFICES ASSUME hpath[hdl[t]] \in Alone PROVE c # NULL
    BY DEF TPath
  <2>1. \E k \in 1..Len(firstOpenFile) : Hits(hpath[hdl[t]]) = {k} /\ firstOpenFile[k] \in Listed
    BY <1>3, OwnHit DEF OwnInv
  <2>2. Listed \subseteq Ctxs
    BY ListedElements DEF FHInv, ListInv, TypeOK
  <2> QED BY <1>1, <2>1, <2>2, OpenFileManagerAssumption DEF getFileContext, TPath
<1>5. PICK l \in {"read_register", "read_compare"} :
        pc' = [pc EXCEPT ![t] = l] /\ (l = "read_register" => TPath(t) \notin Alone)
  BY <1>1, <1>4 DEF Goto
<1>6. ServerInv'
  BY <1>2 DEF OwnInv, ServerInv
<1>7. {"read_lookup", "read_register", "read_compare"} \cap Loading = {}
  BY DEF Loading
<1> QED BY <1>2, <1>5, <1>6, <1>7, QuietStep

\* Only reads of other files register a context.
LEMMA ReadRegisterOwn ==
  ASSUME FHInv, OwnInv, mount = "up", NEW t \in Threads, ReadRegister(t)
  PROVE  OwnInv'
<1>1. PICK c \in Ctxs \cup {NULL} :
        /\ openFile(TPath(t), blob[t], c)
        /\ Leave(t) \/ (Goto(t, "read_compare") /\ UNCHANGED hdl)
  BY DEF ReadRegister
<1>2. /\ pc[t] = "read_register" /\ UNCHANGED <<kernelVars, remote, cache>>
      /\ TPath(t) \notin Alone
  BY DEF ReadRegister, OwnInv, ProgressInv
<1>3. pc'[t] \in {"idle", "read_compare"}
      /\ \A u \in Threads \ {t} : pc'[u] = pc[u] /\ hdl'[u] = hdl[u]
  BY <1>1 DEF Leave, Goto, FHInv, KernelInv, FHTypeOK
<1>4. pc'[t] \notin Loading /\ pc'[t] # "read_register"
  BY <1>3 DEF Loading
<1> QED BY <1>1, <1>2, <1>3, <1>4, OtherRegisters

-----------------------------------------------------------------------------
(* release, the server, and the end                                        *)

\* The kernel closes a handle, which stays registered.
LEMMA CloseOwn ==
  ASSUME FHInv, OwnInv, mount = "up", NEW h \in Handles, Close(h)
  PROVE  OwnInv'
<1>1. /\ UNCHANGED <<ofmVars, mount, hpath, opened, remote, cache, localVars>>
      /\ hstate[h] = "open" /\ hstate'[h] = "releasing"
      /\ \A g \in Handles \ {h} : hstate'[g] = hstate[g]
  BY DEF Close, FHInv, KernelInv, FHTypeOK
<1>2. \A g \in Handles : Registered(g)' <=> Registered(g)
  BY <1>1 DEF Registered, localVars
<1>3. OwnersInv'
  BY <1>1, <1>2, OwnersKept DEF OwnInv
<1>4. ServerInv' /\ ProgressInv' /\ EndInv'
  BY <1>1 DEF OwnInv, ServerInv, ProgressInv, EndInv, TPath, localVars
<1> QED BY <1>3, <1>4 DEF OwnInv

\* No handler is inside a handle that is released.
LEMMA ReleasedProgress ==
  ASSUME FHInv, OwnInv, NEW t \in Threads, NEW h \in Handles, Release(t, h)
  PROVE  ProgressInv'
<1>1. /\ hstate[h] = "releasing" /\ opened'[h] = FALSE
      /\ \A g \in Handles \ {h} : /\ hstate'[g] = hstate[g] /\ hpath'[g] = hpath[g]
                                 /\ opened'[g] = opened[g]
      /\ UNCHANGED localVars
  BY DEF Release, FHInv, KernelInv, FHTypeOK
<1>2. \A u \in Threads : pc[u] = "read_register" => hdl[u] \in Handles \ {h}
  BY <1>1 DEF FHInv, KernelInv, LocalsInv, ReadPcs
<1> QED BY <1>1, <1>2 DEF OwnInv, ProgressInv, TPath, localVars

\* The release of a file of Alone takes the handle's context out of the list,
\* and no other.
LEMMA AloneReleased ==
  ASSUME FHInv, OwnInv, mount = "up", NEW t \in Threads, NEW h \in Handles, Release(t, h),
         hpath[h] \in Alone
  PROVE  OwnInv'
<1>1. /\ hstate[h] = "releasing" /\ hstate'[h] = "closed" /\ opened'[h] = FALSE
      /\ \A g \in Handles \ {h} : /\ hstate'[g] = hstate[g] /\ hpath'[g] = hpath[g]
                                 /\ opened'[g] = opened[g]
      /\ UNCHANGED <<mount, remote, cache, localVars>> /\ closeFile(hpath[h])
  BY DEF Release, FHInv, KernelInv, FHTypeOK
<1>2. Registered(h) /\ OwnersInv
  BY <1>1 DEF Registered, OwnInv
<1>3. PICK k \in 1..Len(firstOpenFile) :
        /\ Hits(hpath[h]) = {k} /\ firstOpenFile[k] \in Listed
        /\ openedPath[firstOpenFile[k]] = hpath[h]
  BY <1>2, OwnHit
<1>4. PICK c : c = firstOpenFile[k]
  OBVIOUS
<1>5. referenceCount[c] = 1 /\ c \in Listed
  BY <1>2, <1>3, <1>4 DEF OwnersInv
<1>6. Unlink(k)
  BY <1>1, <1>3, <1>4, <1>5 DEF closeFile, DropReference
<1>7. Listed' = Listed \ {c} /\ Listed \subseteq Ctxs
  BY <1>4, <1>6, UnlinkList, ListedElements DEF FHInv, ListInv, TypeOK
<1>8. \A d \in Listed' : /\ openedPath'[d] = openedPath[d] /\ memory'[d] = memory[d]
                        /\ referenceCount'[d] = referenceCount[d]
  BY <1>4, <1>6, <1>7 DEF Unlink, Clear, FHInv, ListInv, TypeOK
<1>9. \A g \in Handles \ {h} : Registered(g)' <=> Registered(g)
  BY <1>1 DEF Registered, localVars
<1>10. ~Registered(h)'
  BY <1>1 DEF Registered, Loading, localVars, FHInv, KernelInv, LocalsInv, OpenPcs
<1>11. OwnersInv'
  <2>1. ASSUME NEW d \in Listed', openedPath'[d] \in Alone
        PROVE  /\ referenceCount'[d] = 1
               /\ \E g \in Handles : Registered(g)' /\ openedPath'[d] = hpath'[g]
    <3>1. PICK g \in Handles : Registered(g) /\ openedPath[d] = hpath[g]
      BY <1>2, <1>7, <1>8, <2>1 DEF OwnersInv
    <3>2. g # h
      <4>1. OnePerPath(c, d)
        BY <1>3, <1>4, <1>7, NoTwins
      <4> QED BY <1>3, <1>4, <1>7, <3>1, <4>1 DEF OnePerPath
    <3> QED BY <1>1, <1>2, <1>7, <1>8, <1>9, <2>1, <3>1, <3>2 DEF OwnersInv
  <2>2. ASSUME NEW g \in Handles, Registered(g)', hpath'[g] \in Alone
        PROVE  \E d \in Listed' : openedPath'[d] = hpath'[g] /\ (opened'[g] => memory'[d] # NULL)
    <3>1. g # h /\ Registered(g)
      BY <1>9, <1>10, <2>2
    <3>2. PICK d \in Listed : openedPath[d] = hpath[g] /\ (opened[g] => memory[d] # NULL)
      BY <1>1, <1>2, <2>2, <3>1 DEF OwnersInv
    <3>3. hpath[g] # hpath[h]
      BY <1>1, <1>2, <3>1, PathsDiffer, RegisteredInUse
    <3>4. d \in Listed'
      BY <1>3, <1>4, <1>7, <3>2, <3>3
    <3> QED BY <1>1, <1>8, <3>1, <3>2, <3>4
  <2> QED BY <2>1, <2>2 DEF OwnersInv
<1>12. ServerInv' /\ ProgressInv' /\ EndInv'
  BY <1>1, ReleasedProgress DEF OwnInv, ServerInv, EndInv, localVars
<1> QED BY <1>11, <1>12 DEF OwnInv

\* The release of any other file leaves the files of Alone as they are.
LEMMA ReleaseOwn ==
  ASSUME FHInv, OwnInv, mount = "up", NEW t \in Threads, NEW h \in Handles, Release(t, h)
  PROVE  OwnInv'
<1>1. CASE hpath[h] \in Alone
  BY <1>1, AloneReleased
<1>2. CASE hpath[h] \notin Alone
  <2>1. /\ hstate[h] = "releasing" /\ hpath[h] \in Paths /\ hpath'[h] = NULL
        /\ \A g \in Handles \ {h} : /\ hstate'[g] = hstate[g] /\ hpath'[g] = hpath[g]
                                   /\ opened'[g] = opened[g]
        /\ UNCHANGED <<mount, remote, cache, localVars>> /\ closeFile(hpath[h])
    BY DEF Release, FHInv, KernelInv, FHTypeOK, HandlesApart
  <2>2. \A g \in Handles \ {h} : Registered(g)' <=> Registered(g)
    BY <2>1 DEF Registered, localVars
  <2>3. NULL \notin Alone
    BY FileHandlesAssumption, OpenFileManagerAssumption
  <2>4. OwnersInv'
    BY <1>2, <2>1, <2>2, <2>3, OtherCloseFile, OthersStep DEF OwnInv
  <2>5. ServerInv' /\ ProgressInv' /\ EndInv'
    BY <2>1, ReleasedProgress DEF OwnInv, ServerInv, EndInv, localVars
  <2> QED BY <2>4, <2>5 DEF OwnInv
<1> QED BY <1>1, <1>2

\* What the server lists may change, as long as it lists a blob.
LEMMA UploadOwn ==
  ASSUME Served, FHInv, OwnInv, mount = "up", NEW p \in Paths, Upload(p)
  PROVE  OwnInv'
<1>1. UNCHANGED <<ofmVars, kernelVars, cache, localVars>>
  BY DEF Upload
<1>2. ServerInv'
  BY <1>1, FileHandlesAssumption
     DEF Upload, Served, OwnInv, ServerInv, FHInv, KernelInv, FHTypeOK
<1>3. OwnersInv'
  BY <1>1, SameRegistered, OwnersKept DEF OwnInv, kernelVars, localVars
<1>4. ProgressInv' /\ EndInv'
  BY <1>1 DEF OwnInv, ProgressInv, EndInv, TPath, kernelVars, localVars
<1> QED BY <1>2, <1>3, <1>4 DEF OwnInv

\* A thread forgets its listing.
LEMMA SwitchFolderOwn ==
  ASSUME FHInv, OwnInv, mount = "up", NEW t \in Threads, SwitchFolder(t)
  PROVE  OwnInv'
<1>1. UNCHANGED <<ofmVars, kernelVars, remote, localVars>>
  BY DEF SwitchFolder
<1>2. ServerInv'
  BY <1>1 DEF SwitchFolder, Folder!Drop, OwnInv, ServerInv, FHInv, KernelInv, FHTypeOK
<1>3. OwnersInv'
  BY <1>1, SameRegistered, OwnersKept DEF OwnInv, kernelVars, localVars
<1>4. ProgressInv' /\ EndInv'
  BY <1>1 DEF OwnInv, ProgressInv, EndInv, TPath, kernelVars, localVars, ofmVars
<1> QED BY <1>2, <1>3, <1>4 DEF OwnInv

\* After the unmount nothing is open or running.
LEMMA DestroyOwn ==
  ASSUME FHInv, OwnInv, Destroy
  PROVE  OwnInv'
BY DEF Destroy, closeAllFiles, OwnInv, ServerInv, ProgressInv, EndInv, TPath, localVars

-----------------------------------------------------------------------------
(* The specification keeps it                                              *)

\* Before the first opening nothing is listed.
LEMMA InitOwn ==
  ASSUME Served, FHInit
  PROVE  OwnInv
<1>1. ServerInv
  BY FileHandlesAssumption DEF Served, FHInit, ServerInv
<1>2. OwnersInv
  BY DEF FHInit, Init, OwnersInv, Listed, ToSet, Registered, Loading
<1> QED BY <1>1, <1>2 DEF FHInit, OwnInv, ProgressInv, EndInv

\* Every step keeps the owners.
LEMMA NextOwn ==
  ASSUME Served, FHInv, OwnInv, [FHNext]_vars
  PROVE  OwnInv'
<1>1. CASE UNCHANGED vars
  <2>1. UNCHANGED <<ofmVars, kernelVars, remote, cache, localVars>>
    BY <1>1 DEF vars
  <2>2. mount # "unmounted" => OwnersInv'
    BY <2>1, SameRegistered, OwnersKept DEF OwnInv, kernelVars, localVars
  <2>3. ServerInv' /\ ProgressInv' /\ EndInv'
    BY <2>1 DEF OwnInv, ServerInv, ProgressInv, EndInv, TPath, kernelVars, localVars, ofmVars
  <2> QED BY <2>1, <2>2, <2>3 DEF OwnInv, kernelVars
<1>2. ASSUME mount = "up", NEW t \in Threads, ThreadStep(t) PROVE OwnInv'
  <2>1. CASE OpenStep(t)
    BY <1>2, <2>1, OpenResolveOwn, OpenCheckOwn, OpenRegisterOwn, OpenRequestOwn, OpenStoreOwn
       DEF OpenStep
  <2>2. CASE ReadStep(t)
    BY <1>2, <2>2, ReadResolveOwn, ReadLookupOwn, ReadRegisterOwn, ReadQuietOwn DEF ReadStep
  <2>3. CASE SwitchFolder(t)
    BY <1>2, <2>3, SwitchFolderOwn
  <2>4. CASE \E h \in Handles : Read(t, h) \/ Release(t, h)
    BY <1>2, <2>4, ReadQuietOwn, ReleaseOwn
  <2>5. CASE \E h \in Handles, p \in Paths : Open(t, h, p)
    BY <1>2, <2>5, OpenOwn
  <2>6. CASE Damage(t)
    BY <1>2, <2>6, CrashOwn DEF Damage
  <2> QED BY <1>2, <2>1, <2>2, <2>3, <2>4, <2>5, <2>6 DEF ThreadStep
<1>3. ASSUME mount = "up", NEW h \in Handles, Close(h) PROVE OwnInv'
  BY <1>3, CloseOwn
<1>4. ASSUME mount = "up", NEW p \in Paths, Upload(p) PROVE OwnInv'
  BY <1>4, UploadOwn
<1>5. CASE Destroy
  BY <1>5, DestroyOwn
<1> QED BY <1>1, <1>2, <1>3, <1>4, <1>5 DEF FHNext

\* When listings can be had and memory suffices (Served), each handle in use
\* on a file that one handle uses at a time owns, once registered, one context
\* with one reference, and no context of such a file is without an owner,
\* however openings, reads and releases interleave and however other files are
\* used.
THEOREM OwnInvariant ==
  ASSUME Served
  PROVE  FHSpec => [](FHInv /\ OwnInv)
<1>1. FHInit => FHInv /\ OwnInv
  BY InitFHInv, InitOwn
<1>2. FHInv /\ OwnInv /\ [FHNext]_vars => (FHInv /\ OwnInv)'
  BY NextFHInv, NextOwn
<1> QED BY <1>1, <1>2, PTL DEF FHSpec

\* Under the same conditions a file that is used by one handle at a time and
\* whose opening succeeded keeps its content until its own release, while
\* other files are opened twice and lose their contexts under the handlers that
\* use them.
THEOREM OpenedStaysReadableCorrect ==
  ASSUME Served
  PROVE  FHSpec => []OpenedStaysReadable
<1>1. FHInv /\ OwnInv => OpenedStaysReadable
  <2> SUFFICES ASSUME FHInv, OwnInv, mount = "up", NEW h \in Handles,
                      hstate[h] = "open", opened[h], hpath[h] \in Alone
               PROVE  \E c \in Listed : getFileContext(hpath[h], c) /\ memory[c] # NULL
    BY DEF OpenedStaysReadable
  <2>1. PICK k \in 1..Len(firstOpenFile) :
          /\ Hits(hpath[h]) = {k} /\ firstOpenFile[k] \in Listed
          /\ memory[firstOpenFile[k]] # NULL
    BY OwnHit DEF OwnInv, Registered
  <2>2. FirstHit(hpath[h], k)
    BY <2>1 DEF FirstHit
  <2> QED BY <2>1, <2>2 DEF getFileContext
<1> QED BY <1>1, OwnInvariant, PTL

\* Under the same conditions a read of such a file never registers a context,
\* and copies content.
THEOREM OpenedReadsFindContentCorrect ==
  ASSUME Served
  PROVE  FHSpec => []OpenedReadsFindContent
<1>1. FHInv /\ OwnInv => OpenedReadsFindContent
  <2> SUFFICES ASSUME FHInv, OwnInv, NEW t \in Threads, pc[t] \in ReadPcs, opened[hdl[t]],
                      TPath(t) \in Alone
               PROVE  /\ pc[t] # "read_register"
                      /\ pc[t] = "read_copy" => memory[file[t]] # NULL
    BY DEF OpenedReadsFindContent
  <2>1. /\ hdl[t] \in Handles /\ hstate[hdl[t]] = "open" /\ hpath[hdl[t]] \in Alone
        /\ Registered(hdl[t]) /\ OwnersInv
    BY DEF FHInv, KernelInv, LocalsInv, Registered, OwnInv, EndInv, ReadPcs, TPath
  <2>2. ASSUME pc[t] = "read_copy" PROVE memory[file[t]] # NULL
    <3>1. file[t] \in Listed /\ Matches(hpath[hdl[t]], openedPath[file[t]])
      BY <2>2 DEF FHInv, PointerOK, HoldPcs, TPath
    <3>2. openedPath[file[t]] = hpath[hdl[t]]
      BY <2>1, <3>1, OwnContext
    <3>3. PICK c \in Listed : openedPath[c] = hpath[hdl[t]] /\ memory[c] # NULL
      BY <2>1 DEF OwnersInv
    <3>4. OnePerPath(file[t], c)
      BY <3>1, NoTwins
    <3> QED BY <3>2, <3>3, <3>4 DEF OnePerPath
  <2> QED BY <2>2 DEF OwnInv, ProgressInv
<1> QED BY <1>1, OwnInvariant, PTL

\* Under the same conditions such a file leaves no context behind when its
\* handle has been released.
THEOREM ClosedMeansGoneCorrect ==
  ASSUME Served
  PROVE  FHSpec => []ClosedMeansGone
<1>1. FHInv /\ OwnInv => ClosedMeansGone
  <2> SUFFICES ASSUME FHInv, OwnInv, NEW p \in Alone,
                      \A h \in Handles : hstate[h] # "closed" => hpath[h] # p,
                      NEW c \in Listed, openedPath[c] = p
               PROVE  FALSE
    BY DEF ClosedMeansGone
  <2>1. mount # "unmounted"
    BY DEF OwnInv, EndInv, Listed, ToSet
  <2>2. PICK h \in Handles : Registered(h) /\ openedPath[c] = hpath[h]
    BY <2>1 DEF OwnInv, OwnersInv
  <2> QED BY <2>2, RegisteredInUse
<1> QED BY <1>1, OwnInvariant, PTL
=============================================================================
