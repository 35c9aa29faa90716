-------------------------- MODULE PathCache_proofs --------------------------
(***************************************************************************)
(* Proofs about PathCache, for any number of threads, folders and names,   *)
(* any listings and every failure.                                         *)
(*                                                                         *)
(* The inductive invariant says what a handler knows at each of its steps  *)
(* (LocalOK), that a cached tree belongs to one thread, is of the folder   *)
(* its path names and has its references in order (TreeOK), and that a     *)
(* tree in no cache is free (FreeOK).                                      *)
(***************************************************************************)
EXTENDS PathCache, FiniteSetTheorems, TLAPS

LocalOK(t) ==
  /\ pc[t] # "idle" => dir[t] \in Folders
  /\ pc[t] = "load" => /\ answer[t] \in [from : Folders, list : AnyList]
                       /\ answer[t].from \in {dir[t], Root}
                       /\ OfFolder(answer[t].list, answer[t].from)
  /\ pc[t] \in {"fetch", "load"} => path[t] = dir[t] /\ root[t] = NULL
  /\ pc[t] \in {"search", "walk", "use"} => path[t] = dir[t] /\ root[t] # NULL
  /\ pc[t] = "search" => name[t] # NULL
  /\ pc[t] # "use" => held[t] = NULL
  /\ pc[t] = "use" => \E i \in DOMAIN elems[root[t]] : held[t] = <<root[t], i>>

TreeOK(t) ==
  root[t] # NULL =>
    /\ treeRefs[root[t]] = 1
    /\ \A u \in Threads : root[u] = root[t] => u = t
    /\ path[t] # NULL => OfFolder(elems[root[t]], path[t])
    /\ \A i \in DOMAIN elems[root[t]] :
         refs[root[t]][i] = IF held[t] = <<root[t], i>> THEN 2 ELSE 1

FreeOK(j) ==
  (\A t \in Threads : root[t] # j) =>
    treeRefs[j] = 0 /\ \A i \in DOMAIN elems[j] : refs[j][i] = 0

RemoteOK == \A d \in Folders : remote[d] \in Listings[d]

CacheInv ==
  /\ TypeOK
  /\ RemoteOK
  /\ \A t \in Threads : LocalOK(t)
  /\ \A t \in Threads : TreeOK(t)
  /\ \A j \in Trees : FreeOK(j)

-----------------------------------------------------------------------------
\* The listings a folder can have are lists of entries of that folder.
LEMMA ListingsTyped ==
  ASSUME NEW d \in Folders, NEW l \in Listings[d], l # NULL
  PROVE  l \in AnyList /\ OfFolder(l, d)
<1>1. Listings[d] \subseteq AnyList \cup {NULL}
  BY PathCacheAssumption DEF AnyList
<1>2. l \in Seq(Entry(d))
  BY PathCacheAssumption
<1>3. \A i \in DOMAIN l : l[i] \in Entry(d)
  BY <1>2
<1> QED
  BY <1>1, <1>3 DEF OfFolder, Entry

\* The body of an answer is a list of entries of the folder it is about.
LEMMA BodyTyped ==
  ASSUME TypeOK, RemoteOK, NEW d \in Folders
  PROVE  Body(d) \in AnyList /\ OfFolder(Body(d), d)
<1>1. << >> \in AnyList /\ OfFolder(<< >>, d)
  BY DEF AnyList, OfFolder
<1> QED
  BY <1>1, ListingsTyped DEF RemoteOK, Body

\* Before the first request nothing is cached and no tree exists.
LEMMA InitInv == Init => CacheInv
<1> SUFFICES ASSUME Init PROVE CacheInv
  OBVIOUS
<1>1. RemoteOK
  BY DEF Init, RemoteOK
<1>2. remote \in [Folders -> AnyList \cup {NULL}]
  <2>1. \A d \in Folders : remote[d] \in AnyList \cup {NULL}
    BY <1>1, ListingsTyped DEF RemoteOK
  <2>2. remote = [d \in Folders |-> remote[d]]
    BY DEF Init
  <2> QED
    BY <2>1, <2>2
<1>3. << >> \in AnyList /\ DOMAIN << >> = {}
  BY DEF AnyList
<1>4. TypeOK
  BY <1>2, <1>3 DEF Init, TypeOK, Pcs
<1>5. \A t \in Threads : LocalOK(t) /\ TreeOK(t)
  BY DEF Init, LocalOK, TreeOK
<1>6. \A j \in Trees : FreeOK(j)
  BY <1>3 DEF Init, FreeOK
<1> QED
  BY <1>1, <1>4, <1>5, <1>6 DEF CacheInv

\* A step that leaves listings, trees and held entries alone leaves them in
\* order.
LEMMA TreesQuiet ==
  ASSUME CacheInv, UNCHANGED <<cacheVars, heapVars>>,
         \A t \in Threads : held'[t] = held[t]
  PROVE  /\ \A t \in Threads : TreeOK(t)'
         /\ \A j \in Trees : FreeOK(j)'
  BY DEF CacheInv, TreeOK, FreeOK, cacheVars, heapVars, OfFolder

\* What a thread knows survives a step that changes neither its own variables
\* nor the entries of its tree.
LEMMA OtherLocal ==
  ASSUME NEW u \in Threads, LocalOK(u),
         pc'[u] = pc[u], dir'[u] = dir[u], name'[u] = name[u],
         answer'[u] = answer[u], held'[u] = held[u],
         path'[u] = path[u], root'[u] = root[u],
         root[u] # NULL => elems'[root[u]] = elems[root[u]]
  PROVE  LocalOK(u)'
  BY DEF LocalOK, OfFolder

\* A handler that returns knows nothing.
LEMMA LeaveLocal ==
  ASSUME TypeOK, NEW t \in Threads, Leave(t)
  PROVE  LocalOK(t)'
  BY DEF Leave, Goto, LocalOK, TypeOK

\* The types of what returning handlers and moving handlers leave behind.
LEMMA LeaveTyped ==
  ASSUME TypeOK, NEW t \in Threads, Leave(t)
  PROVE  /\ pc' \in [Threads -> Pcs]
         /\ dir' \in [Threads -> Folders \cup {NULL}]
         /\ name' \in [Threads -> Names \cup {NULL}]
         /\ answer' \in [Threads -> [from : Folders, list : AnyList] \cup {NULL}]
         /\ held' \in [Threads -> (Trees \X Nat) \cup {NULL}]
  BY DEF TypeOK, Leave, Goto, Pcs

\* A returning handler touches the variables of no other thread.
LEMMA LeaveOthers ==
  ASSUME TypeOK, NEW t \in Threads, Leave(t), NEW u \in Threads, u # t
  PROVE  /\ pc'[u] = pc[u] /\ dir'[u] = dir[u] /\ name'[u] = name[u]
         /\ answer'[u] = answer[u] /\ held'[u] = held[u]
  BY DEF TypeOK, Leave, Goto

\* A handler that returns without having touched listings or trees.
LEMMA QuietLeave ==
  ASSUME CacheInv, NEW t \in Threads, Leave(t), pc[t] # "use",
         UNCHANGED <<mount, remote, cacheVars, heapVars>>
  PROVE  CacheInv'
<1>1. TypeOK /\ LocalOK(t)
  BY DEF CacheInv
<1>2. \A u \in Threads : held'[u] = held[u]
  <2>1. held'[t] = held[t]
    BY <1>1 DEF Leave, LocalOK, TypeOK
  <2> QED
    BY <1>1, <2>1, LeaveOthers
<1>3. TypeOK'
  BY <1>1, LeaveTyped DEF TypeOK, cacheVars, heapVars
<1>4. \A u \in Threads : LocalOK(u)'
  <2>1. ASSUME NEW u \in Threads, u # t PROVE LocalOK(u)'
    BY <1>1, <2>1, LeaveOthers, OtherLocal DEF CacheInv, cacheVars, heapVars
  <2> QED
    BY <1>1, <2>1, LeaveLocal
<1>5. RemoteOK'
  BY DEF CacheInv, RemoteOK
<1> QED
  BY <1>2, <1>3, <1>4, <1>5, TreesQuiet DEF CacheInv

\* A handler that moves on without having touched listings or trees.
LEMMA QuietMove ==
  ASSUME CacheInv, NEW t \in Threads, NEW l \in Pcs, l # "use", pc[t] # "use",
         Goto(t, l),
         \A u \in Threads \ {t} :
           dir'[u] = dir[u] /\ name'[u] = name[u] /\ answer'[u] = answer[u],
         dir' \in [Threads -> Folders \cup {NULL}],
         name' \in [Threads -> Names \cup {NULL}],
         answer' \in [Threads -> [from : Folders, list : AnyList] \cup {NULL}],
         UNCHANGED <<held, mount, remote, cacheVars, heapVars>>,
         LocalOK(t)'
  PROVE  CacheInv'
<1>1. TypeOK
  BY DEF CacheInv
<1>2. pc' \in [Threads -> Pcs] /\ \A u \in Threads : u # t => pc'[u] = pc[u]
  BY <1>1 DEF Goto, TypeOK
<1>3. TypeOK'
  BY <1>1, <1>2 DEF TypeOK, cacheVars, heapVars
<1>4. \A u \in Threads : LocalOK(u)'
  <2>1. ASSUME NEW u \in Threads, u # t PROVE LocalOK(u)'
    BY <1>2, <2>1, OtherLocal DEF CacheInv, cacheVars, heapVars
  <2> QED
    BY <2>1
<1>5. RemoteOK'
  BY DEF CacheInv, RemoteOK
<1> QED
  BY <1>3, <1>4, <1>5, TreesQuiet DEF CacheInv

-----------------------------------------------------------------------------
(* The actions that leave the trees alone                                  *)

\* A request arrives.
LEMMA BeginInv ==
  ASSUME CacheInv, NEW t \in Threads, Begin(t)
  PROVE  CacheInv'
<1>1. PICK d \in Folders : dir' = [dir EXCEPT ![t] = d]
  BY DEF Begin
<1>2. PICK n \in Names \cup {NULL} : name' = [name EXCEPT ![t] = n]
  BY DEF Begin
<1>3. TypeOK /\ LocalOK(t)
  BY DEF CacheInv
<1>4. LocalOK(t)'
  BY <1>1, <1>3 DEF Begin, Goto, LocalOK, TypeOK
<1>5. "update" \in Pcs
  BY DEF Pcs
<1>6. \A u \in Threads \ {t} :
        dir'[u] = dir[u] /\ name'[u] = name[u] /\ answer'[u] = answer[u]
  BY <1>1, <1>2, <1>3 DEF Begin, TypeOK
<1> QED
  BY <1>1, <1>2, <1>3, <1>4, <1>5, <1>6, QuietMove DEF Begin, TypeOK

\* A request whose folder is the cached one goes on with the cached tree.
LEMMA HitInv ==
  ASSUME CacheInv, NEW t \in Threads, pc[t] = "update", Cached(t),
         Goto(t, Caller(t)),
         UNCHANGED <<mount, remote, cacheVars, heapVars, dir, name, answer,
                     held>>
  PROVE  CacheInv'
<1>1. TypeOK /\ LocalOK(t)
  BY DEF CacheInv
<1>2. Caller(t) \in {"walk", "search"} /\ Caller(t) \in Pcs
  BY DEF Caller, Pcs
<1>3. LocalOK(t)'
  BY <1>1, <1>2 DEF Goto, LocalOK, TypeOK, Cached, Slot, Caller, cacheVars
<1> QED
  BY <1>1, <1>2, <1>3, QuietMove DEF TypeOK

\* The server answers, or does not.
LEMMA FetchInv ==
  ASSUME CacheInv, NEW t \in Threads, Fetch(t)
  PROVE  CacheInv'
<1>1. TypeOK /\ LocalOK(t) /\ RemoteOK
  BY DEF CacheInv
<1>2. ASSUME NEW d \in {dir[t], Root},
             answer' = [answer EXCEPT ![t] = [from |-> d, list |-> Body(d)]],
             Goto(t, "load"),
             UNCHANGED <<mount, dir, name, held>>
      PROVE  CacheInv'
  <2>1. d \in Folders
    BY <1>1, <1>2, PathCacheAssumption DEF Fetch, LocalOK
  <2>2. Body(d) \in AnyList /\ OfFolder(Body(d), d)
    BY <1>1, <2>1, BodyTyped
  <2>3. answer' \in [Threads -> [from : Folders, list : AnyList] \cup {NULL}]
    BY <1>1, <1>2, <2>1, <2>2 DEF TypeOK
  <2>4. answer'[t] = [from |-> d, list |-> Body(d)]
    BY <1>1, <1>2 DEF TypeOK
  <2>5. answer'[t] \in [from : Folders, list : AnyList]
    BY <2>1, <2>2, <2>4
  <2>6. LocalOK(t)'
    BY <1>1, <1>2, <2>2, <2>4, <2>5
       DEF Fetch, Goto, LocalOK, TypeOK, cacheVars, OfFolder
  <2>7. \A u \in Threads \ {t} : answer'[u] = answer[u]
    BY <1>1, <1>2 DEF TypeOK
  <2>8. "load" \in Pcs
    BY DEF Pcs
  <2> QED
    BY <1>1, <1>2, <2>3, <2>6, <2>7, <2>8, QuietMove DEF Fetch, TypeOK
<1>3. CASE Leave(t) /\ UNCHANGED mount
  BY <1>3, QuietLeave DEF Fetch
<1>4. CASE mount' = "crashed" /\ UNCHANGED localVars
  <2>1. TypeOK'
    BY <1>1, <1>4 DEF TypeOK, Fetch, localVars, cacheVars, heapVars
  <2>2. \A u \in Threads : LocalOK(u)'
    BY <1>4, OtherLocal DEF CacheInv, Fetch, localVars, cacheVars, heapVars
  <2>3. RemoteOK'
    BY <1>1 DEF RemoteOK, Fetch
  <2> QED
    BY <1>4, <2>1, <2>2, <2>3, TreesQuiet DEF CacheInv, Fetch, localVars
<1> QED
  BY <1>2, <1>3, <1>4 DEF Fetch

\* loadDir() passes a listing on.
LEMMA WalkInv ==
  ASSUME CacheInv, NEW t \in Threads, Walk(t)
  PROVE  CacheInv'
  BY QuietLeave DEF Walk

\* A folder changes on the server.
LEMMA UploadInv ==
  ASSUME CacheInv, NEW d \in Folders, Upload(d)
  PROVE  CacheInv'
<1>1. PICK l \in Listings[d] : remote' = [remote EXCEPT ![d] = l]
  BY DEF Upload
<1>2. TypeOK /\ RemoteOK
  BY DEF CacheInv
<1>3. l \in AnyList \cup {NULL}
  BY ListingsTyped
<1>4. TypeOK'
  BY <1>1, <1>2, <1>3 DEF TypeOK, Upload, cacheVars, heapVars, localVars
<1>5. RemoteOK'
  BY <1>1, <1>2 DEF RemoteOK, TypeOK
<1>6. \A u \in Threads : LocalOK(u)'
  BY OtherLocal DEF CacheInv, Upload, localVars, cacheVars, heapVars
<1> QED
  BY <1>4, <1>5, <1>6, TreesQuiet DEF CacheInv, Upload, localVars

-----------------------------------------------------------------------------
(* The actions that change the trees                                       *)

\* json_decref() of thread t's tree leaves the other trees in order and the
\* address free, when nobody holds an entry of it.
LEMMA TreesDropped ==
  ASSUME CacheInv, NEW t \in Threads, held[t] = NULL,
         DecrefTree(root[t]), root' = [root EXCEPT ![t] = NULL],
         \A u \in Threads : held'[u] = held[u],
         \A u \in Threads : u # t => path'[u] = path[u]
  PROVE  /\ \A u \in Threads : TreeOK(u)'
         /\ \A j \in Trees : FreeOK(j)'
         /\ elems' = elems
         /\ treeRefs' \in [Trees -> Nat] /\ root' \in [Threads -> Trees \cup {NULL}]
         /\ DOMAIN refs' = Trees
         /\ \A j \in Trees : refs'[j] \in [DOMAIN elems'[j] -> Nat]
<1>1. TypeOK /\ TreeOK(t) /\ NULL \notin Trees
  BY PathCacheAssumption DEF CacheInv
<1>2. /\ root'[t] = NULL /\ root' \in [Threads -> Trees \cup {NULL}]
      /\ \A u \in Threads : u # t => root'[u] = root[u]
  BY <1>1 DEF TypeOK
<1>3. CASE root[t] = NULL
  <2>1. UNCHANGED heapVars /\ \A u \in Threads : root'[u] = root[u]
    BY <1>2, <1>3 DEF DecrefTree
  <2>2. \A u \in Threads : TreeOK(u)'
    BY <1>2, <1>3, <2>1 DEF CacheInv, TreeOK, heapVars, OfFolder
  <2>3. \A j \in Trees : FreeOK(j)'
    BY <1>2, <1>3, <2>1 DEF CacheInv, FreeOK, heapVars
  <2> QED
    BY <1>1, <1>2, <2>1, <2>2, <2>3 DEF TypeOK, heapVars
<1>4. CASE root[t] # NULL
  <2> DEFINE r == root[t]
  <2>1. r \in Trees /\ treeRefs[r] = 1
        /\ \A i \in DOMAIN elems[r] : refs[r][i] = 1
    <3>1. root[t] \in Trees /\ elems[root[t]] \in AnyList
      BY <1>1, <1>4 DEF TypeOK
    <3>2. \A i \in DOMAIN elems[root[t]] : held[t] # <<root[t], i>>
      <4>1. \A i \in DOMAIN elems[root[t]] : <<root[t], i>> \in Trees \X Nat
        BY <3>1 DEF AnyList
      <4> QED
        BY <4>1, PathCacheAssumption
    <3> QED
      BY <1>1, <1>4, <3>1, <3>2 DEF TreeOK
  <2>2. /\ treeRefs' = [treeRefs EXCEPT ![r] = @ - 1]
        /\ refs' = [refs EXCEPT ![r] = [i \in DOMAIN @ |-> @[i] - 1]]
        /\ elems' = elems
    BY <1>4 DEF DecrefTree
  <2>3. /\ treeRefs'[r] = 0 /\ DOMAIN refs' = Trees
        /\ \A i \in DOMAIN elems[r] : refs'[r][i] = 0
        /\ refs'[r] \in [DOMAIN elems[r] -> Nat]
    BY <1>1, <2>1, <2>2 DEF TypeOK
  <2>4. \A j \in Trees : j # r => treeRefs'[j] = treeRefs[j] /\ refs'[j] = refs[j]
    BY <1>1, <2>2 DEF TypeOK
  <2>5. \A u \in Threads : u # t => root[u] # r
    BY <1>1, <1>4 DEF TreeOK
  <2>6. ASSUME NEW u \in Threads PROVE TreeOK(u)'
    <3>1. CASE u = t
      BY <1>2, <3>1 DEF TreeOK
    <3>2. CASE u # t /\ root[u] # NULL
      <4>1. /\ root[u] \in Trees /\ root[u] # r
            /\ root'[u] = root[u] /\ path'[u] = path[u] /\ held'[u] = held[u]
            /\ treeRefs'[root[u]] = treeRefs[root[u]]
            /\ refs'[root[u]] = refs[root[u]]
            /\ elems'[root[u]] = elems[root[u]]
        BY <1>1, <1>2, <2>2, <2>4, <2>5, <3>2 DEF TypeOK
      <4>2. \A v \in Threads : root'[v] = root[u] => root[v] = root[u]
        BY <1>2, <3>2
      <4>3. TreeOK(u) /\ root[u] # NULL
        BY <3>2 DEF CacheInv
      <4>4. path'[u] # NULL => OfFolder(elems[root[u]], path[u])'
        BY <4>1, <4>3 DEF TreeOK, OfFolder
      <4>5. \A i \in DOMAIN elems'[root'[u]] :
              refs'[root'[u]][i] = IF held'[u] = <<root'[u], i>> THEN 2 ELSE 1
        BY <4>1, <4>3 DEF TreeOK
      <4>6. treeRefs'[root'[u]] = 1 /\ \A v \in Threads : root'[v] = root'[u] => v = u
        BY <4>1, <4>2, <4>3 DEF TreeOK
      <4> QED
        BY <4>1, <4>4, <4>5, <4>6 DEF TreeOK
    <3>3. CASE u # t /\ root[u] = NULL
      BY <1>2, <3>3 DEF TreeOK
    <3> QED
      BY <3>1, <3>2, <3>3
  <2>7. ASSUME NEW j \in Trees PROVE FreeOK(j)'
    <3>1. CASE j = r
      BY <2>2, <2>3, <3>1 DEF FreeOK
    <3>2. CASE j # r
      <4>1. (\A u \in Threads : root'[u] # j) => (\A u \in Threads : root[u] # j)
        BY <1>2, <3>2
      <4>2. FreeOK(j)
        BY DEF CacheInv
      <4> QED
        BY <2>2, <2>4, <3>2, <4>1, <4>2 DEF FreeOK
    <3> QED
      BY <3>1, <3>2
  <2>8. treeRefs' \in [Trees -> Nat]
    BY <1>1, <2>1, <2>2 DEF TypeOK
  <2>9. \A j \in Trees : refs'[j] \in [DOMAIN elems'[j] -> Nat]
    BY <1>1, <2>2, <2>3, <2>4 DEF TypeOK
  <2> QED
    BY <1>2, <2>2, <2>3, <2>6, <2>7, <2>8, <2>9
<1> QED
  BY <1>3, <1>4

\* The path is replaced and the old tree dropped.
LEMMA StartFetchInv ==
  ASSUME CacheInv, NEW t \in Threads, pc[t] = "update", StartFetch(t),
         UNCHANGED <<mount, remote>>
  PROVE  CacheInv'
<1>1. TypeOK /\ LocalOK(t) /\ RemoteOK
  BY DEF CacheInv
<1>2. /\ path' = [path EXCEPT ![t] = dir[t]]
      /\ root' = [root EXCEPT ![t] = NULL]
      /\ DecrefTree(root[t])
      /\ pc' = [pc EXCEPT ![t] = "fetch"]
      /\ UNCHANGED <<dir, name, answer, held>>
  BY DEF StartFetch, Slot, Goto
<1>3. dir[t] \in Folders /\ held[t] = NULL /\ "fetch" \in Pcs
  BY <1>1 DEF LocalOK, Pcs
<1>4. \A u \in Threads : u # t => path'[u] = path[u] /\ root'[u] = root[u]
                                 /\ pc'[u] = pc[u]
  BY <1>1, <1>2 DEF TypeOK
<1>5. /\ \A u \in Threads : TreeOK(u)'
      /\ \A j \in Trees : FreeOK(j)'
      /\ elems' = elems
      /\ treeRefs' \in [Trees -> Nat] /\ root' \in [Threads -> Trees \cup {NULL}]
      /\ DOMAIN refs' = Trees
      /\ \A j \in Trees : refs'[j] \in [DOMAIN elems'[j] -> Nat]
  BY <1>2, <1>3, <1>4, TreesDropped
<1>6. TypeOK'
  BY <1>1, <1>2, <1>3, <1>5 DEF TypeOK
<1>7. LocalOK(t)'
  BY <1>1, <1>2, <1>3 DEF LocalOK, TypeOK
<1>8. \A u \in Threads : u # t => LocalOK(u)'
  BY <1>2, <1>4, <1>5, OtherLocal DEF CacheInv
<1>9. RemoteOK'
  BY <1>1 DEF RemoteOK
<1> QED
  BY <1>5, <1>6, <1>7, <1>8, <1>9 DEF CacheInv

\* The path is lost for want of memory; the tree stays, under no path.
LEMMA PathLostInv ==
  ASSUME CacheInv, NEW t \in Threads, pc[t] = "update", Leave(t),
         path' = [path EXCEPT ![t] = NULL],
         UNCHANGED <<mount, remote, root, heapVars>>
  PROVE  CacheInv'
<1>1. TypeOK /\ LocalOK(t) /\ RemoteOK
  BY DEF CacheInv
<1>2. \A u \in Threads : held'[u] = held[u]
  <2>1. held'[t] = held[t]
    BY <1>1 DEF Leave, LocalOK, TypeOK
  <2> QED
    BY <1>1, <2>1, LeaveOthers
<1>3. path'[t] = NULL /\ \A u \in Threads : u # t => path'[u] = path[u]
  BY <1>1 DEF TypeOK
<1>4. TypeOK'
  BY <1>1, LeaveTyped DEF TypeOK, heapVars
<1>5. ASSUME NEW u \in Threads PROVE LocalOK(u)' /\ TreeOK(u)'
  <2>1. LocalOK(u)'
    BY <1>1, <1>3, LeaveOthers, LeaveLocal, OtherLocal DEF CacheInv, heapVars
  <2>2. TreeOK(u)'
    BY <1>2, <1>3 DEF CacheInv, TreeOK, heapVars, OfFolder
  <2> QED
    BY <2>1, <2>2
<1>6. \A j \in Trees : FreeOK(j)'
  BY DEF CacheInv, FreeOK, heapVars
<1>7. RemoteOK'
  BY <1>1 DEF RemoteOK
<1> QED
  BY <1>4, <1>5, <1>6, <1>7 DEF CacheInv

\* updatePathInfo() up to the request.
LEMMA UpdateInv ==
  ASSUME CacheInv, NEW t \in Threads, Update(t)
  PROVE  CacheInv'
<1>1. CASE Cached(t) /\ Goto(t, Caller(t))
           /\ UNCHANGED <<cacheVars, heapVars, dir, name, answer, held>>
  BY <1>1, HitInv DEF Update
<1>2. CASE StartFetch(t)
  BY <1>2, StartFetchInv DEF Update
<1>3. CASE path' = [path EXCEPT ![Slot(t)] = NULL] /\ Leave(t)
           /\ UNCHANGED <<root, heapVars>>
  BY <1>3, PathLostInv DEF Update, Slot
<1>4. CASE Leave(t) /\ UNCHANGED <<cacheVars, heapVars>>
  BY <1>4, QuietLeave DEF Update
<1> QED
  BY <1>1, <1>2, <1>3, <1>4 DEF Update

\* A thread ends.
LEMMA ThreadExitInv ==
  ASSUME CacheInv, NEW t \in Threads, pc[t] = "idle",
         DecrefTree(root[t]),
         root' = [root EXCEPT ![t] = NULL],
         path' = [path EXCEPT ![t] = NULL],
         mount' \in {"up", "unmounted"},
         UNCHANGED <<remote, localVars>>
  PROVE  CacheInv'
<1>1. TypeOK /\ LocalOK(t) /\ RemoteOK
  BY DEF CacheInv
<1>2. held[t] = NULL
  BY <1>1 DEF LocalOK
<1>3. \A u \in Threads : u # t => path'[u] = path[u] /\ root'[u] = root[u]
  BY <1>1 DEF TypeOK
<1>4. /\ \A u \in Threads : TreeOK(u)'
      /\ \A j \in Trees : FreeOK(j)'
      /\ elems' = elems
      /\ treeRefs' \in [Trees -> Nat] /\ root' \in [Threads -> Trees \cup {NULL}]
      /\ DOMAIN refs' = Trees
      /\ \A j \in Trees : refs'[j] \in [DOMAIN elems'[j] -> Nat]
  BY <1>2, <1>3, TreesDropped DEF localVars
<1>5. TypeOK'
  BY <1>1, <1>4 DEF TypeOK, localVars
<1>6. LocalOK(t)'
  BY <1>1 DEF LocalOK, localVars
<1>7. \A u \in Threads : u # t => LocalOK(u)'
  BY <1>3, <1>4, OtherLocal DEF CacheInv, localVars
<1>8. RemoteOK'
  BY <1>1 DEF RemoteOK
<1> QED
  BY <1>4, <1>5, <1>6, <1>7, <1>8 DEF CacheInv

\* The answer becomes the thread's tree.
LEMMA AcceptInv ==
  ASSUME CacheInv, NEW t \in Threads, pc[t] = "load",
         Belongs(dir[t], answer[t].list),
         NEW j \in Trees, NewTree(j, answer[t].list),
         root' = [root EXCEPT ![t] = j],
         Goto(t, Caller(t)), answer' = [answer EXCEPT ![t] = NULL],
         UNCHANGED <<dir, name, held, mount, remote, path>>
  PROVE  CacheInv'
<1> DEFINE l == answer[t].list
<1>1. TypeOK /\ LocalOK(t) /\ RemoteOK
  BY DEF CacheInv
<1>2. /\ l \in AnyList /\ OfFolder(l, dir[t])
      /\ dir[t] \in Folders /\ path[t] = dir[t] /\ root[t] = NULL
      /\ held[t] = NULL
  <2>1. answer[t].from = dir[t] \/ dir[t] = Root \/ \A i \in DOMAIN l : l[i].path = Root
    BY <1>1 DEF LocalOK, OfFolder
  <2>2. OfFolder(l, dir[t])
    BY <1>1, <2>1 DEF LocalOK, OfFolder, Belongs
  <2> QED
    BY <1>1, <2>2 DEF LocalOK
<1>3. NULL \notin Trees
  BY PathCacheAssumption
<1>4. \A u \in Threads : root[u] # j
  <2>1. treeRefs[j] = 0
    BY DEF NewTree
  <2>2. ASSUME NEW u \in Threads, root[u] = j PROVE FALSE
    BY <1>3, <2>1, <2>2 DEF CacheInv, TreeOK
  <2> QED
    BY <2>2
<1>5. /\ elems'[j] = l /\ treeRefs'[j] = 1
      /\ DOMAIN refs' = Trees
      /\ refs'[j] \in [DOMAIN l -> Nat]
      /\ \A i \in DOMAIN l : refs'[j][i] = 1
      /\ elems' \in [Trees -> AnyList] /\ treeRefs' \in [Trees -> Nat]
  BY <1>1, <1>2 DEF NewTree, TypeOK
<1>6. \A k \in Trees : k # j => /\ elems'[k] = elems[k]
                                /\ treeRefs'[k] = treeRefs[k]
                                /\ refs'[k] = refs[k]
  BY <1>1 DEF NewTree, TypeOK
<1>7. /\ root'[t] = j /\ root' \in [Threads -> Trees \cup {NULL}]
      /\ \A u \in Threads : u # t => root'[u] = root[u]
  BY <1>1 DEF TypeOK
<1>8. Caller(t) \in {"walk", "search"} /\ Caller(t) \in Pcs
  BY DEF Caller, Pcs
<1>9. /\ pc'[t] = Caller(t) /\ pc' \in [Threads -> Pcs]
      /\ \A u \in Threads : u # t => pc'[u] = pc[u] /\ answer'[u] = answer[u]
      /\ answer' \in [Threads -> [from : Folders, list : AnyList] \cup {NULL}]
  BY <1>1, <1>8 DEF TypeOK, Goto
<1>10. TypeOK'
  <2>1. \A k \in Trees : refs'[k] \in [DOMAIN elems'[k] -> Nat]
    BY <1>1, <1>5, <1>6 DEF TypeOK
  <2> QED
    BY <1>1, <1>5, <1>7, <1>9, <2>1 DEF TypeOK
<1>11. LocalOK(t)'
  BY <1>1, <1>2, <1>3, <1>7, <1>8, <1>9 DEF LocalOK, Caller
<1>12. \A u \in Threads : u # t => LocalOK(u)'
  <2>1. ASSUME NEW u \in Threads, u # t PROVE LocalOK(u)'
    <3>1. root[u] # NULL => elems'[root[u]] = elems[root[u]]
      BY <1>1, <1>4, <1>6 DEF TypeOK
    <3> QED
      BY <1>7, <1>9, <2>1, <3>1, OtherLocal DEF CacheInv
  <2> QED
    BY <2>1
<1>13. TreeOK(t)'
  <2>1. \A i \in DOMAIN l : held[t] # <<j, i>>
    <3>1. \A i \in DOMAIN l : <<j, i>> \in Trees \X Nat
      BY <1>2 DEF AnyList
    <3> QED
      BY <1>2, <3>1, PathCacheAssumption
  <2>2. \A u \in Threads : root'[u] = j => u = t
    BY <1>4, <1>7
  <2> QED
    BY <1>2, <1>5, <1>7, <2>1, <2>2 DEF TreeOK
<1>14. ASSUME NEW u \in Threads, u # t PROVE TreeOK(u)'
  <2>1. CASE root[u] = NULL
    BY <1>7, <1>14, <2>1 DEF TreeOK
  <2>2. CASE root[u] # NULL
    <3>1. /\ root[u] \in Trees /\ root[u] # j /\ root'[u] = root[u]
          /\ treeRefs'[root[u]] = treeRefs[root[u]]
          /\ refs'[root[u]] = refs[root[u]]
          /\ elems'[root[u]] = elems[root[u]]
      BY <1>1, <1>4, <1>6, <1>7, <1>14, <2>2 DEF TypeOK
    <3>2. TreeOK(u)
      BY DEF CacheInv
    <3>3. path'[u] # NULL => OfFolder(elems[root[u]], path[u])'
      BY <2>2, <3>1, <3>2 DEF TreeOK, OfFolder
    <3>4. \A i \in DOMAIN elems'[root'[u]] :
            refs'[root'[u]][i] = IF held'[u] = <<root'[u], i>> THEN 2 ELSE 1
      BY <2>2, <3>1, <3>2 DEF TreeOK
    <3>5. treeRefs'[root'[u]] = 1 /\ \A v \in Threads : root'[v] = root'[u] => v = u
      BY <1>7, <2>2, <3>1, <3>2 DEF TreeOK
    <3> QED
      BY <3>1, <3>3, <3>4, <3>5 DEF TreeOK
  <2> QED
    BY <2>1, <2>2
<1>15. ASSUME NEW k \in Trees PROVE FreeOK(k)'
  <2>1. CASE k = j
    BY <1>7, <2>1 DEF FreeOK
  <2>2. CASE k # j
    <3>1. (\A u \in Threads : root'[u] # k) => (\A u \in Threads : root[u] # k)
      BY <1>2, <1>3, <1>7
    <3>2. FreeOK(k)
      BY DEF CacheInv
    <3> QED
      BY <1>6, <2>2, <3>1, <3>2 DEF FreeOK
  <2> QED
    BY <2>1, <2>2
<1>16. RemoteOK'
  BY <1>1 DEF RemoteOK
<1> QED
  BY <1>10, <1>11, <1>12, <1>13, <1>14, <1>15, <1>16 DEF CacheInv

\* json_loadb() and the sanity check.
LEMMA LoadInv ==
  ASSUME CacheInv, NEW t \in Threads, Load(t)
  PROVE  CacheInv'
<1>1. TypeOK /\ LocalOK(t)
  BY DEF CacheInv
<1>2. ASSUME Belongs(dir[t], answer[t].list),
             NEW j \in Trees, NewTree(j, answer[t].list),
             root' = [root EXCEPT ![Slot(t)] = j],
             Goto(t, Caller(t)), answer' = [answer EXCEPT ![t] = NULL],
             UNCHANGED <<dir, name, held>>
      PROVE  CacheInv'
  BY <1>2, AcceptInv DEF Load, Slot
<1>3. CASE root' = [root EXCEPT ![Slot(t)] = NULL] /\ Leave(t)
           /\ UNCHANGED heapVars
  <2>1. root[t] = NULL
    BY <1>1 DEF Load, LocalOK
  <2>2. root' = root
    BY <1>1, <1>3, <2>1 DEF Slot, TypeOK
  <2> QED
    BY <1>3, <2>2, QuietLeave DEF Load, cacheVars
<1> QED
  BY <1>2, <1>3 DEF Load

-----------------------------------------------------------------------------
(* The actions that change the references of an entry                      *)

\* A thread changes the references of an entry of its own tree, and what it
\* holds, together.
LEMMA EntryChanged ==
  ASSUME CacheInv, NEW t \in Threads, root[t] # NULL,
         DOMAIN refs' = Trees,
         refs'[root[t]] \in [DOMAIN elems[root[t]] -> Nat],
         \A j \in Trees : j # root[t] => refs'[j] = refs[j],
         UNCHANGED <<elems, treeRefs, cacheVars>>,
         \A u \in Threads : u # t => held'[u] = held[u],
         \A k \in DOMAIN elems[root[t]] :
           refs'[root[t]][k] = IF held'[t] = <<root[t], k>> THEN 2 ELSE 1
  PROVE  /\ \A u \in Threads : TreeOK(u)'
         /\ \A j \in Trees : FreeOK(j)'
         /\ DOMAIN refs' = Trees
         /\ \A j \in Trees : refs'[j] \in [DOMAIN elems'[j] -> Nat]
<1> DEFINE r == root[t]
<1>1. TypeOK /\ TreeOK(t) /\ r \in Trees
  BY DEF CacheInv, TypeOK
<1>2. /\ DOMAIN refs' = Trees
      /\ refs'[r] \in [DOMAIN elems[r] -> Nat]
      /\ \A j \in Trees : j # r => refs'[j] = refs[j]
  OBVIOUS
<1>3. \A j \in Trees : refs'[j] \in [DOMAIN elems'[j] -> Nat]
  BY <1>1, <1>2 DEF TypeOK
<1>4. TreeOK(t)'
  BY <1>1 DEF TreeOK, cacheVars, OfFolder
<1>5. ASSUME NEW u \in Threads, u # t PROVE TreeOK(u)'
  <2>1. CASE root[u] = NULL
    BY <2>1 DEF TreeOK, cacheVars
  <2>2. CASE root[u] # NULL
    <3>1. root[u] \in Trees /\ root[u] # r
      BY <1>1, <1>5, <2>2 DEF TypeOK, TreeOK
    <3>2. refs'[root[u]] = refs[root[u]] /\ held'[u] = held[u] /\ TreeOK(u)
      BY <1>2, <1>5, <3>1 DEF CacheInv
    <3> QED
      BY <2>2, <3>2 DEF TreeOK, cacheVars, OfFolder
  <2> QED
    BY <2>1, <2>2
<1>6. ASSUME NEW j \in Trees PROVE FreeOK(j)'
  <2>1. CASE j = r
    BY <2>1 DEF FreeOK, cacheVars
  <2>2. CASE j # r
    BY <1>2, <2>2 DEF CacheInv, FreeOK, cacheVars
  <2> QED
    BY <2>1, <2>2
<1> QED
  BY <1>2, <1>3, <1>4, <1>5, <1>6

\* getActualSubelement() hands out an entry with a reference of its own.
LEMMA HandOutInv ==
  ASSUME CacheInv, NEW t \in Threads, pc[t] = "search", root[t] # NULL,
         NEW i \in DOMAIN elems[root[t]], HandOut(t, i), Goto(t, "use"),
         UNCHANGED <<dir, name, answer, mount, remote, cacheVars>>
  PROVE  CacheInv'
<1> DEFINE r == root[t]
<1>1. TypeOK /\ LocalOK(t) /\ TreeOK(t) /\ RemoteOK
  BY DEF CacheInv
<1>2. /\ r \in Trees /\ i \in Nat
      /\ <<r, i>> \in Trees \X Nat
  BY <1>1 DEF TypeOK, AnyList
<1>3. /\ held' = [held EXCEPT ![t] = <<r, i>>]
      /\ refs' = [refs EXCEPT ![r][i] = @ + 1]
      /\ UNCHANGED <<elems, treeRefs>>
  BY DEF HandOut, IncrefEntry, Slot
<1>4. held[t] = NULL
  BY <1>1 DEF LocalOK
<1>5. \A k \in DOMAIN elems[r] : refs[r][k] = 1
  <2>1. \A k \in DOMAIN elems[r] : held[t] # <<r, k>>
    <3>1. \A k \in DOMAIN elems[r] : <<r, k>> \in Trees \X Nat
      BY <1>1, <1>2 DEF TypeOK, AnyList
    <3> QED
      BY <1>4, <3>1, PathCacheAssumption
  <2> QED
    BY <1>1, <2>1 DEF TreeOK
<1>6. /\ held'[t] = <<r, i>> /\ held' \in [Threads -> (Trees \X Nat) \cup {NULL}]
      /\ \A u \in Threads : u # t => held'[u] = held[u]
  BY <1>1, <1>2, <1>3 DEF TypeOK
<1>7. /\ DOMAIN refs' = Trees
      /\ refs'[r] = [refs[r] EXCEPT ![i] = 2]
      /\ \A j \in Trees : j # r => refs'[j] = refs[j]
  <2>1. refs' = [refs EXCEPT ![r] = [refs[r] EXCEPT ![i] = refs[r][i] + 1]]
    BY <1>3
  <2>2. DOMAIN refs = Trees /\ refs[r][i] + 1 = 2
    BY <1>1, <1>5 DEF TypeOK
  <2> QED
    BY <1>2, <2>1, <2>2
<1>8. \A k \in DOMAIN elems[r] :
        refs'[r][k] = IF held'[t] = <<r, k>> THEN 2 ELSE 1
  <2>1. \A k \in DOMAIN elems[r] : refs'[r][k] = IF k = i THEN 2 ELSE 1
    BY <1>1, <1>2, <1>5, <1>7 DEF TypeOK
  <2>2. \A k \in DOMAIN elems[r] : held'[t] = <<r, k>> <=> k = i
    BY <1>6
  <2> QED
    BY <2>1, <2>2
<1>9. /\ \A u \in Threads : TreeOK(u)'
      /\ \A j \in Trees : FreeOK(j)'
      /\ DOMAIN refs' = Trees
      /\ \A j \in Trees : refs'[j] \in [DOMAIN elems'[j] -> Nat]
  <2>1. refs'[r] \in [DOMAIN elems[r] -> Nat]
    BY <1>1, <1>2, <1>7 DEF TypeOK
  <2> QED
    BY <1>3, <1>6, <1>7, <1>8, <2>1, EntryChanged
<1>10. /\ pc'[t] = "use" /\ pc' \in [Threads -> Pcs]
       /\ \A u \in Threads : u # t => pc'[u] = pc[u]
  BY <1>1 DEF TypeOK, Goto, Pcs
<1>11. TypeOK'
  BY <1>1, <1>3, <1>6, <1>9, <1>10 DEF TypeOK, cacheVars
<1>12. LocalOK(t)'
  BY <1>1, <1>3, <1>6, <1>10 DEF LocalOK, cacheVars
<1>13. ASSUME NEW u \in Threads, u # t PROVE LocalOK(u)'
  BY <1>3, <1>6, <1>10, <1>13, OtherLocal DEF CacheInv, cacheVars
<1>14. RemoteOK'
  BY <1>1 DEF RemoteOK
<1> QED
  BY <1>9, <1>11, <1>12, <1>13, <1>14 DEF CacheInv

\* getActualSubelement(), with and without a match.
LEMMA SearchInv ==
  ASSUME CacheInv, NEW t \in Threads, Search(t)
  PROVE  CacheInv'
<1>1. ASSUME root[Slot(t)] # NULL, NEW i \in DOMAIN elems[root[Slot(t)]],
             HandOut(t, i), Goto(t, "use"), UNCHANGED <<dir, name, answer>>
      PROVE  CacheInv'
  BY <1>1, HandOutInv DEF Search, Slot
<1>2. CASE Leave(t) /\ UNCHANGED heapVars
  BY <1>2, QuietLeave DEF Search
<1> QED
  BY <1>1, <1>2 DEF Search

\* The caller gives its reference back.
LEMMA UseInv ==
  ASSUME CacheInv, NEW t \in Threads, Use(t)
  PROVE  CacheInv'
<1> DEFINE r == root[t]
<1>1. TypeOK /\ LocalOK(t) /\ TreeOK(t) /\ RemoteOK
  BY DEF CacheInv
<1>2. PICK i \in DOMAIN elems[r] : held[t] = <<r, i>>
  BY <1>1 DEF Use, LocalOK
<1>3. r # NULL /\ r \in Trees
  BY <1>1 DEF Use, LocalOK, TypeOK
<1>4. /\ refs' = [refs EXCEPT ![r][i] = @ - 1]
      /\ UNCHANGED <<elems, treeRefs>>
  BY <1>2 DEF Use, DecrefEntry
<1>5. \A k \in DOMAIN elems[r] : refs[r][k] = IF k = i THEN 2 ELSE 1
  <2>1. \A k \in DOMAIN elems[r] : held[t] = <<r, k>> <=> k = i
    BY <1>2
  <2> QED
    BY <1>1, <1>3, <2>1 DEF TreeOK
<1>6. /\ DOMAIN refs' = Trees
      /\ refs'[r] = [refs[r] EXCEPT ![i] = 1]
      /\ \A j \in Trees : j # r => refs'[j] = refs[j]
  <2>1. refs' = [refs EXCEPT ![r] = [refs[r] EXCEPT ![i] = refs[r][i] - 1]]
    BY <1>4
  <2>2. DOMAIN refs = Trees /\ refs[r][i] - 1 = 1
    BY <1>1, <1>5 DEF TypeOK
  <2> QED
    BY <1>3, <2>1, <2>2
<1>7. held'[t] = NULL
  BY <1>1 DEF Use, Leave, TypeOK
<1>8. \A k \in DOMAIN elems[r] :
        refs'[r][k] = IF held'[t] = <<r, k>> THEN 2 ELSE 1
  <2>1. \A k \in DOMAIN elems[r] : refs'[r][k] = 1
    BY <1>1, <1>3, <1>5, <1>6 DEF TypeOK
  <2>2. \A k \in DOMAIN elems[r] : held'[t] # <<r, k>>
    <3>1. \A k \in DOMAIN elems[r] : <<r, k>> \in Trees \X Nat
      BY <1>1, <1>3 DEF TypeOK, AnyList
    <3> QED
      BY <1>7, <3>1, PathCacheAssumption
  <2> QED
    BY <2>1, <2>2
<1>9. Leave(t) /\ UNCHANGED <<mount, remote, cacheVars>>
  BY DEF Use
<1>10. /\ \A u \in Threads : TreeOK(u)'
       /\ \A j \in Trees : FreeOK(j)'
       /\ DOMAIN refs' = Trees
       /\ \A j \in Trees : refs'[j] \in [DOMAIN elems'[j] -> Nat]
  <2>1. refs'[r] \in [DOMAIN elems[r] -> Nat]
    BY <1>1, <1>3, <1>6 DEF TypeOK
  <2>2. \A u \in Threads : u # t => held'[u] = held[u]
    BY <1>1, <1>9, LeaveOthers
  <2> QED
    BY <1>3, <1>4, <1>6, <1>8, <1>9, <2>1, <2>2, EntryChanged
<1>11. TypeOK'
  BY <1>1, <1>4, <1>9, <1>10, LeaveTyped DEF TypeOK, cacheVars
<1>12. ASSUME NEW u \in Threads PROVE LocalOK(u)'
  BY <1>1, <1>4, <1>9, LeaveLocal, LeaveOthers, OtherLocal DEF CacheInv, cacheVars
<1>13. RemoteOK'
  BY <1>1, <1>9 DEF RemoteOK
<1> QED
  BY <1>10, <1>11, <1>12, <1>13 DEF CacheInv

-----------------------------------------------------------------------------
\* Every step keeps the invariant: one case per disjunct of Next.
LEMMA NextInv ==
  ASSUME CacheInv, [Next]_vars
  PROVE  CacheInv'
<1>1. CASE UNCHANGED vars
  <2>1. TypeOK' /\ RemoteOK'
    BY <1>1 DEF CacheInv, TypeOK, RemoteOK, vars, cacheVars, heapVars, localVars
  <2>2. \A u \in Threads : LocalOK(u)'
    BY <1>1, OtherLocal DEF CacheInv, vars, cacheVars, heapVars, localVars
  <2> QED
    BY <1>1, <2>1, <2>2, TreesQuiet DEF CacheInv, vars, localVars
<1>2. ASSUME NEW t \in Threads, ThreadStep(t), mount = "up"
      PROVE  CacheInv'
  <2>1. CASE Begin(t)
    BY <2>1, BeginInv
  <2>2. CASE Update(t)
    BY <2>2, UpdateInv
  <2>3. CASE Fetch(t)
    BY <2>3, FetchInv
  <2>4. CASE Load(t)
    BY <2>4, LoadInv
  <2>5. CASE Search(t)
    BY <2>5, SearchInv
  <2>6. CASE Use(t)
    BY <2>6, UseInv
  <2>7. CASE Walk(t)
    BY <2>7, WalkInv
  <2>8. CASE ThreadExit(t)
    BY <1>2, <2>8, ThreadExitInv DEF ThreadExit
  <2> QED
    BY <1>2, <2>1, <2>2, <2>3, <2>4, <2>5, <2>6, <2>7, <2>8 DEF ThreadStep
<1>3. ASSUME NEW d \in Folders, Upload(d) PROVE CacheInv'
  BY <1>3, UploadInv
<1>4. CASE Destroy
  BY <1>4, ThreadExitInv, PathCacheAssumption DEF Destroy
<1> QED
  BY <1>1, <1>2, <1>3, <1>4 DEF Next

\* The inductive invariant of the listings: every cached tree belongs to one
\* thread and one folder, with its references in order.
THEOREM CacheInvariant == Spec => []CacheInv
<1>1. Init => CacheInv
  BY InitInv
<1>2. CacheInv /\ [Next]_vars => CacheInv'
  BY NextInv
<1> QED
  BY <1>1, <1>2, PTL DEF Spec

\* Listings, trees and reference counts keep their types: no reference is
\* given back twice.
THEOREM TypeCorrect == Spec => []TypeOK
<1>1. CacheInv => TypeOK
  BY DEF CacheInv
<1> QED
  BY <1>1, CacheInvariant, PTL

\* Handlers look into, and show, only listings of the folder they were asked
\* about.
THEOREM ListingOfFolderCorrect == Spec => []ListingOfFolder
<1>1. CacheInv => ListingOfFolder
  <2> SUFFICES ASSUME CacheInv, NEW t \in Threads, pc[t] \in {"search", "walk"}
               PROVE  /\ root[Slot(t)] # NULL
                      /\ OfFolder(elems[root[Slot(t)]], dir[t])
    BY DEF ListingOfFolder
  <2>1. LocalOK(t) /\ TreeOK(t) /\ dir[t] # NULL
    BY PathCacheAssumption DEF CacheInv, LocalOK
  <2> QED
    BY <2>1 DEF LocalOK, TreeOK, Slot
<1> QED
  BY <1>1, CacheInvariant, PTL

\* JSON arrays and entries have one reference per holder.
THEOREM RefsBalancedCorrect == Spec => []RefsBalanced
<1>1. CacheInv => RefsBalanced
  <2> SUFFICES ASSUME CacheInv, NEW j \in Trees
               PROVE  /\ treeRefs[j] = Cardinality({t \in Threads : root[t] = j})
                      /\ \A i \in DOMAIN refs[j] :
                           refs[j][i] = treeRefs[j]
                             + Cardinality({t \in Threads : held[t] = <<j, i>>})
    BY DEF RefsBalanced
  <2>1. TypeOK /\ FreeOK(j) /\ NULL \notin Trees
    BY PathCacheAssumption DEF CacheInv
  <2>2. DOMAIN refs[j] = DOMAIN elems[j]
    BY <2>1 DEF TypeOK
  <2>3. \A t \in Threads, i \in DOMAIN elems[j] :
          held[t] = <<j, i>> => root[t] = j
    <3> SUFFICES ASSUME NEW t \in Threads, NEW i \in DOMAIN elems[j],
                        held[t] = <<j, i>>
                 PROVE  root[t] = j
      OBVIOUS
    <3>1. <<j, i>> # NULL
      BY <2>1, PathCacheAssumption DEF TypeOK, AnyList
    <3>2. pc[t] = "use"
      BY <3>1 DEF CacheInv, LocalOK
    <3> QED
      BY <3>2 DEF CacheInv, LocalOK
  <2>4. CASE \A t \in Threads : root[t] # j
    <3>1. {t \in Threads : root[t] = j} = {}
      BY <2>4
    <3>2. \A i \in DOMAIN elems[j] : {t \in Threads : held[t] = <<j, i>>} = {}
      BY <2>3, <2>4
    <3>3. Cardinality({}) = 0
      BY FS_EmptySet
    <3> QED
      BY <2>1, <2>2, <2>4, <3>1, <3>2, <3>3 DEF FreeOK
  <2>5. ASSUME NEW t \in Threads, root[t] = j
        PROVE  /\ treeRefs[j] = Cardinality({u \in Threads : root[u] = j})
               /\ \A i \in DOMAIN elems[j] :
                    refs[j][i] = treeRefs[j]
                      + Cardinality({u \in Threads : held[u] = <<j, i>>})
    <3>1. TreeOK(t) /\ root[t] # NULL
      BY <2>1, <2>5 DEF CacheInv
    <3>2. treeRefs[j] = 1 /\ \A u \in Threads : root[u] = j => u = t
      BY <2>5, <3>1 DEF TreeOK
    <3>3. {u \in Threads : root[u] = j} = {t} /\ Cardinality({t}) = 1
      BY <2>5, <3>2, FS_Singleton
    <3>4. ASSUME NEW i \in DOMAIN elems[j]
          PROVE  refs[j][i] = 1 + Cardinality({u \in Threads : held[u] = <<j, i>>})
      <4>1. refs[j][i] = IF held[t] = <<j, i>> THEN 2 ELSE 1
        BY <2>5, <3>1 DEF TreeOK
      <4>3. CASE held[t] = <<j, i>>
        <5>1. {u \in Threads : held[u] = <<j, i>>} = {t}
          BY <2>3, <3>2, <4>3
        <5>2. Cardinality({u \in Threads : held[u] = <<j, i>>}) = 1
          BY <5>1, FS_Singleton
        <5>3. refs[j][i] = 2
          BY <4>1, <4>3
        <5> QED
          BY <5>2, <5>3
      <4>4. CASE held[t] # <<j, i>>
        <5>1. {u \in Threads : held[u] = <<j, i>>} = {}
          BY <2>3, <3>2, <4>4
        <5>2. Cardinality({u \in Threads : held[u] = <<j, i>>}) = 0
          BY <5>1, FS_EmptySet
        <5>3. refs[j][i] = 1
          BY <4>1, <4>4
        <5> QED
          BY <5>2, <5>3
      <4> QED
        BY <4>3, <4>4
    <3> QED
      BY <3>2, <3>3, <3>4
  <2> QED
    BY <2>2, <2>4, <2>5
<1> QED
  BY <1>1, CacheInvariant, PTL

\* After the unmount no thread keeps a listing, so every tree is free.
THEOREM UnmountedMeansFreedCorrect == Spec => []UnmountedMeansFreed
<1> DEFINE NoCache == mount = "unmounted" => \A t \in Threads : root[t] = NULL
<1>1. Init => NoCache
  BY DEF Init
<1>2. CacheInv /\ NoCache /\ [Next]_vars => NoCache'
  <2> SUFFICES ASSUME CacheInv, NoCache, [Next]_vars, mount' = "unmounted"
               PROVE  \A t \in Threads : root'[t] = NULL
    OBVIOUS
  <2>1. CASE UNCHANGED vars
    BY <2>1 DEF vars, cacheVars
  <2>2. CASE Next
    <3>1. Destroy
      BY <2>2 DEF Next, ThreadStep, Begin, Update, Fetch, Load, Search, Use,
                  Walk, ThreadExit, Upload
    <3> QED
      BY <3>1 DEF Destroy, CacheInv, TypeOK
  <2> QED
    BY <2>1, <2>2
<1>3. CacheInv /\ NoCache => UnmountedMeansFreed
  BY PathCacheAssumption DEF CacheInv, TypeOK, FreeOK, UnmountedMeansFreed
<1> QED
  BY <1>1, <1>2, <1>3, CacheInvariant, PTL DEF Spec

-----------------------------------------------------------------------------
(* The refinement of FolderListing                                         *)

AbstractVars == <<remote[TheFolder], [t \in Threads |-> View(t)]>>

\* A step in which one thread's view stays, is dropped or is fetched anew, and
\* every other view stays, is a step of FolderListing.
LEMMA AbstractStep ==
  ASSUME NEW t \in Threads, remote'[TheFolder] = remote[TheFolder],
         \A u \in Threads \ {t} : View(u)' = View(u),
         \/ View(t)' = View(t)
         \/ View(t)' = NULL
         \/ View(t) = NULL /\ View(t)' = remote[TheFolder]
  PROVE  Folder!Next \/ UNCHANGED AbstractVars
<1>1. CASE View(t)' = View(t)
  BY <1>1 DEF AbstractVars
<1>2. CASE View(t)' = NULL /\ View(t) # NULL
  <2>1. [u \in Threads |-> View(u)][t] # NULL
    BY <1>2
  <2>2. [u \in Threads |-> View(u)]' = [[u \in Threads |-> View(u)] EXCEPT ![t] = NULL]
    <3>1. \A u \in Threads :
            [v \in Threads |-> View(v)]'[u]
              = [[v \in Threads |-> View(v)] EXCEPT ![t] = NULL][u]
      BY <1>2
    <3> QED
      BY <3>1
  <2>3. Folder!Drop(t)
    BY <2>1, <2>2 DEF Folder!Drop
  <2> QED
    BY <2>3 DEF Folder!Next
<1>3. CASE View(t) = NULL /\ View(t)' = remote[TheFolder]
  <2>1. Folder!Fetch(t)
    BY <1>3 DEF Folder!Fetch
  <2> QED
    BY <2>1 DEF Folder!Next
<1> QED
  BY <1>1, <1>2, <1>3

\* A thread's view depends on its own variables and its own tree only.
LEMMA ViewKept ==
  ASSUME NEW u \in Threads,
         pc'[u] = pc[u], dir'[u] = dir[u], answer'[u] = answer[u],
         path'[u] = path[u], root'[u] = root[u],
         root[u] # NULL => elems'[root[u]] = elems[root[u]]
  PROVE  View(u)' = View(u)
  BY DEF View, Belongs

\* A handler that neither sends a request nor takes its answer, and keeps the
\* cache, keeps the view.
LEMMA ViewIdle ==
  ASSUME NEW t \in Threads, pc[t] # "load", pc'[t] # "load",
         UNCHANGED <<cacheVars, elems>>
  PROVE  View(t)' = View(t)
  BY DEF View, cacheVars

\* Decrementing an array's references changes no entries.
LEMMA DecrefKeepsEntries ==
  ASSUME NEW j, DecrefTree(j)
  PROVE  UNCHANGED elems
  BY DEF DecrefTree, heapVars

\* Updating the cache keeps the view or drops it.
LEMMA UpdateAbstract ==
  ASSUME CacheInv, NEW t \in Threads, Update(t)
  PROVE  Folder!Next \/ UNCHANGED AbstractVars
<1>1. TypeOK
  BY DEF CacheInv
<1>2. UNCHANGED elems
  BY DecrefKeepsEntries DEF Update, StartFetch, heapVars
<1>3. \A u \in Threads \ {t} : View(u)' = View(u)
  BY <1>1, <1>2, ViewKept
    DEF TypeOK, Update, StartFetch, Slot, Leave, Goto, cacheVars
<1>4. pc[t] = "update" /\ pc'[t] # "load"
  BY <1>1 DEF TypeOK, Update, StartFetch, Leave, Goto, Caller
<1>5. View(t)' = View(t) \/ View(t)' = NULL
  <2>1. CASE UNCHANGED cacheVars
    BY <1>2, <1>4, <2>1, ViewIdle
  <2>2. CASE StartFetch(t)
    <3>1. root'[t] = NULL
      BY <1>1, <2>2 DEF TypeOK, StartFetch, Slot
    <3> QED
      BY <1>4, <3>1 DEF View
  <2>3. CASE path' = [path EXCEPT ![Slot(t)] = NULL]
    <3>1. path'[t] = NULL
      BY <1>1, <2>3 DEF TypeOK, Slot
    <3> QED
      BY <1>4, <3>1, PathCacheAssumption DEF View
  <2> QED
    BY <2>1, <2>2, <2>3 DEF Update, cacheVars
<1> QED
  BY <1>3, <1>5, AbstractStep DEF Update

\* The server's answer gives a thread a view when it is the listing of the
\* folder; the root's listing is none.
LEMMA FetchAbstract ==
  ASSUME CacheInv, NEW t \in Threads, Fetch(t)
  PROVE  Folder!Next \/ UNCHANGED AbstractVars
<1>1. TypeOK /\ LocalOK(t) /\ pc[t] = "fetch"
  BY DEF CacheInv, Fetch
<1>2. \A u \in Threads \ {t} : View(u)' = View(u)
  BY <1>1, ViewKept DEF TypeOK, Fetch, Leave, Goto, cacheVars, heapVars, localVars
<1>3. root[t] = NULL /\ root'[t] = NULL /\ View(t) = NULL
  BY <1>1 DEF LocalOK, View, Fetch, cacheVars
<1>4. View(t)' = NULL \/ View(t)' = remote[TheFolder]
  <2>1. CASE pc'[t] # "load"
    BY <1>3, <2>1 DEF View
  <2>2. CASE pc'[t] = "load" /\ dir'[t] # TheFolder
    BY <1>3, <2>2 DEF View
  <2>3. ASSUME pc'[t] = "load", dir'[t] = TheFolder
        PROVE  View(t)' = NULL \/ View(t)' = remote[TheFolder]
    <3>1. dir[t] = TheFolder
      BY <1>1, <2>3 DEF TypeOK, Fetch, Leave, Goto, localVars
    <3>2. PICK d \in {TheFolder, Root} : answer'[t] = [from |-> d, list |-> Body(d)]
      BY <1>1, <2>3, <3>1 DEF TypeOK, Fetch, Leave, Goto, localVars
    <3>3. View(t)' = IF Belongs(TheFolder, Body(d)) THEN Body(d) ELSE NULL
      BY <1>3, <2>3, <3>2 DEF View, Belongs
    <3>4. CASE d = TheFolder
      <4>1. remote[TheFolder] = NULL => ~Belongs(TheFolder, Body(TheFolder))
        BY PathCacheAssumption DEF Belongs, Body
      <4> QED
        BY <3>3, <3>4, <4>1 DEF Body
    <3>5. CASE d = Root
      <4>1. OfFolder(Body(Root), Root)
        BY <1>1, BodyTyped, PathCacheAssumption DEF CacheInv
      <4>2. ~Belongs(TheFolder, Body(Root))
        BY <4>1, PathCacheAssumption DEF Belongs, OfFolder
      <4> QED
        BY <3>3, <3>5, <4>2
    <3> QED
      BY <3>2, <3>4, <3>5
  <2> QED
    BY <2>1, <2>2, <2>3
<1> QED
  BY <1>2, <1>3, <1>4, AbstractStep DEF Fetch

\* An accepted answer is the view that was on its way; a refused one is
\* dropped.
LEMMA LoadAbstract ==
  ASSUME CacheInv, NEW t \in Threads, Load(t)
  PROVE  Folder!Next \/ UNCHANGED AbstractVars
<1>1. TypeOK /\ LocalOK(t) /\ pc[t] = "load" /\ NULL \notin Trees
  BY PathCacheAssumption DEF CacheInv, Load
<1>2. path[t] = dir[t] /\ root[t] = NULL
  BY <1>1 DEF LocalOK
<1>3. ASSUME Belongs(dir[t], answer[t].list), NEW j \in Trees,
             NewTree(j, answer[t].list), root' = [root EXCEPT ![Slot(t)] = j],
             Goto(t, Caller(t)), answer' = [answer EXCEPT ![t] = NULL],
             UNCHANGED dir
      PROVE  View(t)' = View(t) /\ \A u \in Threads \ {t} : View(u)' = View(u)
  <2>1. \A u \in Threads : root[u] # j
    BY <1>1, <1>3 DEF CacheInv, TreeOK, NewTree
  <2>2. \A u \in Threads \ {t} : View(u)' = View(u)
    <3> TAKE u \in Threads \ {t}
    <3>1. root[u] # NULL => elems'[root[u]] = elems[root[u]]
      BY <1>1, <1>3, <2>1 DEF TypeOK, NewTree
    <3> QED
      BY <1>1, <1>3, <3>1, ViewKept DEF TypeOK, Load, Slot, Goto
  <2>3. root'[t] = j /\ elems'[j] = answer[t].list /\ pc'[t] # "load" /\ path'[t] = path[t]
    BY <1>1, <1>3 DEF TypeOK, NewTree, Slot, Goto, Caller, Load
  <2>4. View(t)' = IF path[t] = TheFolder THEN answer[t].list ELSE NULL
    BY <1>1, <2>3 DEF View
  <2>5. View(t) = IF path[t] = TheFolder THEN answer[t].list ELSE NULL
    BY <1>1, <1>2, <1>3 DEF View
  <2> QED
    BY <2>2, <2>4, <2>5
<1>4. ASSUME root' = [root EXCEPT ![Slot(t)] = NULL], Leave(t), UNCHANGED heapVars
      PROVE  View(t)' = NULL /\ \A u \in Threads \ {t} : View(u)' = View(u)
  <2>1. \A u \in Threads \ {t} : View(u)' = View(u)
    BY <1>1, <1>4, ViewKept DEF TypeOK, Load, Slot, Leave, Goto, heapVars
  <2>2. root'[t] = NULL /\ pc'[t] # "load"
    BY <1>1, <1>4 DEF TypeOK, Slot, Leave, Goto
  <2> QED
    BY <2>1, <2>2 DEF View
<1>5. View(t)' \in {View(t), NULL} /\ \A u \in Threads \ {t} : View(u)' = View(u)
  BY <1>3, <1>4 DEF Load
<1> QED
  BY <1>5, AbstractStep DEF Load

\* Handlers that look into a listing leave all views alone.
LEMMA LookAbstract ==
  ASSUME CacheInv, NEW t \in Threads,
         Begin(t) \/ Search(t) \/ Use(t) \/ Walk(t)
  PROVE  Folder!Next \/ UNCHANGED AbstractVars
<1>1. TypeOK
  BY DEF CacheInv
<1>2. UNCHANGED <<remote, cacheVars, elems>>
  BY DEF Begin, Search, HandOut, IncrefEntry, Use, DecrefEntry, Walk, heapVars
<1>3. \A u \in Threads \ {t} : View(u)' = View(u)
  BY <1>1, <1>2, ViewKept
    DEF TypeOK, Begin, Search, HandOut, Use, Walk, Leave, Goto, cacheVars
<1>4. pc[t] # "load" /\ pc'[t] # "load"
  BY <1>1 DEF TypeOK, Begin, Search, HandOut, Use, Walk, Leave, Goto
<1>5. View(t)' = View(t)
  BY <1>2, <1>4, ViewIdle
<1> QED
  BY <1>2, <1>3, <1>5, AbstractStep

\* A thread's cache is dropped with the thread, or with the mount.
LEMMA ExitAbstract ==
  ASSUME CacheInv, NEW t \in Threads, pc[t] = "idle", DecrefTree(root[t]),
         root' = [root EXCEPT ![t] = NULL], path' = [path EXCEPT ![t] = NULL],
         UNCHANGED <<remote, localVars>>
  PROVE  Folder!Next \/ UNCHANGED AbstractVars
<1>1. TypeOK /\ UNCHANGED elems
  BY DecrefKeepsEntries DEF CacheInv
<1>2. \A u \in Threads \ {t} : View(u)' = View(u)
  BY <1>1, ViewKept DEF TypeOK, localVars
<1>3. root'[t] = NULL /\ pc'[t] # "load"
  BY <1>1 DEF TypeOK, localVars
<1>4. View(t)' = NULL
  BY <1>3 DEF View
<1> QED
  BY <1>2, <1>4, AbstractStep

\* Other clients change the folder, or another one, and no view.
LEMMA UploadAbstract ==
  ASSUME CacheInv, NEW d \in Folders, Upload(d)
  PROVE  Folder!Next \/ UNCHANGED AbstractVars
<1>1. \A u \in Threads : View(u)' = View(u)
  BY ViewKept DEF Upload, cacheVars, heapVars, localVars
<1>2. CASE d = TheFolder
  <2>1. remote'[TheFolder] \in Listings[TheFolder]
    BY <1>2, PathCacheAssumption DEF Upload, CacheInv, TypeOK
  <2> QED
    BY <1>1, <2>1 DEF Folder!Next, Folder!Change
<1>3. CASE d # TheFolder
  <2>1. remote'[TheFolder] = remote[TheFolder]
    BY <1>3, PathCacheAssumption DEF Upload, CacheInv, TypeOK
  <2> QED
    BY <1>1, <2>1 DEF AbstractVars
<1> QED
  BY <1>2, <1>3

\* Each folder below the root is seen as FolderListing says.
THEOREM FolderListingImplemented == Spec => ImplementsFolderListing
<1>1. Init => Folder!Init
  <2> SUFFICES ASSUME Init PROVE Folder!Init
    OBVIOUS
  <2>1. \A t \in Threads : View(t) = NULL
    BY DEF Init, View
  <2> QED
    BY <2>1, PathCacheAssumption DEF Init, Folder!Init
<1>2. CacheInv /\ [Next]_vars => [Folder!Next]_AbstractVars
  <2> SUFFICES ASSUME CacheInv, [Next]_vars
               PROVE  Folder!Next \/ UNCHANGED AbstractVars
    OBVIOUS
  <2>1. CASE UNCHANGED vars
    <3>1. \A u \in Threads : View(u)' = View(u)
      BY <2>1, ViewKept DEF vars, cacheVars, heapVars, localVars
    <3> QED
      BY <2>1, <3>1 DEF AbstractVars, vars
  <2>2. ASSUME NEW t \in Threads, ThreadStep(t)
        PROVE  Folder!Next \/ UNCHANGED AbstractVars
    <3>1. CASE Update(t)
      BY <3>1, UpdateAbstract
    <3>2. CASE Fetch(t)
      BY <3>2, FetchAbstract
    <3>3. CASE Load(t)
      BY <3>3, LoadAbstract
    <3>4. CASE Begin(t) \/ Search(t) \/ Use(t) \/ Walk(t)
      BY <3>4, LookAbstract
    <3>5. CASE ThreadExit(t)
      BY <3>5, ExitAbstract DEF ThreadExit
    <3> QED
      BY <2>2, <3>1, <3>2, <3>3, <3>4, <3>5 DEF ThreadStep
  <2>3. ASSUME NEW d \in Folders, Upload(d)
        PROVE  Folder!Next \/ UNCHANGED AbstractVars
    BY <2>3, UploadAbstract
  <2>4. CASE Destroy
    BY <2>4, ExitAbstract, PathCacheAssumption DEF Destroy
  <2> QED
    BY <2>1, <2>2, <2>3, <2>4 DEF Next
<1>3. CacheInv /\ [Next]_vars
        => [Folder!Next]_<<remote[TheFolder], [t \in Threads |-> View(t)]>>
  BY <1>2 DEF AbstractVars
<1> QED
  BY <1>1, <1>3, CacheInvariant, PTL DEF Spec, ImplementsFolderListing, Folder!Spec
=============================================================================
