----------------------------- MODULE PathCache -----------------------------
(***************************************************************************)
(* The folder listings of src/data-container.c: updatePathInfo() with its  *)
(* thread-local cache of one listing, getActualSubelement(), which hands   *)
(* out counted references to JSON entries, loadDir() for readdir, and the  *)
(* two ways a cache ends, with its thread and with the mount.              *)
(*                                                                         *)
(* A folder's path stands for the string with the slash at its end: all    *)
(* callers FUSE can reach pass it in that form.  A listing is the JSON     *)
(* array; an entry keeps "name" and "path", whose value is the folder the  *)
(* entry is in.  What getInfo(), openFile() and readFile() take out of an  *)
(* entry they copy before they give the reference back, so the other       *)
(* fields do not matter here.                                              *)
(*                                                                         *)
(* A JSON tree is the array with its entries.  Jansson counts references   *)
(* per value: the array holds one on each entry, and an entry that         *)
(* somebody else holds survives the array.                                 *)
(***************************************************************************)
EXTENDS Naturals, Sequences, FiniteSets

CONSTANTS
  Threads,     \* the threads that run handlers
  Main,        \* the thread that runs destroy_callback(), and the handlers
               \* too when the mount is single-threaded
  Folders,     \* folders that are asked for, on the server or not
  Root,        \* the folder "/"
  TheFolder,   \* the folder of the refinement, any but Root
  Names,       \* names that are looked up or listed
  Listings,    \* Listings[d]: the listings folder d has over time; NULL is a
               \* folder the server does not know
  Trees,       \* addresses of JSON trees
  NULL,
  Failures     \* which outside calls may fail: a subset of FailureKinds

\* "memory": an allocation fails; "listing": the GET fails or the answer is
\* not JSON; "misrouted": the server answers with the root's listing, as it
\* does for a malformed URL; "empty": an answer without a body.
FailureKinds == {"memory", "listing", "misrouted", "empty"}

\* An entry without a "name" is possible; its "path" is always the folder.
Entry(d) == [name : Names \cup {NULL}, path : {d}]

ASSUME PathCacheAssumption ==
  /\ Main \in Threads
  /\ {Root, TheFolder} \subseteq Folders /\ Root # TheFolder
  /\ Listings \in [Folders -> SUBSET (Seq([name : Names \cup {NULL},
                                           path : Folders]) \cup {NULL})]
  /\ \A d \in Folders : Listings[d] \subseteq Seq(Entry(d)) \cup {NULL}
  /\ NULL \notin Seq([name : Names \cup {NULL}, path : Folders])
  /\ NULL \notin Threads \cup Folders \cup Names \cup Trees \cup (Trees \X Nat)
  /\ Failures \subseteq FailureKinds

VARIABLES
  mount,     \* "up", "crashed" or "unmounted"
  remote,    \* remote[d]: what the server lists for folder d
  path,      \* PathInfo_t.path of each thread, or NULL
  root,      \* PathInfo_t.jsonObjectRoot of each thread, or NULL
  elems,     \* elems[j]: the entries of the tree at address j
  treeRefs,  \* the reference count of the array
  refs,      \* refs[j][i]: the reference count of its i-th entry
  pc,        \* per thread: the next step of its handler
  dir,       \* the folder the handler asks for
  name,      \* the name it looks up; NULL for readdir
  answer,    \* the server's answer: the listing, and whose it is
  held       \* the entry the handler holds: a tree's address and an index

cacheVars == <<path, root>>
heapVars == <<elems, treeRefs, refs>>
localVars == <<pc, dir, name, answer, held>>
vars == <<mount, remote, cacheVars, heapVars, localVars>>

Goto(t, l) == pc' = [pc EXCEPT ![t] = l]

\* What updatePathInfo()'s caller does next.
Caller(t) == IF name[t] = NULL THEN "walk" ELSE "search"

Leave(t) ==
  /\ Goto(t, "idle")
  /\ dir' = [dir EXCEPT ![t] = NULL]
  /\ name' = [name EXCEPT ![t] = NULL]
  /\ answer' = [answer EXCEPT ![t] = NULL]
  /\ held' = [held EXCEPT ![t] = NULL]

-----------------------------------------------------------------------------
(* JSON values                                                             *)

\* json_loadb(): a new tree at address j, one reference on every value.
NewTree(j, l) ==
  /\ treeRefs[j] = 0 /\ \A i \in DOMAIN refs[j] : refs[j][i] = 0
  /\ elems' = [elems EXCEPT ![j] = l]
  /\ treeRefs' = [treeRefs EXCEPT ![j] = 1]
  /\ refs' = [refs EXCEPT ![j] = [i \in DOMAIN l |-> 1]]

\* json_decref() of the array at j, or of nothing.
DecrefTree(j) ==
  IF j = NULL
    THEN UNCHANGED heapVars
    ELSE /\ treeRefs' = [treeRefs EXCEPT ![j] = @ - 1]
         /\ refs' = [refs EXCEPT ![j] = [i \in DOMAIN @ |-> @[i] - 1]]
         /\ UNCHANGED elems

\* json_incref() and json_decref() of the i-th entry of j.
IncrefEntry(j, i) ==
  /\ refs' = [refs EXCEPT ![j][i] = @ + 1]
  /\ UNCHANGED <<elems, treeRefs>>

DecrefEntry(j, i) ==
  /\ refs' = [refs EXCEPT ![j][i] = @ - 1]
  /\ UNCHANGED <<elems, treeRefs>>

-----------------------------------------------------------------------------
(* A request arrives                                                       *)

Begin(t) ==
  /\ pc[t] = "idle"
  /\ Goto(t, "update")
  /\ \E d \in Folders : dir' = [dir EXCEPT ![t] = d]
  /\ \E n \in Names \cup {NULL} : name' = [name EXCEPT ![t] = n]
  /\ UNCHANGED <<mount, remote, cacheVars, heapVars, answer, held>>

-----------------------------------------------------------------------------
(* updatePathInfo()                                                        *)

\* Fault: one PathInfo_t for all threads.
SlotShared(t) == Main

\* get_thread_pathinfo(): whose PathInfo_t thread t works with.
Slot(t) == t

Cached(t) == root[Slot(t)] # NULL /\ path[Slot(t)] = dir[t]

\* Fault: the old tree stays in place when the path is replaced.
StartFetchKeepingTree(t) ==
  /\ path' = [path EXCEPT ![Slot(t)] = dir[t]]
  /\ Goto(t, "fetch")
  /\ UNCHANGED <<root, heapVars, dir, name, answer, held>>

\* The path is replaced and the old tree dropped before the new one is there.
StartFetch(t) ==
  /\ path' = [path EXCEPT ![Slot(t)] = dir[t]]
  /\ root' = [root EXCEPT ![Slot(t)] = NULL]
  /\ DecrefTree(root[Slot(t)])
  /\ Goto(t, "fetch")
  /\ UNCHANGED <<dir, name, answer, held>>

Update(t) ==
  /\ pc[t] = "update"
  /\ \/ /\ Cached(t)
        /\ Goto(t, Caller(t))
        /\ UNCHANGED <<cacheVars, heapVars, dir, name, answer, held>>
     \/ /\ ~Cached(t)
        /\ StartFetch(t)
     \/ \* no memory for the path: it is gone, the old tree is kept
        /\ ~Cached(t)
        /\ "memory" \in Failures
        /\ path' = [path EXCEPT ![Slot(t)] = NULL]
        /\ Leave(t)
        /\ UNCHANGED <<root, heapVars>>
     \/ \* no memory before that, for the PathInfo_t or the parent's path
        /\ "memory" \in Failures
        /\ Leave(t)
        /\ UNCHANGED <<cacheVars, heapVars>>
  /\ UNCHANGED <<mount, remote>>

\* The body of the answer to a listing request: an unknown folder is answered
\* with an empty array.
Body(d) == IF remote[d] = NULL THEN << >> ELSE remote[d]

Fetch(t) ==
  /\ pc[t] = "fetch"
  /\ \/ \E d \in {dir[t]} \cup (IF "misrouted" \in Failures THEN {Root} ELSE {}) :
          /\ answer' = [answer EXCEPT ![t] = [from |-> d, list |-> Body(d)]]
          /\ Goto(t, "load")
          /\ UNCHANGED <<mount, dir, name, held>>
     \/ /\ {"listing", "memory"} \cap Failures # {}
        /\ Leave(t)
        /\ UNCHANGED mount
     \/ \* httpGETRequest() terminates a body it never allocated
        /\ "empty" \in Failures
        /\ mount' = "crashed"
        /\ UNCHANGED localVars
  /\ UNCHANGED <<remote, cacheVars, heapVars>>

\* Fault: the answer is not checked against the folder that was asked for.
BelongsUnchecked(d, l) == d \in Folders

\* The sanity check: one entry of the requested folder makes the answer the
\* folder's listing; the root folder's answer is taken as it is.
Belongs(d, l) == d = Root \/ \E i \in DOMAIN l : l[i].path = d

\* json_loadb() and the sanity check, which frees a tree it refuses.
Load(t) ==
  /\ pc[t] = "load"
  /\ \/ /\ Belongs(dir[t], answer[t].list)
        /\ \E j \in Trees :
             /\ NewTree(j, answer[t].list)
             /\ root' = [root EXCEPT ![Slot(t)] = j]
        /\ Goto(t, Caller(t))
        /\ answer' = [answer EXCEPT ![t] = NULL]
        /\ UNCHANGED <<dir, name, held>>
     \/ /\ ~Belongs(dir[t], answer[t].list) \/ "listing" \in Failures
        /\ root' = [root EXCEPT ![Slot(t)] = NULL]
        /\ Leave(t)
        /\ UNCHANGED heapVars
  /\ UNCHANGED <<mount, remote, path>>

-----------------------------------------------------------------------------
(* getActualSubelement() and its callers; loadDir()                        *)

\* getSubElementByNamedPath(): i is the first entry called n, unless an entry
\* without a name comes before it.
FoundAt(l, n, i) ==
  /\ l[i].name = n
  /\ \A k \in 1..(i - 1) : l[k].name \notin {n, NULL}

\* Fault: the reference for the caller is not taken.
HandOutBorrowed(t, i) ==
  /\ held' = [held EXCEPT ![t] = <<root[Slot(t)], i>>]
  /\ UNCHANGED heapVars

\* "Caller owns this reference".
HandOut(t, i) ==
  /\ held' = [held EXCEPT ![t] = <<root[Slot(t)], i>>]
  /\ IncrefEntry(root[Slot(t)], i)

Search(t) ==
  /\ pc[t] = "search"
  /\ \/ /\ root[Slot(t)] # NULL
        /\ \E i \in DOMAIN elems[root[Slot(t)]] :
             /\ FoundAt(elems[root[Slot(t)]], name[t], i)
             /\ HandOut(t, i)
        /\ Goto(t, "use")
        /\ UNCHANGED <<dir, name, answer>>
     \/ /\ \/ root[Slot(t)] = NULL
           \/ "memory" \in Failures
           \/ \A i \in DOMAIN elems[root[Slot(t)]] :
                ~FoundAt(elems[root[Slot(t)]], name[t], i)
        /\ Leave(t)
        /\ UNCHANGED heapVars
  /\ UNCHANGED <<mount, remote, cacheVars>>

\* Fault: an early return of a caller forgets the reference.
UseLeaking(t) ==
  /\ pc[t] = "use"
  /\ \/ DecrefEntry(held[t][1], held[t][2])
     \/ UNCHANGED heapVars
  /\ Leave(t)
  /\ UNCHANGED <<mount, remote, cacheVars>>

\* getInfo(), openFile() and readFile() copy what they need and give the
\* reference back on every return.
Use(t) ==
  /\ pc[t] = "use"
  /\ DecrefEntry(held[t][1], held[t][2])
  /\ Leave(t)
  /\ UNCHANGED <<mount, remote, cacheVars>>

\* loadDir() passes the entries of the listing to the kernel's filler.
Walk(t) ==
  /\ pc[t] = "walk"
  /\ Leave(t)
  /\ UNCHANGED <<mount, remote, cacheVars, heapVars>>

-----------------------------------------------------------------------------
(* The server, the end of a thread and the end of the mount                *)

Upload(d) ==
  /\ remote' \in {[remote EXCEPT ![d] = l] : l \in Listings[d]}
  /\ UNCHANGED <<mount, cacheVars, heapVars, localVars>>

\* destroy_thread_pathinfo(): libfuse ends idle workers and starts new ones,
\* and joins them all before the unmount; Main never ends before that.
ThreadExit(t) ==
  /\ t # Main
  /\ pc[t] = "idle"
  /\ DecrefTree(root[t])
  /\ root' = [root EXCEPT ![t] = NULL]
  /\ path' = [path EXCEPT ![t] = NULL]
  /\ UNCHANGED <<mount, remote, localVars>>

\* Fault: the tree of the calling thread is not freed.
DestroyLeaking ==
  /\ \A t \in Threads : pc[t] = "idle"
  /\ \A t \in Threads \ {Main} : root[t] = NULL /\ path[t] = NULL
  /\ root' = [root EXCEPT ![Main] = NULL]
  /\ path' = [path EXCEPT ![Main] = NULL]
  /\ mount' = "unmounted"
  /\ UNCHANGED <<remote, heapVars, localVars>>

\* destroy_callback(), after libfuse has joined the workers.
Destroy ==
  /\ \A t \in Threads : pc[t] = "idle"
  /\ \A t \in Threads \ {Main} : root[t] = NULL /\ path[t] = NULL
  /\ DecrefTree(root[Main])
  /\ root' = [root EXCEPT ![Main] = NULL]
  /\ path' = [path EXCEPT ![Main] = NULL]
  /\ mount' = "unmounted"
  /\ UNCHANGED <<remote, localVars>>

-----------------------------------------------------------------------------
Init ==
  /\ mount = "up"
  /\ remote \in {r \in [Folders -> UNION {Listings[d] : d \in Folders}] :
                   \A d \in Folders : r[d] \in Listings[d]}
  /\ path = [t \in Threads |-> NULL]
  /\ root = [t \in Threads |-> NULL]
  /\ elems = [j \in Trees |-> << >>]
  /\ treeRefs = [j \in Trees |-> 0]
  /\ refs = [j \in Trees |-> << >>]
  /\ pc = [t \in Threads |-> "idle"]
  /\ dir = [t \in Threads |-> NULL]
  /\ name = [t \in Threads |-> NULL]
  /\ answer = [t \in Threads |-> NULL]
  /\ held = [t \in Threads |-> NULL]

ThreadStep(t) ==
  \/ Begin(t)
  \/ Update(t)
  \/ Fetch(t)
  \/ Load(t)
  \/ Search(t)
  \/ Use(t)
  \/ Walk(t)
  \/ ThreadExit(t)

Next ==
  /\ mount = "up"
  /\ \/ \E t \in Threads : ThreadStep(t)
     \/ \E d \in Folders : Upload(d)
     \/ Destroy

Spec == Init /\ [][Next]_vars

-----------------------------------------------------------------------------
Pcs == {"idle", "update", "fetch", "load", "search", "walk", "use"}

AnyList == Seq([name : Names \cup {NULL}, path : Folders])

TypeOK ==
  /\ mount \in {"up", "crashed", "unmounted"}
  /\ remote \in [Folders -> AnyList \cup {NULL}]
  /\ path \in [Threads -> Folders \cup {NULL}]
  /\ root \in [Threads -> Trees \cup {NULL}]
  /\ elems \in [Trees -> AnyList]
  /\ treeRefs \in [Trees -> Nat]
  /\ DOMAIN refs = Trees
  /\ \A j \in Trees : refs[j] \in [DOMAIN elems[j] -> Nat]
  /\ pc \in [Threads -> Pcs]
  /\ dir \in [Threads -> Folders \cup {NULL}]
  /\ name \in [Threads -> Names \cup {NULL}]
  /\ answer \in [Threads -> [from : Folders, list : AnyList] \cup {NULL}]
  /\ held \in [Threads -> (Trees \X Nat) \cup {NULL}]

OfFolder(l, d) == \A i \in DOMAIN l : l[i].path = d

\* The listing a handler looks into, or shows to the kernel, is there and is
\* the listing of the folder it was asked about, although the listing is kept
\* from an earlier request, other threads move through other folders and the
\* server may answer with the root's listing.  Otherwise "AnotherFolder" would
\* appear in itself without end.
ListingOfFolder ==
  \A t \in Threads :
    pc[t] \in {"search", "walk"} =>
      /\ root[Slot(t)] # NULL
      /\ OfFolder(elems[root[Slot(t)]], dir[t])

\* Every JSON array has one reference from the cache that keeps it, every
\* entry one from its array and one from each handler that holds it: nothing
\* is freed while it is in use, and nothing is left over.
RefsBalanced ==
  \A j \in Trees :
    /\ treeRefs[j] = Cardinality({t \in Threads : root[t] = j})
    /\ \A i \in DOMAIN refs[j] :
         refs[j][i] = treeRefs[j] + Cardinality({t \in Threads : held[t] = <<j, i>>})

\* After the unmount no listing is left in memory.
UnmountedMeansFreed ==
  mount = "unmounted" =>
    \A j \in Trees :
      treeRefs[j] = 0 /\ \A i \in DOMAIN refs[j] : refs[j][i] = 0

\* "Server returned data for wrong path!" is logged for answers that are not
\* the listing of the requested folder.
RefusedMeansWrong ==
  \A t \in Threads :
    pc[t] = "load" /\ answer[t].from = dir[t] =>
      Belongs(dir[t], answer[t].list)

-----------------------------------------------------------------------------
\* The listing of TheFolder thread t works with: the one it keeps, or the one
\* that is on its way and will be accepted.
View(t) ==
  IF root[t] # NULL /\ path[t] = TheFolder
    THEN elems[root[t]]
    ELSE IF /\ pc[t] = "load" /\ dir[t] = TheFolder
            /\ Belongs(TheFolder, answer[t].list)
           THEN answer[t].list
           ELSE NULL

Folder == INSTANCE FolderListing WITH
  Listings <- Listings[TheFolder],
  remote <- remote[TheFolder],
  cache <- [t \in Threads |-> View(t)]

\* The thread-local caches, in which folders replace one another and requests
\* fail halfway, give each thread a private, whole and genuine listing of each
\* folder below the root.
ImplementsFolderListing == Folder!Spec
=============================================================================
