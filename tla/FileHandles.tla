---------------------------- MODULE FileHandles ----------------------------
(***************************************************************************)
(* open, read and release of a mounted file system: the FUSE callbacks of  *)
(* src/fused-shaperhub.c with everything they call in fuse-dataloader.c    *)
(* and data-container.c, run by several worker threads of libfuse on top   *)
(* of the open-file manager.                                               *)
(*                                                                         *)
(* A handler is cut into steps where other threads can get in between: at  *)
(* the HTTP calls, at every call that takes and drops ofm_lock, and at the *)
(* accesses to a context that are made without the lock.                   *)
(*                                                                         *)
(* The files live in one remote folder.  remote is what the server lists   *)
(* now; cache[t] is the listing thread t keeps in thread-local storage,    *)
(* which is never refreshed while the thread stays in that folder.  Their  *)
(* steps are those of FolderListing, which PathCache implements.           *)
(***************************************************************************)
EXTENDS OpenFileManager

CONSTANTS
  Threads,        \* worker threads of libfuse
  Handles,        \* open files of the kernel
  RemoteBlobs,    \* RemoteBlobs[p]: the blobs path p has over time; NULL is
                  \* an entry that is missing or has no "blob"
  EmptyBlobs,     \* blobs whose content is zero bytes long
  Alone,          \* the files that are used by one handle at a time
  HandleOverlap   \* how the other files are used

\* What the programs that use the mount do.  A file of Alone is opened only
\* when the release of every earlier handle that overlaps it has been handled.
\* The others: "releasing": a program that opens a file again after closing
\* it; FUSE does not wait for the release.  "any": no restriction, as for two
\* programs that use the same file.
HandleOverlaps == {"releasing", "any"}

ASSUME FileHandlesAssumption ==
  /\ RemoteBlobs \in [Paths -> SUBSET (Blobs \cup {NULL})]
  /\ EmptyBlobs \subseteq Blobs
  /\ Alone \subseteq Paths
  /\ \A p \in Alone, q \in Paths : Overlap(p, q) => q \in Alone
  /\ HandleOverlap \in HandleOverlaps
  /\ NULL \notin Handles
  /\ NULL \notin [Paths -> Blobs \cup {NULL}]

VARIABLES
  mount,     \* "up", "crashed" or "unmounted"
  remote,    \* the server's listing
  hstate,    \* per handle: "closed", "opening", "open" or "releasing"
  hpath,     \* the path a handle was opened with
  opened,    \* did fsh_datacontainer_openFile() return 0 for the handle
  cache,     \* per thread: the cached listing, or NULL
  pc,        \* per thread: the next step of its handler
  hdl,       \* per thread: the handle its handler works for
  blob,      \* per thread: the local copy of the blob identifier
  file       \* per thread: the local pointer to a context

kernelVars == <<mount, hstate, hpath, opened>>
localVars == <<pc, hdl, blob, file>>
vars == <<ofmVars, kernelVars, remote, cache, localVars>>

OpenPcs == {"open_resolve", "open_check", "open_register", "open_request",
            "open_store"}
ReadPcs == {"read_resolve", "read_lookup", "read_register", "read_compare",
            "read_copy"}

\* The path of the handle thread t works for.
TPath(t) == hpath[hdl[t]]

Goto(t, l) == pc' = [pc EXCEPT ![t] = l]

\* The handler returns: its locals are gone.
Leave(t) ==
  /\ Goto(t, "idle")
  /\ hdl' = [hdl EXCEPT ![t] = NULL]
  /\ blob' = [blob EXCEPT ![t] = NULL]
  /\ file' = [file EXCEPT ![t] = NULL]

-----------------------------------------------------------------------------
(* The server and the thread-local listing                                 *)

Folder == INSTANCE FolderListing WITH Listings <- [Paths -> Blobs \cup {NULL}]

\* A file is replaced, deleted or restored by another client.
Upload(p) ==
  /\ remote' \in {[remote EXCEPT ![p] = b] : b \in RemoteBlobs[p]}
  /\ UNCHANGED <<ofmVars, kernelVars, cache, localVars>>

\* getActualSubelement() and the copy of "blob" into a local buffer: b is the
\* entry's blob in the cached listing, fetched first if there is none.  b is
\* NULL if the listing cannot be had, if there is no memory for a copy of the
\* path, before or after the listing is fetched, or if the entry has no blob.
Resolve(t, b) ==
  \/ /\ cache[t] # NULL
     /\ b = cache[t][TPath(t)]
     /\ UNCHANGED cache
  \/ /\ Folder!Fetch(t)
     /\ b = remote[TPath(t)]
  \/ /\ cache[t] = NULL
     /\ "listing" \in Failures
     /\ b = NULL
     /\ UNCHANGED cache
  \/ /\ "memory" \in Failures
     /\ b = NULL
     /\ UNCHANGED cache \/ Folder!Fetch(t)

\* The idle thread serves a request in another folder, whose listing replaces
\* the cached one, or ends and is replaced by a new thread.
SwitchFolder(t) ==
  /\ pc[t] = "idle"
  /\ Folder!Drop(t)
  /\ UNCHANGED <<ofmVars, kernelVars, remote, localVars>>

-----------------------------------------------------------------------------
(* open: open_callback() and fsh_datacontainer_openFile()                  *)

Blocks(h, p) ==
  \/ p \in Alone /\ hstate[h] # "closed"
  \/ HandleOverlap = "releasing" /\ hstate[h] \in {"opening", "open"}

MayOpen(p) == \A h \in Handles : Blocks(h, p) => ~Overlap(p, hpath[h])

Open(t, h, p) ==
  /\ pc[t] = "idle"
  /\ hstate[h] = "closed"
  /\ MayOpen(p)
  /\ hstate' = [hstate EXCEPT ![h] = "opening"]
  /\ hpath' = [hpath EXCEPT ![h] = p]
  /\ Goto(t, "open_resolve")
  /\ hdl' = [hdl EXCEPT ![t] = h]
  /\ UNCHANGED <<ofmVars, mount, opened, remote, cache, blob, file>>

\* open_callback() drops the result and answers 0: the kernel has an open
\* file whatever happened.
ReturnOpen(t, ok) ==
  /\ hstate' = [hstate EXCEPT ![hdl[t]] = "open"]
  /\ opened' = [opened EXCEPT ![hdl[t]] = ok]
  /\ Leave(t)
  /\ UNCHANGED <<mount, hpath>>

OpenResolve(t) ==
  /\ pc[t] = "open_resolve"
  /\ \E b \in Blobs \cup {NULL} :
       /\ Resolve(t, b)
       /\ \/ b = NULL /\ ReturnOpen(t, FALSE)
          \/ /\ b # NULL
             /\ blob' = [blob EXCEPT ![t] = b]
             /\ Goto(t, "open_check")
             /\ UNCHANGED <<kernelVars, hdl, file>>
  /\ UNCHANGED <<ofmVars, remote>>

\* "File already opened": success, without taking a reference.
OpenCheck(t) ==
  /\ pc[t] = "open_check"
  /\ \E c \in Ctxs \cup {NULL} :
       /\ getFileContext(TPath(t), c)
       /\ \/ c # NULL /\ ReturnOpen(t, TRUE)
          \/ /\ c = NULL
             /\ Goto(t, "open_register")
             /\ UNCHANGED <<kernelVars, hdl, blob, file>>
  /\ UNCHANGED <<ofmVars, remote, cache>>

OpenRegister(t) ==
  /\ pc[t] = "open_register"
  /\ \E c \in Ctxs \cup {NULL} :
       /\ openFile(TPath(t), blob[t], c)
       /\ \/ c = NULL /\ ReturnOpen(t, FALSE)
          \/ /\ c # NULL
             /\ file' = [file EXCEPT ![t] = c]
             /\ Goto(t, "open_request")
             /\ UNCHANGED <<kernelVars, hdl, blob>>
  /\ UNCHANGED <<remote, cache>>

\* The URL is built from file->blobID.  Freed memory can hold any identifier.
OpenRequest(t) ==
  /\ pc[t] = "open_request"
  /\ \E b \in IF file[t] \in Listed THEN {blobID[file[t]]} ELSE Blobs :
       blob' = [blob EXCEPT ![t] = b]
  /\ Goto(t, "open_store")
  /\ UNCHANGED <<ofmVars, kernelVars, remote, cache, hdl, file>>

\* The answer arrives and is stored through &file->memory; a store into freed
\* memory is lost, unless it does harm (Damage).
StoreDownload(t, content) ==
  IF file[t] \in Listed
    THEN StoreMemory(file[t], content)
    ELSE UNCHANGED ofmVars

\* Fault: the error of fsh_httpconnector_OpenFile() is not passed on.
OpenStoreUnchecked(t) ==
  /\ pc[t] = "open_store"
  /\ \E content \in {blob[t], NULL} : StoreDownload(t, content)
  /\ ReturnOpen(t, TRUE)
  /\ UNCHANGED <<remote, cache>>

OpenStore(t) ==
  /\ pc[t] = "open_store"
  /\ \/ /\ blob[t] \notin EmptyBlobs
        /\ StoreDownload(t, blob[t])
        /\ ReturnOpen(t, TRUE)
     \/ /\ "status" \in Failures
        /\ StoreDownload(t, ErrorPage)
        /\ ReturnOpen(t, TRUE)
     \/ /\ "download" \in Failures
        /\ ReturnOpen(t, FALSE)
        /\ UNCHANGED ofmVars
     \/ \* httpGETRequest() terminates a body it never allocated, that of a
        \* blob or of an error answer
        /\ blob[t] \in EmptyBlobs \/ "status" \in Failures
        /\ mount' = "crashed"
        /\ UNCHANGED <<ofmVars, hstate, hpath, opened, localVars>>
  /\ UNCHANGED <<remote, cache>>

-----------------------------------------------------------------------------
(* read: read_callback(), fileReader() and fsh_datacontainer_readFile()    *)

Read(t, h) ==
  /\ pc[t] = "idle"
  /\ hstate[h] = "open"
  /\ Goto(t, "read_resolve")
  /\ hdl' = [hdl EXCEPT ![t] = h]
  /\ UNCHANGED <<ofmVars, kernelVars, remote, cache, blob, file>>

ReadResolve(t) ==
  /\ pc[t] = "read_resolve"
  /\ \E b \in Blobs \cup {NULL} :
       /\ Resolve(t, b)
       /\ \/ b = NULL /\ Leave(t)
          \/ /\ b # NULL
             /\ blob' = [blob EXCEPT ![t] = b]
             /\ Goto(t, "read_lookup")
             /\ UNCHANGED <<hdl, file>>
  /\ UNCHANGED <<ofmVars, kernelVars, remote>>

\* Fault: the read takes a reference that no one gives back.
ReadLookupCounting(t) ==
  /\ pc[t] = "read_lookup"
  /\ \E c \in Ctxs :
       /\ openFile(TPath(t), blob[t], c)
       /\ file' = [file EXCEPT ![t] = c]
       /\ Goto(t, "read_compare")
  /\ UNCHANGED <<kernelVars, remote, cache, hdl, blob>>

ReadLookup(t) ==
  /\ pc[t] = "read_lookup"
  /\ \E c \in Ctxs \cup {NULL} :
       /\ getFileContext(TPath(t), c)
       /\ file' = [file EXCEPT ![t] = c]
       /\ Goto(t, IF c = NULL THEN "read_register" ELSE "read_compare")
  /\ UNCHANGED <<ofmVars, kernelVars, remote, cache, hdl, blob>>

\* A read of a file without a context registers one, and downloads nothing.
ReadRegister(t) ==
  /\ pc[t] = "read_register"
  /\ \E c \in Ctxs \cup {NULL} :
       /\ openFile(TPath(t), blob[t], c)
       /\ \/ c = NULL /\ Leave(t)
          \/ /\ c # NULL
             /\ file' = [file EXCEPT ![t] = c]
             /\ Goto(t, "read_compare")
             /\ UNCHANGED <<hdl, blob>>
  /\ UNCHANGED <<kernelVars, remote, cache>>

\* Fault: the context's blob is not compared with the listed one.
ReadCompareUnchecked(t) ==
  /\ pc[t] = "read_compare"
  /\ Goto(t, "read_copy")
  /\ UNCHANGED <<ofmVars, kernelVars, remote, cache, hdl, blob, file>>

ReadCompare(t) ==
  /\ pc[t] = "read_compare"
  /\ \/ /\ file[t] \in Listed => blobID[file[t]] = blob[t]
        /\ Goto(t, "read_copy")
        /\ UNCHANGED <<hdl, blob, file>>
     \/ /\ file[t] \in Listed => blobID[file[t]] # blob[t]
        /\ Leave(t)
  /\ UNCHANGED <<ofmVars, kernelVars, remote, cache>>

\* memory is NULL: the read fails.  Otherwise the requested part of
\* memory[file[t]] is the reader's data.
ReadCopy(t) ==
  /\ pc[t] = "read_copy"
  /\ Leave(t)
  /\ UNCHANGED <<ofmVars, kernelVars, remote, cache>>

\* A store into freed memory, or a copy out of it, may damage the heap or end
\* the process: from then on nothing is known of the program.
Damage(t) ==
  /\ pc[t] \in {"open_store", "read_copy"}
  /\ file[t] \notin Listed
  /\ mount' = "crashed"
  /\ UNCHANGED <<ofmVars, hstate, hpath, opened, remote, cache, localVars>>

-----------------------------------------------------------------------------
(* release, and the end of the mount                                       *)

\* The last reference to the kernel's file is dropped: no request for it is
\* in flight, and FUSE queues a release.
Close(h) ==
  /\ hstate[h] = "open"
  /\ \A t \in Threads : hdl[t] # h
  /\ hstate' = [hstate EXCEPT ![h] = "releasing"]
  /\ UNCHANGED <<ofmVars, mount, hpath, opened, remote, cache, localVars>>

Release(t, h) ==
  /\ pc[t] = "idle"
  /\ hstate[h] = "releasing"
  /\ closeFile(hpath[h])
  /\ hstate' = [hstate EXCEPT ![h] = "closed"]
  /\ hpath' = [hpath EXCEPT ![h] = NULL]
  /\ opened' = [opened EXCEPT ![h] = FALSE]
  /\ UNCHANGED <<mount, remote, cache, localVars>>

\* destroy_callback(), after libfuse has joined the workers.
Destroy ==
  /\ \A t \in Threads : pc[t] = "idle"
  /\ closeAllFiles
  /\ mount' = "unmounted"
  /\ cache' = [t \in Threads |-> NULL]
  /\ UNCHANGED <<hstate, hpath, opened, remote, localVars>>

-----------------------------------------------------------------------------
FHInit ==
  /\ Init
  /\ mount = "up"
  /\ remote \in {r \in [Paths -> Blobs \cup {NULL}] :
                   \A p \in Paths : r[p] \in RemoteBlobs[p]}
  /\ hstate = [h \in Handles |-> "closed"]
  /\ hpath = [h \in Handles |-> NULL]
  /\ opened = [h \in Handles |-> FALSE]
  /\ cache = [t \in Threads |-> NULL]
  /\ pc = [t \in Threads |-> "idle"]
  /\ hdl = [t \in Threads |-> NULL]
  /\ blob = [t \in Threads |-> NULL]
  /\ file = [t \in Threads |-> NULL]

OpenStep(t) ==
  \/ OpenResolve(t)
  \/ OpenCheck(t)
  \/ OpenRegister(t)
  \/ OpenRequest(t)
  \/ OpenStore(t)

ReadStep(t) ==
  \/ ReadResolve(t)
  \/ ReadLookup(t)
  \/ ReadRegister(t)
  \/ ReadCompare(t)
  \/ ReadCopy(t)

ThreadStep(t) ==
  \/ OpenStep(t)
  \/ ReadStep(t)
  \/ Damage(t)
  \/ SwitchFolder(t)
  \/ \E h \in Handles : Read(t, h) \/ Release(t, h)
  \/ \E h \in Handles, p \in Paths : Open(t, h, p)

FHNext ==
  /\ mount = "up"
  /\ \/ \E t \in Threads : ThreadStep(t)
     \/ \E h \in Handles : Close(h)
     \/ \E p \in Paths : Upload(p)
     \/ Destroy

FHSpec == FHInit /\ [][FHNext]_vars

-----------------------------------------------------------------------------
FHTypeOK ==
  /\ TypeOK
  /\ mount \in {"up", "crashed", "unmounted"}
  /\ remote \in [Paths -> Blobs \cup {NULL}]
  /\ hstate \in [Handles -> {"closed", "opening", "open", "releasing"}]
  /\ hpath \in [Handles -> Paths \cup {NULL}]
  /\ opened \in [Handles -> BOOLEAN]
  /\ cache \in [Threads -> [Paths -> Blobs \cup {NULL}] \cup {NULL}]
  /\ pc \in [Threads -> {"idle"} \cup OpenPcs \cup ReadPcs]
  /\ hdl \in [Threads -> Handles \cup {NULL}]
  /\ blob \in [Threads -> Blobs \cup {NULL}]
  /\ file \in [Threads -> Ctxs \cup {NULL}]

\* A handler works with the FileMemoryStruct_t it got from the open-file
\* manager after ofm_lock has been dropped, over an HTTP download and a
\* memcpy(): no other thread frees it in the meantime.
NoDanglingContext == \A t \in Threads : file[t] # NULL => file[t] \in Listed

\* The bytes a read copies out of a context are the content of the blob its
\* own thread's listing names for the file at that time, although listings
\* differ between threads, files are replaced on the server while they are
\* open, and contexts are shared and left behind.  An error page that was
\* stored as the content is the exception: the code does not tell it apart.
ReadMatchesListing ==
  \A t \in Threads :
    pc[t] = "read_copy" /\ memory[file[t]] \notin {NULL, ErrorPage} =>
      memory[file[t]] = blob[t]

\* A finished download goes into a context that is alive and still has no
\* content: the buffer neither replaces one that then can never be freed,
\* nor ends up in memory that belongs to something else.
DownloadTargetEmpty ==
  \A t \in Threads :
    pc[t] = "open_store" => file[t] \in Listed /\ memory[file[t]] = NULL

\* A file that is used by one handle at a time, and whose opening succeeded,
\* has its content until its own release.  Other files may meanwhile be opened
\* twice, lose their context to the first of two releases, be left behind, and
\* be used through pointers to freed contexts whose addresses this file may
\* have been given: none of it takes the content away.
OpenedStaysReadable ==
  \A h \in Handles :
    mount = "up" /\ hstate[h] = "open" /\ opened[h] /\ hpath[h] \in Alone =>
      \E c \in Listed : getFileContext(hpath[h], c) /\ memory[c] # NULL

\* A read of a file that is used by one handle at a time, and whose opening
\* succeeded, never has to register a context, and has bytes to copy once the
\* blobs agree, on whichever thread it runs and however other files are used.
OpenedReadsFindContent ==
  \A t \in Threads :
    pc[t] \in ReadPcs /\ opened[hdl[t]] /\ TPath(t) \in Alone =>
      /\ pc[t] # "read_register"
      /\ pc[t] = "read_copy" => memory[file[t]] # NULL

\* A file that is used by one handle at a time leaves no context behind when
\* that handle has been released, however its opening, its reads and the use
\* of other files went.
ClosedMeansGone ==
  \A p \in Alone :
    (\A h \in Handles : hstate[h] # "closed" => hpath[h] # p) =>
      \A c \in Listed : openedPath[c] # p

\* No answer of the server brings the mounted file system down.
NeverCrashes == mount # "crashed"
=============================================================================
