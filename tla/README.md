# A verification of Fused ShaperHub

Fused ShaperHub mounts the files of a ShaperHub account with FUSE. The kernel's
requests arrive on several libfuse worker threads; folder listings and file
contents come from an HTTP server; listings are cached per thread, and the
contents of open files are kept in a list shared by all threads. This directory
holds TLA+ models of that program, the TLC configurations that check them, and
proofs checked by TLAPS.

## The system

| component | state | operations |
|---|---|---|
| FUSE callbacks, `src/fused-shaperhub.c` | none of their own | `getattr`, `readdir`, `open`, `read`, `release`, `destroy`; `mkdir`, `rename`, `write`, `truncate`, `utime` answer success and do nothing; `mknod`, `rmdir`, `init` exist but are not registered |
| loader, `src/fuse-dataloader.c` | none | adapts FUSE arguments; copies the bytes of a read out of an open file's buffer |
| data container, `src/data-container.c` | per thread: the path and JSON tree of the last listing (`pthread_key`) | `updatePathInfo` (fetch or reuse), `getActualSubelement`, `getInfo`, `loadDir`, `openFile`, `readFile`, `createFile`, `closeFile`, `container_destroy` |
| open-file manager, `src/open-file-manager.c` | list of contexts (path, blob id, buffer, reference count), its counter, `ofm_lock` | `getFileContext`, `openFile`, `closeFile`, `closeAllFiles` |
| HTTP connector, `src/http-connector.c` | one response buffer per request | `ListPath`, `OpenFile`, `httpGETRequest`, `escapeURL` |
| allocation counter, `src/alloc.c` | one unsynchronised integer | `MALLOC`, `REALLOC`, `FREE`, checked at unmount |

**How they interact.** `open` resolves the path in the thread's listing, looks in
the shared list, registers a context and downloads the blob into it. `read`
resolves the path again, on whatever thread it arrives, finds the context, compares
blob identifiers and copies. `release` closes by path. FUSE delivers `release`
without waiting for it, so even a single program that closes a file and opens it
again overlaps with itself. The list is only protected inside each call of the
open-file manager; the pointer such a call returns is used without the lock.

**What is hard.** The interleaving of handlers around pointers obtained under a
lock that is no longer held; reference counts that are taken by path and by some
callers only; results that are dropped (`open_callback` answers 0 whatever
happened); listings that differ between threads; and a path comparison that is
really a prefix comparison. The list of hazards with their lines is in
`PROJECT.json`.

**What makes each component correct.**
- open-file manager: each path has at most one context; a context lives exactly
  while it has references; the counter equals the list's length; a request reaches
  the context of its own path.
- handlers: no use of a freed context; a read returns bytes of the blob its
  listing names; an opened file stays readable until its own release; nothing is
  left behind when a file is closed. The code keeps to these for files that are used by
  one handle at a time; the violation runs show what it does otherwise.
- directory cache: a cached listing belongs to its key; no JSON value is
  used after it is freed, none is left over; a thread never sees another thread's
  listing.
- HTTP connector: every buffer has one owner on every path out of a request; a
  request succeeds only with the whole body; libcurl's initialisations and cleanups
  balance; the escaped URL fits its buffer and names the folder that was asked for.
- allocation counter: it counts the live allocations as long as no two updates
  overlap.
- the stateless functions: a folder has one cache key; consecutive reads join; readdir
  and getattr agree on a listing.

## Modules

| module | models | |
|---|---|---|
| `PathMatch` | `open-file-manager.c:49-51`, `88-90`, `131-132` | the length arithmetic and `strncmp()` that decide whether an entry answers a path |
| `OpenFileTable` | (specification) | what the manager promises: one reference counter, blob and content per path |
| `OpenFileManager` | `open-file-manager.c` | the list; each public function is one action, because it holds `ofm_lock` throughout |
| `OpenFileList` | `open-file-manager.c` | the same functions inside their critical sections: the mutex, the walk node by node, the links, the counter, every allocation and `FREE` |
| `FolderListing` | (specification) | what a handler may rely on when it looks into a folder: a private, whole, genuine listing, dropped and fetched anew |
| `PathCache` | `data-container.c:57-401`, `562-577`, the listing half of `http-connector.c` | the listings: each thread's cache, the reference counts of JSON values, lookups, `readdir`, the end of a thread and of the mount |
| `FileHandles` | `fused-shaperhub.c`, `fuse-dataloader.c`, `data-container.c`, `http-connector.c` for file content | several threads running `open`, `read` and `release`, one action per stretch of code between HTTP calls, lock acquisitions and unlocked accesses to a context |
| `HttpConnector` | `http-connector.c`, `alloc.c` | several threads running requests: what each allocates and frees on which path, the body chunk by chunk, libcurl's initialisation count, the allocation counter as a load and a store |
| `UrlPath` | `http-connector.c` | `escapeURL()` and its buffer, the cuts, `checkPathLen()`, and how a server reads the URL |
| `FolderKeys` | `data-container.c` | the path under which each handler looks for a folder in the cache, and the path an answer must have |
| `FolderView` | `data-container.c`, `fuse-dataloader.c` | what readdir and getattr make of an entry's fields |
| `ReadSlice` | `fuse-dataloader.c` | the bytes a read copies |
| `MCAlgorithms` | | the functions of the last four modules and of `PathMatch` over all bounded inputs, and their properties |
| `*_proofs` | | theorems |
| other `MC*` | | constants for TLC |

`FileHandles` extends `OpenFileManager` and takes its steps: the operators
`getFileContext(p, c)`, `openFile(p, b, c)` and `closeFile(p)` relate the
arguments of the C functions to their result `c`. `OpenFileManager` extends
`PathMatch`, and relates itself to `OpenFileTable` by the mapping under `Table`.
`OpenFileList` in turn implements `OpenFileManager` by the mapping under `Manager`, so the
manager appears at three levels: a counter per path, a sequence changed atomically, and
nodes on a heap.

`FolderListing` sits between the two halves. `PathCache` implements it for each
folder below the root, by the mapping `View`; `FileHandles` takes its steps
`Fetch` and `Drop` from it for the one folder its files live in. So
the handlers are checked against what the cache has been shown to give them,
without the cache's state.

`HttpConnector` refines in another direction: what the other modules take as one outcome of a
download or a listing (success with the whole body, or failure that stores nothing) is there
every allocation and every branch. `FolderKeys` justifies that `PathCache` speaks of folders where
the code has keys with and without slashes, `ReadSlice` that `FileHandles` speaks of a
content and not of its bytes.

**State.** A context is the pair of the list node and its `FileMemoryStruct_t`;
they are allocated and freed together, and `Ctxs` stands for their addresses. An
address outside the list is freed memory that `openFile` may be given again, so a
stale pointer can find itself pointing into another file's context. A blob's content
is named by the blob; `ErrorPage` is the body of an HTTP error answer. The fields
of freed memory are shown as `NULL`.

**The list on the heap.** A `node` is an `OpenFileList_t`, a `file` a `FileMemoryStruct_t`; `NULL`
marks an address that is not allocated. `pc[t]` is the place in a function (`get`, `open`,
`alloc_file`, `close`, `free`, `closeAll`, `sweep`), `cur[t]` and `prev[t]` its two cursors: the second is
`previousFileInList` in `closeFile()` and `next` in `closeAllFiles()`, whose loop is two steps, `Sweep`
(read the next node) and `FreeSwept` (free the current one and move on). A call waits
in `lock` for the mutex; `Return` unlocks. `ListSeq` reads the list off the heap for the mapping, and
`InFlight` accounts for the moments at which `openFiles` runs ahead of or behind the list.

**Requests.** `seg[t]` is the set of segments the locals of thread `t`'s request point to: the
escaped path, the URL, the `MemoryStruct` chunk and its body. Each `FREE` on the way out is a step of
its own (`drop_*` on an error path, `free_*` at the end). What a blob request stored stays in
`kept` until a `Release`, on any thread, frees it. Every `MALLOC` and `FREE` first loads
`alloc_counter` into `reg[t]` and stores the sum in a second step; `slipped` remembers that two
such pairs have overlapped or that an allocation failed (it is counted all the same).

**Handlers.** `pc[t]` is the step thread `t` has reached, `hdl[t]` the kernel's
open file it works for, `blob[t]` and `file[t]` its local copies. A read through a
stale pointer is a choice over everything freed memory may hold (`OpenRequest`,
`ReadCompare`); a store through it is lost, or lands in the context that has the
address by then, or does harm: `Damage` ends the model, for nothing can be said of a program with
a damaged heap. What is claimed of a file while *other* files are used through stale pointers is therefore
claimed up to such damage.

**Listings.** `path[t]` and `root[t]` are the `PathInfo_t` of thread `t`, `Trees`
the addresses of JSON trees. A tree is an array with its entries; as in Jansson every
value has its own count (`treeRefs`, `refs`), and an entry that a handler holds
(`held`) survives its array. An entry keeps its `"name"` and its `"path"`: what else is in
it is copied by the handler that holds it. One request is `Begin`, `Update`
(cache hit, or the old tree is dropped), `Fetch` (the server's answer), `Load` (parsing and the check
that the answer is of the right folder), then `Search` and `Use` for a lookup or
`Walk` for `readdir`; only the steps of other threads and of the server come in
between. `View(t)` is the tree the thread keeps for the folder, or an answer on
its way that will pass the check: the moment the server answers is the
moment `FolderListing` fetches.

**The kernel.** A handle goes through `opening`, `open`, `releasing` and `closed`.
`Close` waits for the handle's requests, as the kernel does; `Release` comes at any
later time. Two constants say how programs use the files. A file of `Alone` is *used by one handle at a
time*: it is opened only when the release of every earlier handle on an overlapping path has been
handled. How the other files are used is `HandleOverlap`: `"releasing"` (a program that closes a file and
opens it again, without the release in between, which FUSE does not wait for) or `"any"` (no restriction, as for
two programs that share a file). `Alone` is closed under overlapping paths, because the code takes a
path that begins another for the same file. It is a condition on the programs, which neither
FUSE nor the code enforces: what is claimed of the files of `Alone` is not true of others, as the run `reopen`
shows.

**The server.** In `PathCache` a folder's listing goes through the values of
`Listings`, `NULL` being a folder the server does not know, for which it answers with an empty
array. In `FileHandles`, `Upload` changes what the server lists for a path. Each thread
holds the listing it fetched last; it is fetched anew only after the thread has
served a request in another folder (`SwitchFolder`), because `updatePathInfo` returns
the cached tree whenever the folder's path is the cached one.

**Faults.** Operators marked *Fault* are variants of an operation with a
plausible slip (a dropped check, a missing reset). They are not part of any
specification; each shows that a property can tell the slip from the code.

## Runs

Passing:

| run | question | bounds |
|---|---|---|
| `algorithms` | do the functions without state do what their callers need? | `MAX_PATH_LEN` 6. All pairs of paths over 2 characters up to length 8 (shorter, equal, longer than each other and than the limit); for URLs also all paths up to length 5 over 7 bytes: kept, escaped, `#`, `?`, `%`, `/`. All folders and names that fit. Contents up to 6 bytes with sizes and offsets of a 4-bit `size_t`. All listings of up to 2 entries with each field present, absent or of another type |
| `ofm_table` | does the list implement one counter per path? | 3 paths that do not begin one another, 2 blobs, 3 addresses, 3 references |
| `open_file_list` | does the list on the heap behave as atomic steps, and does every call come back? | 2 threads, 3 paths (two nested), 3 nodes, 3 files, 2 references, both allocations failing |
| `http` | who frees what, is an answer whole, is libcurl initialised while it is used, what does the counter count? | 2 threads, 3 requests of either kind, answers of 1 or 2 chunks, every failure but that of the first allocation of `httpGETRequest()` |
| `serial` | with every file used by one handle at a time: dangling pointers, wrong content, lost buffers, a wrong counter? | 2 threads, 2 handles, 3 paths (two nested, one apart), 2 blobs, 2 addresses, every failure |
| `listed` | while one file is used by several handles at once and through stale pointers: does an opened file that is not shared keep its content, do its reads find it on every thread, does it leave nothing behind, is any path listed twice? | 2 threads, 3 handles, 3 paths (two nested and in `Alone`, one shared), 2 blobs, 2 addresses, failures of downloads only |
| `path_cache` | does every answer come from a listing of its own folder, are JSON values freed once and in time, does the cache implement `FolderListing`? | 2 threads, the root, a folder below it and one that does not exist, 2 listings of each, 2 trees, every failure |

Two threads and two handles show every conflict between a handler and a handler
of the same or another file. In `listed` two of the three handles can share a file and the
third use another; there are two addresses, so that the one a stale pointer still holds is
given to the other file; two trees are enough because each thread keeps at most one; two blobs tell a file's old content from its new one. In
`MaxRefs` lies the only bound on a counter; the handlers never reach it, because only
a thread that has looked for a context when there was none adds a reference, so that a context has at most one per thread. In `open_file_list` a list
of three nodes has a head, a middle and an end to unlink, 3 addresses of each kind run out, and
`MaxRefs` 2 tells the last reference from an earlier one; two threads are enough because
only one is ever inside. In `http` a second chunk is what distinguishes growing a body from
starting one, and a third request lets a thread run one after the other while the second
thread is in its own.
`CHECK_DEADLOCK` is off in the runs of `FileHandles`, `PathCache` and `OpenFileList`, where the system
stops after an unmount or a crash, in `http`, which stops after `MaxRequests`, and in `algorithms`, whose
behaviours are one step long.

**Fairness.** Only `OpenFileList` has loops and waiting inside the program, and only it states
liveness: `EveryCallReturns`, a thread that got `ofm_lock` gives it back. It assumes weak
fairness of each thread's steps inside its critical section, which is what a scheduler
that lets a runnable thread run gives: no such step waits for anything. Nothing is assumed of
*who* gets the mutex (a pthread mutex is no queue), of threads outside
of it, or of the server; so nothing is claimed of them either.

Disagreements between code and documentation, each a run that TLC must find
violated:

| run | what happens | documented |
|---|---|---|
| `ofm_found` | a path is answered with the context of a longer path it begins | `open-file-manager.c:52`, "Found file OPEN" |
| `reopen` | a file is closed and opened again; the first handle's release, which may come late, frees the context the second one's read or download works with | `open-file-manager.h:9`, "Thread safety is ensured by an internal mutex (ofm_lock)" |
| `leftover` | after a failed listing, two reads count two references for one release: the context stays | `open-file-manager.h:7`, "keeps track of all currently opened files" |
| `empty` | a blob of zero bytes: a NUL is written through a NULL pointer | `data-container.c:141`, "Invalid httpResponseBuffer size" |
| `empty_folder` | the genuine listing of a folder without entries is refused, for every request anew | `data-container.c:183`, "Server returned data for wrong path!" |

The reason behind `reopen` is that an `open` that finds
the file open takes no reference (`data-container.c:433`), while the double-opening
branch of the manager, which does, is only reached in a race. Two programs that share a file come to
the same (`HandleOverlap = "any"`): after open, open, close the content is gone while the second handle is
open. More consequences can be had from the same module by
asking for them: with `Alone = {}` and `HandleOverlap = "any"`, `DownloadTargetEmpty` fails (two
openings download into one context, and one buffer is lost); with `"status"` among
`Failures`, an HTTP error page is stored as a file's content, which is why
`ReadMatchesListing` excepts `ErrorPage`.

Some failures are left out of a passing run because the code does not survive them; put back, TLC
finds the property violated:

| put back | violates | code |
|---|---|---|
| `FreshFile = {NULL, f1}` in `OpenFileList.cfg`: `malloc()` leaves something in the new node | `HeapMatchesList` | when the second `MALLOC` fails, `openFile()` frees `openedFile->file`, which was never set (`open-file-manager.c:109`) |
| `StackPointer = {"null", "garbage"}` in `HttpConnector.cfg` | `CounterCountsSegments` | when `escapeURL()` fails, `ListPath()` jumps over the declaration of `pathbuffer` and frees it (`http-connector.c:224`) |
| `"chunk"` among `Failures` in `HttpConnector.cfg` | `CurlBalanced` | `curl_global_cleanup()` runs without its `curl_global_init()`, and takes libcurl away from another thread's transfer (`http-connector.c:171`) |

## Proofs

All theorems are proved for every value of the constants that meets the named
assumptions: any alphabet and `MAX_PATH_LEN`, any sets of paths, blobs and
addresses, any number of threads and handles.

- `PathMatch_proofs`: `MatchesIsPrefix` (the comparison decides "begins with"),
  `MatchesReflexive`, and `CommonEntryOverlap`: two paths that one entry answers
  begin one another.
- `OpenFileManager_proofs`: the inductive invariant `ListInv` adds to types and
  counter that the list is *ordered* (`openFile` only puts an entry in front of
  entries its path does not match) and that listed contexts have a reference. Without
  the order, the removal of an entry from the middle could not be shown to keep
  paths unique. From it follow `TypeOK`, `CounterMatchesList` and `NoTwin`. Unlike the runs,
  the proof has no bound on references that matters: `MaxRefs` is arbitrary.
  `ImplementsTable` follows for paths that do not begin one another (`PathsApart`): with
  `ListInv` and `PathsApart` a request hits only its own path's context, of which there is one; so each
  step changes one row of the table (`OneRow`) and leaves the others (`RowKept`). There is one lemma per
  function of the manager.
- `OpenFileList_proofs`: the invariant `ListInv` says that *some* sequence of nodes, without
  repetition, explains the heap (`ListOK`): its links lead from `firstOpenFile` to `NULL`; the allocated
  nodes are those in it and the one in a thread's hand; each of these has a file of its own and no
  other file is allocated; `openFiles` is its length, but for the one moment at which the counter runs ahead;
  the walk of the thread inside stands at a place of it and has missed every entry before it. Each step
  is shown to leave such a sequence: the same one, with a node put in front, with one taken
  out, or without its head. `ChainIs` then shows that the sequence is what `Chain` collects, so that
  `TypeOK`, `HeapMatchesList` and `NoUseAfterFree` follow. `ImplementsManager`, the refinement, has one
  lemma per step: a call takes effect in `OpenAgain`, `AllocFile`, `DropReference`, `Unlink` or
  `CloseAll`, which is the manager's action, and no other step of it shows (`QuietStep`, `SweepQuiet`). All of it holds under
  `CleanNodes`: if the second allocation may fail, `malloc()` leaves `NULL` in a new node's `file`. Without
  it the code frees a pointer it never set (the table of failures put back, above). `NoUseAfterFree` is
  about walks, unlinkings and the sweep; of the step at which the second allocation is tried it claims nothing.
- `FileHandles_proofs`: the invariant `FHInv`, which holds however the files are used, ties a
  handler's step to its locals and its handle's state (`LocalsInv`), says that a
  handle is opened by one thread (`OneOpener`), that the handles in use on files of `Alone` are apart
  (`HandlesApart`), and what a thread that works for such a file may assume of the context it
  holds (`PointerOK`).
  The argument: a step of another thread can only disturb a context that answers
  the other thread's path; if it also answered this thread's path, the two paths would
  overlap (`CommonEntryOverlap`), so both work for the same handle, and an opener works
  alone; a store through a stale pointer changes no context's path, blob or count, and leaves a content where
  there was one. From it follow, without a condition, `FHTypeOK`, `CounterMatchesList` and `NoTwin`, and
  *if every file is used by one handle at a time* (`Alone = Paths`, a hypothesis of the theorems)
  `NoDanglingContext`, `ReadMatchesListing` and `DownloadTargetEmpty`: these speak of every thread, and a thread
  that works for a shared file does hold freed contexts.

- `PathCache_proofs`: `CacheInv` says what a handler knows at each of its steps
  (`LocalOK`), that a cached tree belongs to one thread, is of the folder its path names
  and has its references in order (`TreeOK`), that a tree in no cache is free
  (`FreeOK`), and that the server only serves listings of the folder asked for, or
  the root's (`RemoteOK` and the answers in `LocalOK`). `ListingOfFolder` alone is not
  inductive: a cache hit needs that the path and the tree of the cache belong
  together although they are replaced in separate steps, and that needs `LocalOK` of the steps in
  between. From it follow `TypeOK`, `ListingOfFolder`, `RefsBalanced`,
  `UnmountedMeansFreed` and `ImplementsFolderListing`. The refinement has one lemma
  per step, each saying what becomes of the view of the thread that takes
  it; `AbstractStep` turns that into a step of `FolderListing`.

- `HttpConnector_proofs`: the invariant says, for each step of a request, which segments it
  must and may own (`SegmentsOK`) and what it knows of its answer (`AnswerOK`). A request only touches
  its own thread's part of the state, so the steps of others preserve it trivially; the one
  exception is the body a `Release` takes over from another thread. `TypeOK`, `NothingLost` and
  `WholeBody` follow for any failures; `CurlBalanced`, a statement about all threads together, needs
  that the allocation of `httpGETRequest()`'s chunk succeeds, which is assumed by the theorem.
  `CounterCountsSegments` relates one integer to what all threads own. Its invariant adds that
  only one thread at a time is between the load and the store of the counter (`OneUpdate`), and that
  answers have their two segments (`AnswersHeld`); then a step has one of a few effects
  (`Effect`): none, a load, the store together with the one segment it is for, or an answer
  that changes its owner. The hypothesis is that `ListPath()` does not free a
  stack pointer that it has never set and that is not `NULL` (`http-connector.c:224`).
- `Algorithms_proofs`: `MatchIsPrefix`, `EscapeInBounds`, `UrlNamesPath`, `KeyNamesFolder`, `ReadsJoin`
  and `ViewsAgree` for every path, content and listing, of any length and over any characters,
  without the bounds of the run. One lemma per function says what it returns (where the last
  slash of a path is, which bytes a slice holds, which entry a name finds); the
  invariant of the one-step system only carries the types of the inputs.
  `UrlNamesPath` is about what a server *decodes*: by induction on the number of characters, it reads back
  every character that `escapeURL()` wrote (`ReadsBack`), and stops at the first `#` or `?`.

- `FileReferences_proofs`: `OpenedStaysReadable`, `OpenedReadsFindContent` and `ClosedMeansGone`, which
  speak of the files of `Alone`, for any set of such files and any use of the others, under
  `Served`: listings that can be had and name a blob for every file of `Alone`, and memory that
  suffices. Downloads may fail and files may change. The invariant
  `OwnInv` makes handles and contexts of these files own each other: from the moment an opening has registered
  its context until the release, the handle has one context, with one reference, and every
  listed context of such a file has such a handle. From it follows that the check for an open file finds
  none, that a read never registers, and that a release unlinks just its own context. Handlers of other files,
  with their double openings and lost contexts, change contexts of paths that overlap no path of `Alone`.
  With `Alone = {}` the theorems say nothing, and no more is true: after open, open, close of one
  file its second handle has no content (run `reopen`), and with a failed listing
  `ClosedMeansGone` fails for a file of `Alone` too (run `leftover`).

**Induction.** The library's induction theorems take an operator as a parameter and cannot be used by
the provers here. `PathMatch_proofs` therefore proves the principle for *sets*: a nonempty set of naturals has a least
element (`LeastElement`), so a subset of `Nat` with zero and every successor is `Nat` (`Inductive`); and
a function on `Nat` that iterates a step exists (`Iterates`). That a recursive function satisfies its own
equation is then a matter of building such a function: `ChainIs` for the walk over the list, `DecodeReads` and
`FlattenJoins` for a URL read, and put together, piece by piece.

Every invariant and action property of the passing runs, and each refinement, is stated by a theorem.
Only model-checked: `EveryCallReturns`, because liveness and fairness are beyond the prover. The runs that
end in a violation are TLC's alone as well.

## Not modelled

- `createFile`, which no registered callback reaches, and the callbacks that change nothing
  and answer success.
- The times of an entry: `FolderView` only asks whether they are there.
- Answers that are JSON but no array of objects; the server in the repository sends none.
- Files of several folders at once in `FileHandles`: its files live in one folder, and a request
  elsewhere only drops that folder's listing, as `FolderListing` allows.
- Paths longer than `MAX_PATH_LEN` in `FolderKeys`: `basename()` is then given a copy without a NUL
  (`data-container.c:333`). Paths with `#` or `?`, and paths whose escaped form is
  cut, are modelled in `UrlPath`; `UrlNamesPath` says that the server is asked for another
  folder exactly then. A blob's URL is only an identifier appended to a constant.
- Time limits: `curl_easy_perform()` has none. A transfer that hangs is a thread that takes no
  further step.
- Inside libcurl and Jansson: a transfer is chunks and one outcome, a parse is a tree or nothing.
- What the report at the unmount says once updates of `alloc_counter` have overlapped or an
  allocation has failed: the counter is then wrong by an amount that depends on history.
- Logging, option parsing, `config.c` (empty), the test server. It takes an escaped path as it comes;
  `UrlNamesPath` is about a server that decodes URLs.

## Plan

1. An abstract specification of a request, success with the whole body or a failure that stores
   nothing, which `HttpConnector` implements and from which `PathCache` and `FileHandles` take their outcomes.
2. Files of several folders in `FileHandles`, so that a switch of folders and the handlers
   that cause it are one request.
