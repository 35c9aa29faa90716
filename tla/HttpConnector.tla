---------------------------- MODULE HttpConnector ----------------------------
(***************************************************************************)
(* src/http-connector.c over src/alloc.c: what a request allocates, who    *)
(* frees it on which path, and what the counter of allocations makes of    *)
(* it when several threads run requests.                                   *)
(*                                                                         *)
(* A folder listing is freed by its caller, updatePathInfo(); a blob stays *)
(* in the context of its file until a release, on any thread, frees it.    *)
(***************************************************************************)
EXTENDS Integers, Sequences, FiniteSets

CONSTANTS
  Threads,
  NULL,
  Failures,      \* which calls may fail: a subset of FailureKinds
  StackPointer,  \* what an uninitialised pointer variable may hold
  MaxChunks,     \* bound: callbacks in which the body of an answer arrives
  MaxRequests    \* bound: requests begun

\* "escaped", "url", "chunk", "body": the allocation of that segment;
\* "toolong": checkPathLen(); "easy": curl_easy_init(); "transfer": the
\* connection, at any moment.
Segments == {"escaped", "url", "chunk", "body"}
FailureKinds == Segments \cup {"toolong", "easy", "transfer"}

\* What a context can keep: the chunks of an answer.
Bodies == UNION {[1..n -> 1..MaxChunks] : n \in 1..MaxChunks}

ASSUME HttpConnectorAssumption ==
  /\ IsFiniteSet(Threads)
  /\ NULL \notin Threads \cup Int \cup Bodies
  /\ Failures \subseteq FailureKinds
  /\ StackPointer \subseteq {"null", "garbage"}
  /\ MaxChunks \in Nat \ {0}
  /\ MaxRequests \in Nat

VARIABLES
  pc,             \* per thread: the next step of its request
  kind,           \* per thread: "list" or "blob"
  seg,            \* per thread: the segments its locals point to
  sent,           \* per thread: how many chunks the answer has
  got,            \* per thread: how many of them have arrived
  body,           \* per thread: the chunks written to chunk->memory
  ok,             \* per thread: has httpGETRequest() returned 0
  kept,           \* per thread: the body its last blob request stored
  curl,           \* how often libcurl is initialised
  alloc_counter,
  reg,            \* per thread: alloc_counter as ++ or -- has loaded it
  slipped,        \* history: an update was lost, or an allocation failed
  begun           \* requests begun so far

request == <<kind, sent, got, body, ok>>
counter == <<alloc_counter, reg, slipped>>
vars == <<pc, request, seg, kept, curl, counter, begun>>

Goto(t, l) == pc' = [pc EXCEPT ![t] = l]

-----------------------------------------------------------------------------
(* alloc.c                                                                 *)

\* The segment a step frees: on the way out of an error, or at the end.
Frees == [drop_escaped |-> "escaped", drop_body |-> "body", drop_chunk |-> "chunk",
          free_url |-> "url", free_escaped |-> "escaped",
          free_body |-> "body", free_chunk |-> "chunk"]

\* The steps that change alloc_counter: MALLOC, REALLOC of NULL, and FREE of a
\* pointer that is set.
Counts(t) ==
  \/ pc[t] \in {"escaped", "url", "chunk"}
  \/ pc[t] = "perform" /\ "body" \notin seg[t]
  \/ pc[t] \in DOMAIN Frees /\ Frees[pc[t]] \in seg[t]

\* The first half of ++ or --.  Two that overlap may lose one of them.
LoadCounter(t) ==
  /\ Counts(t) /\ reg[t] = NULL
  /\ reg' = [reg EXCEPT ![t] = alloc_counter]
  /\ slipped' = (slipped \/ \E u \in Threads : reg[u] # NULL)
  /\ UNCHANGED <<pc, request, seg, kept, curl, alloc_counter, begun>>

StoreCounter(t, d, fails) ==
  /\ reg[t] # NULL
  /\ alloc_counter' = reg[t] + d
  /\ reg' = [reg EXCEPT ![t] = NULL]
  /\ slipped' = (slipped \/ fails)

Own(t, s) == seg' = [seg EXCEPT ![t] = @ \cup {s}]

\* An allocation counts whether malloc() succeeds or not.
Malloc(t, s) == StoreCounter(t, 1, FALSE) /\ Own(t, s)

MallocFails(t, s) ==
  s \in Failures /\ StoreCounter(t, 1, TRUE) /\ UNCHANGED seg

\* Fault: FREE of NULL counts as well.
FreeCountingNull(t, s) ==
  /\ alloc_counter' = alloc_counter - 1
  /\ reg' = [reg EXCEPT ![t] = NULL]
  /\ seg' = [seg EXCEPT ![t] = @ \ {s}]
  /\ UNCHANGED slipped

Free(t, s) ==
  \/ s \notin seg[t] /\ UNCHANGED <<seg, counter>>
  \/ /\ s \in seg[t]
     /\ StoreCounter(t, -1, FALSE)
     /\ seg' = [seg EXCEPT ![t] = @ \ {s}]

-----------------------------------------------------------------------------
(* fsh_httpconnector_ListPath(), fsh_httpconnector_OpenFile()              *)

Begin(t, k) ==
  /\ pc[t] = "idle" /\ begun < MaxRequests
  /\ k = "blob" => kept[t] = NULL
  /\ begun' = begun + 1
  /\ kind' = [kind EXCEPT ![t] = k]
  /\ Goto(t, IF k = "list" THEN "escaped" ELSE "url")
  /\ UNCHANGED <<sent, got, body, ok, seg, kept, curl, counter>>

\* escapeURL(): its buffer, then the growth for each escaped character.  When
\* it fails, ListPath() frees a pathbuffer that was never set.
EscapeURL(t) ==
  /\ pc[t] = "escaped"
  /\ \/ Malloc(t, "escaped") /\ Goto(t, "grow")
     \/ MallocFails(t, "escaped") /\ Goto(t, "unset")
  /\ UNCHANGED <<request, kept, curl, begun>>

Grow(t) ==
  /\ pc[t] = "grow"
  /\ \/ Goto(t, "url")
     \/ "escaped" \in Failures /\ Goto(t, "drop_escaped")
  /\ UNCHANGED <<request, seg, kept, curl, counter, begun>>

\* A pathbuffer that is not NULL by chance will be taken for a segment.
UnsetURL(t) ==
  /\ pc[t] = "unset"
  /\ \E p \in StackPointer :
       IF p = "null" THEN UNCHANGED seg ELSE Own(t, "url")
  /\ Goto(t, "free_url")
  /\ UNCHANGED <<request, kept, curl, counter, begun>>

AssembleURL(t) ==
  /\ pc[t] = "url"
  /\ \/ Malloc(t, "url") /\ Goto(t, "check")
     \/ MallocFails(t, "url") /\ Goto(t, "free_url")
  /\ UNCHANGED <<request, kept, curl, begun>>

CheckPathLen(t) ==
  /\ pc[t] = "check"
  /\ \/ Goto(t, "chunk")
     \/ "toolong" \in Failures /\ Goto(t, "free_url")
  /\ UNCHANGED <<request, seg, kept, curl, counter, begun>>

-----------------------------------------------------------------------------
(* httpGETRequest()                                                        *)

AllocChunk(t) ==
  /\ pc[t] = "chunk"
  /\ \/ Malloc(t, "chunk") /\ Goto(t, "init")
     \/ MallocFails(t, "chunk") /\ Goto(t, "cleanup")
  /\ UNCHANGED <<request, kept, curl, begun>>

GlobalInit(t) ==
  /\ pc[t] = "init"
  /\ curl' = curl + 1
  /\ Goto(t, "easy")
  /\ UNCHANGED <<request, seg, kept, counter, begun>>

\* Fault: an error leaves without curl_global_cleanup().
EasyInitReturning(t) ==
  /\ pc[t] = "easy"
  /\ \/ /\ Goto(t, "perform")
        /\ \E n \in 1..MaxChunks : sent' = [sent EXCEPT ![t] = n]
     \/ "easy" \in Failures /\ Goto(t, "free_url") /\ UNCHANGED sent
  /\ UNCHANGED <<kind, got, body, ok, seg, kept, curl, counter, begun>>

EasyInit(t) ==
  /\ pc[t] = "easy"
  /\ \/ /\ Goto(t, "perform")
        /\ \E n \in 1..MaxChunks : sent' = [sent EXCEPT ![t] = n]
     \/ "easy" \in Failures /\ Goto(t, "drop_body") /\ UNCHANGED sent
  /\ UNCHANGED <<kind, got, body, ok, seg, kept, curl, counter, begun>>

\* REALLOC of chunk->memory: only the first time is a new segment.
GrowBody(t) ==
  IF "body" \in seg[t] THEN UNCHANGED <<seg, counter>> ELSE Malloc(t, "body")

GrowBodyFails(t) ==
  /\ "body" \in Failures
  /\ IF "body" \in seg[t] THEN UNCHANGED <<seg, counter>> ELSE MallocFails(t, "body")

\* WriteMemoryCallback(): the next chunk goes to the end of the buffer.
WriteMemory(t) ==
  /\ pc[t] = "perform" /\ got[t] < sent[t]
  /\ GrowBody(t)
  /\ got' = [got EXCEPT ![t] = @ + 1]
  /\ body' = [body EXCEPT ![t] = @ \o <<got'[t]>>]
  /\ UNCHANGED <<pc, kind, sent, ok, kept, curl, begun>>

\* Fault: the callback reports the chunk as taken.
WriteMemoryFailsSilently(t) ==
  /\ pc[t] = "perform" /\ got[t] < sent[t]
  /\ GrowBodyFails(t)
  /\ got' = [got EXCEPT ![t] = @ + 1]
  /\ UNCHANGED <<pc, kind, sent, body, ok, kept, curl, begun>>

\* The old buffer is kept, and a count of 0 makes libcurl give up.
WriteMemoryFails(t) ==
  /\ pc[t] = "perform" /\ got[t] < sent[t]
  /\ GrowBodyFails(t)
  /\ Goto(t, "drop_body")
  /\ UNCHANGED <<request, kept, curl, begun>>

\* Fault: an error leaves without ERROR's two FREEs.
PerformFailsLeaking(t) ==
  /\ "transfer" \in Failures
  /\ pc[t] = "perform" /\ reg[t] = NULL
  /\ Goto(t, "cleanup")
  /\ UNCHANGED <<request, seg, kept, curl, counter, begun>>

\* curl_easy_perform() returns, curl_easy_cleanup() follows.
PerformFails(t) ==
  /\ "transfer" \in Failures
  /\ pc[t] = "perform" /\ reg[t] = NULL
  /\ Goto(t, "drop_body")
  /\ UNCHANGED <<request, seg, kept, curl, counter, begun>>

PerformDone(t) ==
  /\ pc[t] = "perform" /\ got[t] = sent[t]
  /\ ok' = [ok EXCEPT ![t] = TRUE]
  /\ Goto(t, "cleanup")
  /\ UNCHANGED <<kind, sent, got, body, seg, kept, curl, counter, begun>>

GlobalCleanup(t) ==
  /\ pc[t] = "cleanup"
  /\ curl' = IF curl > 0 THEN curl - 1 ELSE 0
  /\ Goto(t, "free_url")
  /\ UNCHANGED <<request, seg, kept, counter, begun>>

-----------------------------------------------------------------------------
(* The way out                                                             *)

AfterFree(t) ==
  CASE pc[t] = "drop_escaped" -> "unset"
    [] pc[t] = "drop_body" -> "drop_chunk"
    [] pc[t] = "drop_chunk" -> "cleanup"
    [] pc[t] = "free_url" -> IF kind[t] = "list" THEN "free_escaped" ELSE "return"
    [] pc[t] = "free_escaped" -> "return"
    [] pc[t] = "free_body" -> "free_chunk"
    [] pc[t] = "free_chunk" -> "idle"

FreeSegment(t) ==
  /\ pc[t] \in DOMAIN Frees
  /\ Free(t, Frees[pc[t]])
  /\ Goto(t, AfterFree(t))
  /\ UNCHANGED <<request, kept, curl, begun>>

ForgetLocals(t) ==
  /\ kind' = [kind EXCEPT ![t] = "list"]
  /\ sent' = [sent EXCEPT ![t] = 0]
  /\ got' = [got EXCEPT ![t] = 0]
  /\ body' = [body EXCEPT ![t] = << >>]
  /\ ok' = [ok EXCEPT ![t] = FALSE]

\* Fault: the result of fsh_httpconnector_OpenFile() is not looked at.
ReturnUnchecked(t) ==
  /\ pc[t] = "return"
  /\ \/ kind[t] = "list" /\ Goto(t, "free_body") /\ UNCHANGED <<seg, kept>>
     \/ /\ kind[t] = "blob"
        /\ Goto(t, "idle")
        /\ kept' = [kept EXCEPT ![t] = body[t]]
        /\ seg' = [seg EXCEPT ![t] = @ \ {"body", "chunk"}]
  /\ ForgetLocals(t)
  /\ UNCHANGED <<curl, counter, begun>>

\* updatePathInfo() frees the answer it got, if any; a blob's answer is stored
\* in the context.
Return(t) ==
  /\ pc[t] = "return"
  /\ \/ kind[t] = "list" /\ Goto(t, "free_body") /\ UNCHANGED <<seg, kept>>
     \/ /\ kind[t] = "blob" /\ ok[t]
        /\ Goto(t, "idle")
        /\ kept' = [kept EXCEPT ![t] = body[t]]
        /\ seg' = [seg EXCEPT ![t] = @ \ {"body", "chunk"}]
     \/ kind[t] = "blob" /\ ~ok[t] /\ Goto(t, "idle") /\ UNCHANGED <<seg, kept>>
  /\ ForgetLocals(t)
  /\ UNCHANGED <<curl, counter, begun>>

\* closeFile() frees what a request of thread u has stored.
Release(t, u) ==
  /\ pc[t] = "idle" /\ kept[u] # NULL
  /\ kept' = [kept EXCEPT ![u] = NULL]
  /\ seg' = [seg EXCEPT ![t] = {"body", "chunk"}]
  /\ Goto(t, "free_body")
  /\ UNCHANGED <<request, curl, counter, begun>>

-----------------------------------------------------------------------------
Init ==
  /\ pc = [t \in Threads |-> "idle"]
  /\ kind = [t \in Threads |-> "list"]
  /\ seg = [t \in Threads |-> {}]
  /\ sent = [t \in Threads |-> 0]
  /\ got = [t \in Threads |-> 0]
  /\ body = [t \in Threads |-> << >>]
  /\ ok = [t \in Threads |-> FALSE]
  /\ kept = [t \in Threads |-> NULL]
  /\ curl = 0
  /\ alloc_counter = 0
  /\ reg = [t \in Threads |-> NULL]
  /\ slipped = FALSE
  /\ begun = 0

\* A step of a request that has begun.
RequestStep(t) ==
  \/ LoadCounter(t)
  \/ EscapeURL(t) \/ Grow(t) \/ UnsetURL(t) \/ AssembleURL(t) \/ CheckPathLen(t)
  \/ AllocChunk(t) \/ GlobalInit(t) \/ EasyInit(t)
  \/ WriteMemory(t) \/ WriteMemoryFails(t)
  \/ PerformFails(t) \/ PerformDone(t) \/ GlobalCleanup(t)
  \/ FreeSegment(t) \/ Return(t)

Next ==
  \E t \in Threads :
    \/ RequestStep(t)
    \/ \E k \in {"list", "blob"} : Begin(t, k)
    \/ \E u \in Threads : Release(t, u)

Spec == Init /\ [][Next]_vars

-----------------------------------------------------------------------------
Steps == {"idle", "escaped", "grow", "drop_escaped", "unset", "url", "check", "chunk",
          "init", "easy", "perform", "drop_body", "drop_chunk", "cleanup",
          "free_url", "free_escaped", "return", "free_body", "free_chunk"}

TypeOK ==
  /\ pc \in [Threads -> Steps]
  /\ kind \in [Threads -> {"list", "blob"}]
  /\ seg \in [Threads -> SUBSET Segments]
  /\ sent \in [Threads -> 0..MaxChunks]
  /\ got \in [Threads -> 0..MaxChunks]
  /\ body \in [Threads -> Bodies \cup {<< >>}]
  /\ ok \in [Threads -> BOOLEAN]
  /\ kept \in [Threads -> Bodies \cup {NULL}]
  /\ curl \in Nat
  /\ alloc_counter \in Int
  /\ reg \in [Threads -> Int \cup {NULL}]
  /\ slipped \in BOOLEAN
  /\ begun \in 0..MaxRequests

\* Whichever call of a request fails, and on which thread an answer is freed,
\* a request leaves no segment behind, and the body of an answer is not
\* orphaned by freeing the structure that points to it first.
NothingLost ==
  \A t \in Threads :
    /\ pc[t] = "idle" => seg[t] = {}
    /\ "body" \in seg[t] => "chunk" \in seg[t]

\* httpGETRequest() returns 0 only with everything the server sent, in its
\* order: a chunk that could not be stored fails the request.
WholeBody ==
  \A t \in Threads : ok[t] => body[t] = [i \in 1..sent[t] |-> i]

\* libcurl is initialised once for every request between curl_global_init()
\* and curl_global_cleanup(), so that no request's cleanup takes it away from
\* another one's transfer, and none is left at the end.
CurlBalanced ==
  curl = Cardinality({t \in Threads :
           pc[t] \in {"easy", "perform", "drop_body", "drop_chunk", "cleanup"}})

\* The segments of running requests, and two, the structure and its memory,
\* for every answer in a context.
Live ==
  Cardinality({x \in Threads \X Segments : x[2] \in seg[x[1]]})
    + 2 * Cardinality({t \in Threads : kept[t] # NULL})

\* alloc_counter is the number of live segments, as destroy_callback() takes
\* it, as long as no two updates have overlapped and no allocation has failed.
CounterCountsSegments == ~slipped => alloc_counter = Live
=============================================================================
