------------------------- MODULE HttpConnector_proofs -------------------------
(***************************************************************************)
(* Proofs about HttpConnector, for any number of threads, of chunks and of *)
(* requests, and every failure.                                            *)
(*                                                                         *)
(* A request only touches what belongs to its thread, libcurl's count and  *)
(* the counter of allocations.  So the inductive invariant says, for each  *)
(* thread alone, which segments its locals may and must point to at each   *)
(* step (SegmentsOK), and what is known of the answer (AnswerOK).          *)
(***************************************************************************)
EXTENDS HttpConnector, FiniteSetTheorems, SequenceTheorems, TLAPS

WayOut == {"cleanup", "free_url", "free_escaped", "return"}

\* The segments the locals of a thread can point to at step l.
May(l) ==
  CASE l \in {"idle", "escaped", "unset"} -> {}
    [] l \in {"grow", "drop_escaped", "url"} -> {"escaped"}
    [] l \in {"check", "chunk"} -> {"escaped", "url"}
    [] l \in {"init", "easy", "drop_chunk"} -> {"escaped", "url", "chunk"}
    [] l \in {"perform", "drop_body", "cleanup", "free_url"} -> Segments
    [] l = "free_escaped" -> {"escaped", "chunk", "body"}
    [] l \in {"return", "free_body"} -> {"chunk", "body"}
    [] l = "free_chunk" -> {"chunk"}

SegmentsOK(t) ==
  /\ seg[t] \subseteq May(pc[t])
  /\ pc[t] \in {"init", "easy", "perform", "drop_body"} => "chunk" \in seg[t]
  /\ "body" \in seg[t] => "chunk" \in seg[t]
  /\ kind[t] = "blob" =>
       /\ "escaped" \notin seg[t]
       /\ pc[t] \notin {"escaped", "grow", "drop_escaped", "unset", "free_escaped"}

Before == {"idle", "escaped", "grow", "url", "check", "chunk", "init", "easy",
           "free_body", "free_chunk"}

AnswerOK(t) ==
  /\ pc[t] \in Before => got[t] = 0 /\ body[t] = << >>
  /\ pc[t] = "perform" =>
       sent[t] >= 1 /\ got[t] <= sent[t] /\ body[t] = [i \in 1..got[t] |-> i]
  /\ ok[t] =>
       /\ pc[t] \in WayOut
       /\ "chunk" \in seg[t]
       /\ sent[t] >= 1 /\ body[t] = [i \in 1..sent[t] |-> i]
  /\ ~ok[t] /\ pc[t] \in WayOut => seg[t] \cap {"chunk", "body"} = {}

ThreadOK(t) == SegmentsOK(t) /\ AnswerOK(t)

RequestInv == TypeOK /\ \A t \in Threads : ThreadOK(t)

-----------------------------------------------------------------------------
\* What a thread knows of its request stands while its own variables do.
Same(u) ==
  /\ pc'[u] = pc[u] /\ seg'[u] = seg[u] /\ kind'[u] = kind[u]
  /\ sent'[u] = sent[u] /\ got'[u] = got[u] /\ body'[u] = body[u] /\ ok'[u] = ok[u]

LEMMA OneThread ==
  ASSUME RequestInv, TypeOK', NEW t \in Threads, ThreadOK(t)',
         \A u \in Threads \ {t} : Same(u)
  PROVE  RequestInv'
<1>1. ASSUME NEW u \in Threads, u # t PROVE ThreadOK(u)'
  BY <1>1 DEF RequestInv, ThreadOK, SegmentsOK, AnswerOK, Same
<1> QED
  BY <1>1 DEF RequestInv

\* What freeing reads of the table of segments.
LEMMA FreesTable ==
  /\ DOMAIN Frees = {"drop_escaped", "drop_body", "drop_chunk", "free_url",
                     "free_escaped", "free_body", "free_chunk"}
  /\ Frees["drop_escaped"] = "escaped" /\ Frees["drop_body"] = "body"
  /\ Frees["drop_chunk"] = "chunk" /\ Frees["free_url"] = "url"
  /\ Frees["free_escaped"] = "escaped" /\ Frees["free_body"] = "body"
  /\ Frees["free_chunk"] = "chunk"
BY DEF Frees

\* Chunks 1..n, one after the other, are a body.
LEMMA BodyTyped ==
  ASSUME NEW n \in 0..MaxChunks
  PROVE  /\ [i \in 1..n |-> i] \in Bodies \cup {<< >>}
         /\ n >= 1 => [i \in 1..n |-> i] \in Bodies
<1>1. CASE n = 0
  <2>1. [i \in 1..0 |-> i] = << >>
    OBVIOUS
  <2> QED BY <1>1, <2>1
<1>2. CASE n >= 1
  <2>1. n \in 1..MaxChunks
    BY <1>2
  <2>2. [i \in 1..n |-> i] \in [1..n -> 1..MaxChunks]
    BY <2>1, HttpConnectorAssumption
  <2> QED BY <2>1, <2>2 DEF Bodies
<1> QED BY <1>1, <1>2

LEMMA NextChunk ==
  ASSUME NEW n \in Nat
  PROVE  [i \in 1..n |-> i] \o <<n + 1>> = [i \in 1..(n + 1) |-> i]
<1> DEFINE s == [i \in 1..n |-> i]
           e == <<n + 1>>
           r == [i \in 1..(n + 1) |-> i]
<1>1. s \in Seq(Nat) /\ Len(s) = n /\ r \in Seq(Nat) /\ Len(r) = n + 1
  OBVIOUS
<1>2. e \in Seq(Nat) /\ Len(e) = 1 /\ e[1] = n + 1
  OBVIOUS
<1>3. s \o e \in Seq(Nat) /\ Len(s \o e) = n + 1
  BY <1>1, <1>2, ConcatProperties
<1>4. ASSUME NEW i \in 1..(n + 1) PROVE (s \o e)[i] = r[i]
  <2>1. (s \o e)[i] = IF i <= Len(s) THEN s[i] ELSE e[i - Len(s)]
    <3> HIDE DEF s, e
    <3> QED BY <1>1, <1>2, ConcatProperties
  <2>2. CASE i <= n
    BY <1>1, <2>1, <2>2
  <2>3. CASE i = n + 1
    BY <1>1, <1>2, <2>1, <2>3
  <2> QED BY <2>2, <2>3
<1> HIDE DEF s, e, r
<1>5. s \o e = r
  BY <1>1, <1>3, <1>4, SeqEqual
<1> QED BY <1>5 DEF s, e, r

-----------------------------------------------------------------------------
LEMMA EmptyBody == << >> = [i \in 1..0 |-> i]
OBVIOUS

LEMMA InitInv == Init => RequestInv
<1> SUFFICES ASSUME Init PROVE RequestInv
  OBVIOUS
<1>1. TypeOK
  <2>1. pc \in [Threads -> Steps] /\ kind \in [Threads -> {"list", "blob"}]
    BY DEF Init, Steps
  <2>2. /\ seg \in [Threads -> SUBSET Segments]
        /\ sent \in [Threads -> 0..MaxChunks] /\ got \in [Threads -> 0..MaxChunks]
    BY HttpConnectorAssumption DEF Init
  <2>3. /\ body \in [Threads -> Bodies \cup {<< >>}] /\ ok \in [Threads -> BOOLEAN]
        /\ kept \in [Threads -> Bodies \cup {NULL}] /\ reg \in [Threads -> Int \cup {NULL}]
    BY DEF Init
  <2>4. curl \in Nat /\ alloc_counter \in Int /\ begun \in 0..MaxRequests
    BY HttpConnectorAssumption DEF Init
  <2>5. slipped \in BOOLEAN
    BY Zenon DEF Init
  <2> QED BY <2>1, <2>2, <2>3, <2>4, <2>5 DEF TypeOK
<1>2. ASSUME NEW t \in Threads PROVE ThreadOK(t)
  BY DEF Init, ThreadOK, SegmentsOK, AnswerOK, May, WayOut
<1> QED BY <1>1, <1>2 DEF RequestInv

-----------------------------------------------------------------------------
(* The counter of allocations                                              *)

CounterTyped ==
  alloc_counter \in Int /\ reg \in [Threads -> Int \cup {NULL}] /\ slipped \in BOOLEAN

LEMMA KeptTyped ==
  ASSUME TypeOK, UNCHANGED counter PROVE CounterTyped'
BY DEF TypeOK, CounterTyped, counter

\* What an allocation or a release of segment s makes of the counter, and of
\* the segments of the thread and of the others.
SegBecomes(t, new) ==
  /\ seg' \in [Threads -> SUBSET Segments]
  /\ seg'[t] = new
  /\ \A u \in Threads \ {t} : seg'[u] = seg[u]

LEMMA MallocTyped ==
  ASSUME TypeOK, NEW t \in Threads, NEW s \in Segments, Malloc(t, s)
  PROVE  CounterTyped' /\ SegBecomes(t, seg[t] \cup {s})
<1>1. /\ reg[t] # NULL /\ alloc_counter' = reg[t] + 1 /\ reg' = [reg EXCEPT ![t] = NULL]
      /\ seg' = [seg EXCEPT ![t] = @ \cup {s}]
  BY DEF Malloc, StoreCounter, Own
<1>2. slipped' \in BOOLEAN
  BY Zenon DEF Malloc, StoreCounter
<1>3. alloc_counter' \in Int /\ reg' \in [Threads -> Int \cup {NULL}]
  BY <1>1 DEF TypeOK
<1>4. CounterTyped'
  BY <1>2, <1>3, Zenon DEF CounterTyped
<1> QED BY <1>1, <1>4 DEF TypeOK, SegBecomes

LEMMA MallocFailsTyped ==
  ASSUME TypeOK, NEW t \in Threads, NEW s \in Segments, MallocFails(t, s)
  PROVE  CounterTyped' /\ SegBecomes(t, seg[t])
<1>1. /\ reg[t] # NULL /\ alloc_counter' = reg[t] + 1 /\ reg' = [reg EXCEPT ![t] = NULL]
      /\ seg' = seg
  BY DEF MallocFails, StoreCounter
<1>2. slipped' \in BOOLEAN
  BY Zenon DEF MallocFails, StoreCounter
<1>3. alloc_counter' \in Int /\ reg' \in [Threads -> Int \cup {NULL}]
  BY <1>1 DEF TypeOK
<1>4. CounterTyped'
  BY <1>2, <1>3, Zenon DEF CounterTyped
<1> QED BY <1>1, <1>4 DEF TypeOK, SegBecomes

LEMMA FreeTyped ==
  ASSUME TypeOK, NEW t \in Threads, NEW s \in Segments, Free(t, s)
  PROVE  CounterTyped' /\ SegBecomes(t, seg[t] \ {s})
<1>1. CASE s \notin seg[t] /\ UNCHANGED <<seg, counter>>
  BY <1>1, KeptTyped DEF TypeOK, SegBecomes
<1>2. CASE s \in seg[t] /\ StoreCounter(t, -1, FALSE) /\ seg' = [seg EXCEPT ![t] = @ \ {s}]
  <2>1. reg[t] # NULL /\ alloc_counter' = reg[t] + (-1) /\ reg' = [reg EXCEPT ![t] = NULL]
    BY <1>2 DEF StoreCounter
  <2>2. slipped' \in BOOLEAN
    BY <1>2, Zenon DEF StoreCounter
  <2>3. alloc_counter' \in Int /\ reg' \in [Threads -> Int \cup {NULL}]
    BY <2>1 DEF TypeOK
  <2>4. CounterTyped'
    BY <2>2, <2>3, Zenon DEF CounterTyped
  <2> QED BY <1>2, <2>4 DEF TypeOK, SegBecomes
<1> QED BY <1>1, <1>2, Zenon DEF Free

-----------------------------------------------------------------------------
(* Every step of a thread                                                  *)

LEMMA GotoTyped ==
  ASSUME TypeOK, NEW t \in Threads, NEW l \in Steps, Goto(t, l)
  PROVE  /\ pc' \in [Threads -> Steps]
         /\ pc'[t] = l
         /\ \A u \in Threads \ {t} : pc'[u] = pc[u]
BY DEF Goto, TypeOK

LEMMA LoadCounterInv ==
  ASSUME RequestInv, NEW t \in Threads, LoadCounter(t)
  PROVE  RequestInv'
<1>3. pc' = pc
  BY DEF LoadCounter, request
<1>4. CounterTyped'
  <2>1. alloc_counter' \in Int /\ reg' \in [Threads -> Int \cup {NULL}]
    BY DEF RequestInv, TypeOK, LoadCounter
  <2>2. slipped' \in BOOLEAN
    BY Zenon DEF LoadCounter
  <2> QED BY <2>1, <2>2 DEF CounterTyped
<1>5. TypeOK'
  BY <1>3, <1>4 DEF RequestInv, TypeOK, CounterTyped, request, LoadCounter
<1>6. \A u \in Threads \ {t} : Same(u)
  BY <1>3, <1>4 DEF RequestInv, TypeOK, Same, request, LoadCounter
<1>7. ThreadOK(t)'
  BY <1>3, <1>4 DEF RequestInv, TypeOK, ThreadOK, SegmentsOK, AnswerOK, May, Before, WayOut, request, LoadCounter
<1> QED BY <1>5, <1>6, <1>7, OneThread

LEMMA BeginInv ==
  ASSUME RequestInv, NEW t \in Threads, NEW k \in {"list", "blob"}, Begin(t, k)
  PROVE  RequestInv'
<1>1. PICK l \in {"escaped", "url"} : Goto(t, l) /\ (l = "escaped" <=> k = "list")
  BY Zenon DEF Begin
<1>2. l \in Steps
  BY DEF Steps
<1>3. /\ pc' \in [Threads -> Steps] /\ pc'[t] = l
      /\ \A u \in Threads \ {t} : pc'[u] = pc[u]
  BY <1>1, <1>2, GotoTyped DEF RequestInv
<1>4. CounterTyped' /\ begun' \in 0..MaxRequests
  <2>1. CounterTyped'
    BY KeptTyped DEF RequestInv, Begin
  <2>2. begun < MaxRequests /\ begun' = begun + 1
    BY DEF Begin
  <2> QED BY <2>1, <2>2, HttpConnectorAssumption DEF RequestInv, TypeOK
<1>5. TypeOK'
  BY <1>3, <1>4 DEF RequestInv, TypeOK, CounterTyped, request, Begin
<1>6. \A u \in Threads \ {t} : Same(u)
  BY <1>3, <1>4 DEF RequestInv, TypeOK, Same, request, Begin
<1>7. ThreadOK(t)'
  BY <1>1, <1>3, <1>4 DEF RequestInv, TypeOK, ThreadOK, SegmentsOK, AnswerOK, May, Before, WayOut, request, Begin
<1> QED BY <1>5, <1>6, <1>7, OneThread

LEMMA EscapeURLInv ==
  ASSUME RequestInv, NEW t \in Threads, EscapeURL(t)
  PROVE  RequestInv'
<1>1. PICK l \in {"grow", "unset"} : Goto(t, l)
                        /\ \/ l = "grow" /\ Malloc(t, "escaped")
                           \/ l = "unset" /\ MallocFails(t, "escaped")
  BY Zenon DEF EscapeURL
<1>2. l \in Steps
  BY DEF Steps
<1>3. /\ pc' \in [Threads -> Steps] /\ pc'[t] = l
      /\ \A u \in Threads \ {t} : pc'[u] = pc[u]
  BY <1>1, <1>2, GotoTyped DEF RequestInv
<1>4. /\ CounterTyped'
      /\ \/ l = "grow" /\ SegBecomes(t, seg[t] \cup {"escaped"})
         \/ l = "unset" /\ SegBecomes(t, seg[t])
  BY <1>1, MallocTyped, MallocFailsTyped DEF RequestInv, Segments
<1>5. TypeOK'
  BY <1>3, <1>4 DEF RequestInv, TypeOK, CounterTyped, request, EscapeURL, SegBecomes
<1>6. \A u \in Threads \ {t} : Same(u)
  BY <1>3, <1>4 DEF RequestInv, TypeOK, Same, request, EscapeURL, SegBecomes
<1>7. ThreadOK(t)'
  BY <1>1, <1>3, <1>4 DEF RequestInv, TypeOK, ThreadOK, SegmentsOK, AnswerOK, May, Before, WayOut, request, EscapeURL, SegBecomes
<1> QED BY <1>5, <1>6, <1>7, OneThread

LEMMA GrowInv ==
  ASSUME RequestInv, NEW t \in Threads, Grow(t)
  PROVE  RequestInv'
<1>1. PICK l \in {"url", "drop_escaped"} : Goto(t, l)
  BY Zenon DEF Grow
<1>2. l \in Steps
  BY DEF Steps
<1>3. /\ pc' \in [Threads -> Steps] /\ pc'[t] = l
      /\ \A u \in Threads \ {t} : pc'[u] = pc[u]
  BY <1>1, <1>2, GotoTyped DEF RequestInv
<1>4. CounterTyped'
  BY KeptTyped DEF RequestInv, Grow
<1>5. TypeOK'
  BY <1>3, <1>4 DEF RequestInv, TypeOK, CounterTyped, request, Grow
<1>6. \A u \in Threads \ {t} : Same(u)
  BY <1>3, <1>4 DEF RequestInv, TypeOK, Same, request, Grow
<1>7. ThreadOK(t)'
  BY <1>1, <1>3, <1>4 DEF RequestInv, TypeOK, ThreadOK, SegmentsOK, AnswerOK, May, Before, WayOut, request, Grow
<1> QED BY <1>5, <1>6, <1>7, OneThread

LEMMA UnsetURLInv ==
  ASSUME RequestInv, NEW t \in Threads, UnsetURL(t)
  PROVE  RequestInv'
<1>1. PICK l \in {"free_url"} : Goto(t, l)
  BY Zenon DEF UnsetURL
<1>2. l \in Steps
  BY DEF Steps
<1>3. /\ pc' \in [Threads -> Steps] /\ pc'[t] = l
      /\ \A u \in Threads \ {t} : pc'[u] = pc[u]
  BY <1>1, <1>2, GotoTyped DEF RequestInv
<1>4. CounterTyped' /\ (SegBecomes(t, seg[t]) \/ SegBecomes(t, {"url"}))
  <2>1. seg' = seg \/ Own(t, "url")
    BY Zenon DEF UnsetURL
  <2>2. CounterTyped'
    BY KeptTyped DEF RequestInv, UnsetURL
  <2>3. seg[t] = {}
    BY DEF RequestInv, ThreadOK, SegmentsOK, May, UnsetURL
  <2>4. CASE seg' = seg
    BY <2>2, <2>4 DEF RequestInv, TypeOK, SegBecomes
  <2>5. CASE Own(t, "url")
    <3>1. seg' = [seg EXCEPT ![t] = {"url"}]
      BY <2>3, <2>5 DEF Own
    <3>2. {"url"} \in SUBSET Segments
      BY DEF Segments
    <3> QED BY <2>2, <3>1, <3>2 DEF RequestInv, TypeOK, SegBecomes
  <2> QED BY <2>1, <2>4, <2>5
<1>5. TypeOK'
  BY <1>3, <1>4 DEF RequestInv, TypeOK, CounterTyped, request, UnsetURL, SegBecomes
<1>6. \A u \in Threads \ {t} : Same(u)
  BY <1>3, <1>4 DEF RequestInv, TypeOK, Same, request, UnsetURL, SegBecomes
<1>7. ThreadOK(t)'
  BY <1>1, <1>3, <1>4 DEF RequestInv, TypeOK, ThreadOK, SegmentsOK, AnswerOK, May, Before, WayOut, request, UnsetURL, SegBecomes
<1> QED BY <1>5, <1>6, <1>7, OneThread

LEMMA AssembleURLInv ==
  ASSUME RequestInv, NEW t \in Threads, AssembleURL(t)
  PROVE  RequestInv'
<1>1. PICK l \in {"check", "free_url"} : Goto(t, l)
                        /\ \/ l = "check" /\ Malloc(t, "url")
                           \/ l = "free_url" /\ MallocFails(t, "url")
  BY Zenon DEF AssembleURL
<1>2. l \in Steps
  BY DEF Steps
<1>3. /\ pc' \in [Threads -> Steps] /\ pc'[t] = l
      /\ \A u \in Threads \ {t} : pc'[u] = pc[u]
  BY <1>1, <1>2, GotoTyped DEF RequestInv
<1>4. /\ CounterTyped'
      /\ \/ l = "check" /\ SegBecomes(t, seg[t] \cup {"url"})
         \/ l = "free_url" /\ SegBecomes(t, seg[t])
  BY <1>1, MallocTyped, MallocFailsTyped DEF RequestInv, Segments
<1>5. TypeOK'
  BY <1>3, <1>4 DEF RequestInv, TypeOK, CounterTyped, request, AssembleURL, SegBecomes
<1>6. \A u \in Threads \ {t} : Same(u)
  BY <1>3, <1>4 DEF RequestInv, TypeOK, Same, request, AssembleURL, SegBecomes
<1>7. ThreadOK(t)'
  BY <1>1, <1>3, <1>4 DEF RequestInv, TypeOK, ThreadOK, SegmentsOK, AnswerOK, May, Before, WayOut, request, AssembleURL, SegBecomes
<1> QED BY <1>5, <1>6, <1>7, OneThread

LEMMA CheckPathLenInv ==
  ASSUME RequestInv, NEW t \in Threads, CheckPathLen(t)
  PROVE  RequestInv'
<1>1. PICK l \in {"chunk", "free_url"} : Goto(t, l)
  BY Zenon DEF CheckPathLen
<1>2. l \in Steps
  BY DEF Steps
<1>3. /\ pc' \in [Threads -> Steps] /\ pc'[t] = l
      /\ \A u \in Threads \ {t} : pc'[u] = pc[u]
  BY <1>1, <1>2, GotoTyped DEF RequestInv
<1>4. CounterTyped'
  BY KeptTyped DEF RequestInv, CheckPathLen
<1>5. TypeOK'
  BY <1>3, <1>4 DEF RequestInv, TypeOK, CounterTyped, request, CheckPathLen
<1>6. \A u \in Threads \ {t} : Same(u)
  BY <1>3, <1>4 DEF RequestInv, TypeOK, Same, request, CheckPathLen
<1>7. ThreadOK(t)'
  BY <1>1, <1>3, <1>4 DEF RequestInv, TypeOK, ThreadOK, SegmentsOK, AnswerOK, May, Before, WayOut, request, CheckPathLen
<1> QED BY <1>5, <1>6, <1>7, OneThread

LEMMA AllocChunkInv ==
  ASSUME RequestInv, NEW t \in Threads, AllocChunk(t)
  PROVE  RequestInv'
<1>1. PICK l \in {"init", "cleanup"} : Goto(t, l)
                        /\ \/ l = "init" /\ Malloc(t, "chunk")
                           \/ l = "cleanup" /\ MallocFails(t, "chunk")
  BY Zenon DEF AllocChunk
<1>2. l \in Steps
  BY DEF Steps
<1>3. /\ pc' \in [Threads -> Steps] /\ pc'[t] = l
      /\ \A u \in Threads \ {t} : pc'[u] = pc[u]
  BY <1>1, <1>2, GotoTyped DEF RequestInv
<1>4. /\ CounterTyped'
      /\ \/ l = "init" /\ SegBecomes(t, seg[t] \cup {"chunk"})
         \/ l = "cleanup" /\ SegBecomes(t, seg[t])
  BY <1>1, MallocTyped, MallocFailsTyped DEF RequestInv, Segments
<1>5. TypeOK'
  BY <1>3, <1>4 DEF RequestInv, TypeOK, CounterTyped, request, AllocChunk, SegBecomes
<1>6. \A u \in Threads \ {t} : Same(u)
  BY <1>3, <1>4 DEF RequestInv, TypeOK, Same, request, AllocChunk, SegBecomes
<1>7. ThreadOK(t)'
  BY <1>1, <1>3, <1>4 DEF RequestInv, TypeOK, ThreadOK, SegmentsOK, AnswerOK, May, Before, WayOut, request, AllocChunk, SegBecomes
<1> QED BY <1>5, <1>6, <1>7, OneThread

LEMMA GlobalInitInv ==
  ASSUME RequestInv, NEW t \in Threads, GlobalInit(t)
  PROVE  RequestInv'
<1>1. PICK l \in {"easy"} : Goto(t, l)
  BY Zenon DEF GlobalInit
<1>2. l \in Steps
  BY DEF Steps
<1>3. /\ pc' \in [Threads -> Steps] /\ pc'[t] = l
      /\ \A u \in Threads \ {t} : pc'[u] = pc[u]
  BY <1>1, <1>2, GotoTyped DEF RequestInv
<1>4. CounterTyped'
  BY KeptTyped DEF RequestInv, GlobalInit
<1>5. TypeOK'
  BY <1>3, <1>4 DEF RequestInv, TypeOK, CounterTyped, request, GlobalInit
<1>6. \A u \in Threads \ {t} : Same(u)
  BY <1>3, <1>4 DEF RequestInv, TypeOK, Same, request, GlobalInit
<1>7. ThreadOK(t)'
  BY <1>1, <1>3, <1>4 DEF RequestInv, TypeOK, ThreadOK, SegmentsOK, AnswerOK, May, Before, WayOut, request, GlobalInit
<1> QED BY <1>5, <1>6, <1>7, OneThread

LEMMA EasyInitInv ==
  ASSUME RequestInv, NEW t \in Threads, EasyInit(t)
  PROVE  RequestInv'
<1>1. PICK l \in {"perform", "drop_body"} : Goto(t, l) /\
                        \/ l = "perform" /\ \E n \in 1..MaxChunks : sent' = [sent EXCEPT ![t] = n]
                        \/ l = "drop_body" /\ sent' = sent
  BY Zenon DEF EasyInit
<1>2. l \in Steps
  BY DEF Steps
<1>3. /\ pc' \in [Threads -> Steps] /\ pc'[t] = l
      /\ \A u \in Threads \ {t} : pc'[u] = pc[u]
  BY <1>1, <1>2, GotoTyped DEF RequestInv
<1>4. /\ CounterTyped'
      /\ sent' \in [Threads -> 0..MaxChunks] /\ (l = "perform" => sent'[t] >= 1)
      /\ \A u \in Threads \ {t} : sent'[u] = sent[u]
  <2>1. CounterTyped'
    BY KeptTyped DEF RequestInv, EasyInit
  <2>2. CASE l = "drop_body" /\ sent' = sent
    BY <2>1, <2>2 DEF RequestInv, TypeOK
  <2>3. CASE \E n \in 1..MaxChunks : sent' = [sent EXCEPT ![t] = n]
    <3>1. PICK n \in 1..MaxChunks : sent' = [sent EXCEPT ![t] = n]
      BY <2>3
    <3> QED BY <2>1, <3>1, HttpConnectorAssumption DEF RequestInv, TypeOK
  <2> QED BY <1>1, <2>2, <2>3
<1>5. TypeOK'
  BY <1>3, <1>4 DEF RequestInv, TypeOK, CounterTyped, request, EasyInit
<1>6. \A u \in Threads \ {t} : Same(u)
  BY <1>3, <1>4 DEF RequestInv, TypeOK, Same, request, EasyInit
<1>7. ThreadOK(t)'
  <2>1. got'[t] = 0 /\ body'[t] = << >>
    BY DEF RequestInv, ThreadOK, AnswerOK, Before, EasyInit
  <2>2. body'[t] = [i \in 1..got'[t] |-> i]
    BY <2>1, EmptyBody
  <2>3. SegmentsOK(t)'
    BY <1>1, <1>3 DEF RequestInv, ThreadOK, SegmentsOK, May, Segments, EasyInit
  <2>4. AnswerOK(t)'
    BY <1>1, <1>3, <1>4, <2>1, <2>2
    DEF RequestInv, TypeOK, ThreadOK, AnswerOK, Before, WayOut, EasyInit
  <2> QED BY <2>3, <2>4 DEF ThreadOK
<1> QED BY <1>5, <1>6, <1>7, OneThread

LEMMA PerformFailsInv ==
  ASSUME RequestInv, NEW t \in Threads, PerformFails(t)
  PROVE  RequestInv'
<1>1. PICK l \in {"drop_body"} : Goto(t, l)
  BY Zenon DEF PerformFails
<1>2. l \in Steps
  BY DEF Steps
<1>3. /\ pc' \in [Threads -> Steps] /\ pc'[t] = l
      /\ \A u \in Threads \ {t} : pc'[u] = pc[u]
  BY <1>1, <1>2, GotoTyped DEF RequestInv
<1>4. CounterTyped'
  BY KeptTyped DEF RequestInv, PerformFails
<1>5. TypeOK'
  BY <1>3, <1>4 DEF RequestInv, TypeOK, CounterTyped, request, PerformFails
<1>6. \A u \in Threads \ {t} : Same(u)
  BY <1>3, <1>4 DEF RequestInv, TypeOK, Same, request, PerformFails
<1>7. ThreadOK(t)'
  BY <1>1, <1>3, <1>4 DEF RequestInv, TypeOK, ThreadOK, SegmentsOK, AnswerOK, May, Before, WayOut, request, PerformFails
<1> QED BY <1>5, <1>6, <1>7, OneThread

LEMMA PerformDoneInv ==
  ASSUME RequestInv, NEW t \in Threads, PerformDone(t)
  PROVE  RequestInv'
<1>1. PICK l \in {"cleanup"} : Goto(t, l)
  BY Zenon DEF PerformDone
<1>2. l \in Steps
  BY DEF Steps
<1>3. /\ pc' \in [Threads -> Steps] /\ pc'[t] = l
      /\ \A u \in Threads \ {t} : pc'[u] = pc[u]
  BY <1>1, <1>2, GotoTyped DEF RequestInv
<1>4. CounterTyped'
  BY KeptTyped DEF RequestInv, PerformDone
<1>5. TypeOK'
  BY <1>3, <1>4 DEF RequestInv, TypeOK, CounterTyped, request, PerformDone
<1>6. \A u \in Threads \ {t} : Same(u)
  BY <1>3, <1>4 DEF RequestInv, TypeOK, Same, request, PerformDone
<1>7. ThreadOK(t)'
  BY <1>1, <1>3, <1>4 DEF RequestInv, TypeOK, ThreadOK, SegmentsOK, AnswerOK, May, Before, WayOut, request, PerformDone
<1> QED BY <1>5, <1>6, <1>7, OneThread

LEMMA GlobalCleanupInv ==
  ASSUME RequestInv, NEW t \in Threads, GlobalCleanup(t)
  PROVE  RequestInv'
<1>1. PICK l \in {"free_url"} : Goto(t, l)
  BY Zenon DEF GlobalCleanup
<1>2. l \in Steps
  BY DEF Steps
<1>3. /\ pc' \in [Threads -> Steps] /\ pc'[t] = l
      /\ \A u \in Threads \ {t} : pc'[u] = pc[u]
  BY <1>1, <1>2, GotoTyped DEF RequestInv
<1>4. CounterTyped'
  BY KeptTyped DEF RequestInv, GlobalCleanup
<1>5. TypeOK'
  BY <1>3, <1>4 DEF RequestInv, TypeOK, CounterTyped, request, GlobalCleanup
<1>6. \A u \in Threads \ {t} : Same(u)
  BY <1>3, <1>4 DEF RequestInv, TypeOK, Same, request, GlobalCleanup
<1>7. ThreadOK(t)'
  BY <1>1, <1>3, <1>4 DEF RequestInv, TypeOK, ThreadOK, SegmentsOK, AnswerOK, May, Before, WayOut, request, GlobalCleanup
<1> QED BY <1>5, <1>6, <1>7, OneThread

LEMMA WriteMemoryInv ==
  ASSUME RequestInv, NEW t \in Threads, WriteMemory(t)
  PROVE  RequestInv'
<1> DEFINE n == got[t]
<1>1. /\ pc[t] = "perform" /\ pc' = pc /\ got' = [got EXCEPT ![t] = n + 1]
      /\ body' = [body EXCEPT ![t] = @ \o <<got'[t]>>]
      /\ n < sent[t] /\ UNCHANGED <<kind, sent, ok, kept, curl, begun>>
  BY DEF WriteMemory
<1>2. /\ n \in Nat /\ n + 1 \in 1..MaxChunks /\ n + 1 <= sent[t]
      /\ body[t] = [i \in 1..n |-> i] /\ "chunk" \in seg[t] /\ ~ok[t]
  BY <1>1, HttpConnectorAssumption
  DEF RequestInv, TypeOK, ThreadOK, SegmentsOK, AnswerOK, WayOut
<1>3. got'[t] = n + 1
  BY <1>1 DEF RequestInv, TypeOK
<1>4. body' = [body EXCEPT ![t] = [i \in 1..(n + 1) |-> i]]
  BY <1>1, <1>2, <1>3, NextChunk
<1>5. body'[t] = [i \in 1..(n + 1) |-> i]
  BY <1>4 DEF RequestInv, TypeOK
<1>6. CounterTyped' /\ SegBecomes(t, seg[t] \cup {"body"})
  <2>1. CASE "body" \in seg[t] /\ UNCHANGED <<seg, counter>>
    BY <2>1, KeptTyped DEF RequestInv, TypeOK, SegBecomes
  <2>2. CASE Malloc(t, "body")
    BY <2>2, MallocTyped DEF RequestInv, Segments
  <2> QED BY <2>1, <2>2, Zenon DEF WriteMemory, GrowBody
<1>7. TypeOK'
  <2>1. [i \in 1..(n + 1) |-> i] \in Bodies
    BY <1>2, BodyTyped
  <2>2. body' \in [Threads -> Bodies \cup {<< >>}]
    BY <1>4, <2>1 DEF RequestInv, TypeOK
  <2>3. got' \in [Threads -> 0..MaxChunks]
    BY <1>1, <1>2 DEF RequestInv, TypeOK
  <2> QED BY <1>1, <1>6, <2>2, <2>3 DEF RequestInv, TypeOK, CounterTyped, SegBecomes
<1>8. \A u \in Threads \ {t} : Same(u)
  BY <1>1, <1>6 DEF RequestInv, TypeOK, Same, SegBecomes
<1>9. ThreadOK(t)'
  <2>1. SegmentsOK(t)'
    BY <1>1, <1>2, <1>6
    DEF RequestInv, TypeOK, ThreadOK, SegmentsOK, May, Segments, SegBecomes
  <2>3. body'[t] = [i \in 1..got'[t] |-> i]
    BY <1>3, <1>5
  <2>4. got'[t] <= sent'[t] /\ sent'[t] >= 1
    BY <1>1, <1>2, <1>3 DEF RequestInv, TypeOK
  <2>5. ok'[t] = ok[t] /\ pc'[t] = "perform"
    BY <1>1
  <2>2. AnswerOK(t)'
    BY <1>2, <2>3, <2>4, <2>5 DEF AnswerOK, Before, WayOut
  <2> QED BY <2>1, <2>2 DEF ThreadOK
<1> QED BY <1>7, <1>8, <1>9, OneThread

LEMMA WriteMemoryFailsInv ==
  ASSUME RequestInv, NEW t \in Threads, WriteMemoryFails(t)
  PROVE  RequestInv'
<1>1. PICK l \in {"drop_body"} : Goto(t, l)
  BY Zenon DEF WriteMemoryFails
<1>2. l \in Steps
  BY DEF Steps
<1>3. /\ pc' \in [Threads -> Steps] /\ pc'[t] = l
      /\ \A u \in Threads \ {t} : pc'[u] = pc[u]
  BY <1>1, <1>2, GotoTyped DEF RequestInv
<1>4. CounterTyped' /\ SegBecomes(t, seg[t])
  <2>1. CASE UNCHANGED <<seg, counter>>
    BY <2>1, KeptTyped DEF RequestInv, TypeOK, SegBecomes
  <2>2. CASE MallocFails(t, "body")
    BY <2>2, MallocFailsTyped DEF RequestInv, Segments
  <2> QED BY <2>1, <2>2, Zenon DEF WriteMemoryFails, GrowBodyFails
<1>5. TypeOK'
  BY <1>3, <1>4 DEF RequestInv, TypeOK, CounterTyped, request, WriteMemoryFails, SegBecomes
<1>6. \A u \in Threads \ {t} : Same(u)
  BY <1>3, <1>4 DEF RequestInv, TypeOK, Same, request, WriteMemoryFails, SegBecomes
<1>7. ThreadOK(t)'
  BY <1>1, <1>3, <1>4 DEF RequestInv, TypeOK, ThreadOK, SegmentsOK, AnswerOK, May, Before, WayOut, request, WriteMemoryFails, SegBecomes
<1> QED BY <1>5, <1>6, <1>7, OneThread

\* One release on the way out: from step l to step m, without segment s.
FreeStep(t, l, s, m) ==
  pc[t] = l /\ CounterTyped' /\ SegBecomes(t, seg[t] \ {s}) /\ Goto(t, m)

LEMMA FreeSegmentCases ==
  ASSUME RequestInv, NEW t \in Threads, FreeSegment(t)
  PROVE  \/ FreeStep(t, "drop_escaped", "escaped", "unset")
         \/ FreeStep(t, "drop_body", "body", "drop_chunk")
         \/ FreeStep(t, "drop_chunk", "chunk", "cleanup")
         \/ FreeStep(t, "free_url", "url", IF kind[t] = "list" THEN "free_escaped" ELSE "return")
         \/ FreeStep(t, "free_escaped", "escaped", "return")
         \/ FreeStep(t, "free_body", "body", "free_chunk")
         \/ FreeStep(t, "free_chunk", "chunk", "idle")
<1>1. pc[t] \in DOMAIN Frees /\ Free(t, Frees[pc[t]]) /\ Goto(t, AfterFree(t))
  BY DEF FreeSegment
<1>2. Frees[pc[t]] \in Segments
  BY <1>1, FreesTable DEF Segments
<1>3. CounterTyped' /\ SegBecomes(t, seg[t] \ {Frees[pc[t]]})
  BY <1>1, <1>2, FreeTyped DEF RequestInv
<1> QED BY <1>1, <1>3, FreesTable DEF FreeStep, AfterFree

LEMMA FreeSegmentInv ==
  ASSUME RequestInv, NEW t \in Threads, FreeSegment(t)
  PROVE  RequestInv'
<1>0. UNCHANGED <<request, kept, curl, begun>>
  BY DEF FreeSegment
<1>1. ASSUME NEW l, NEW s, NEW m \in Steps, FreeStep(t, l, s, m), ThreadOK(t)'
      PROVE  RequestInv'
  <2>1. /\ pc' \in [Threads -> Steps] /\ \A u \in Threads \ {t} : pc'[u] = pc[u]
    BY <1>1, GotoTyped DEF RequestInv, FreeStep
  <2>2. TypeOK'
    BY <1>0, <1>1, <2>1
    DEF RequestInv, TypeOK, CounterTyped, SegBecomes, FreeStep, request
  <2>3. \A u \in Threads \ {t} : Same(u)
    BY <1>0, <1>1, <2>1 DEF Same, SegBecomes, FreeStep, request
  <2> QED BY <1>1, <2>2, <2>3, OneThread
<1>2. CASE FreeStep(t, "drop_escaped", "escaped", "unset")
  <2> DEFINE m == "unset"
  <2>1. m \in Steps
    BY DEF Steps
  <2>2. pc'[t] = m
    BY <1>2, <2>1, GotoTyped DEF RequestInv, FreeStep
  <2>3. SegmentsOK(t)'
    BY <1>0, <1>2, <2>2
    DEF RequestInv, TypeOK, ThreadOK, SegmentsOK, AnswerOK, May, Segments, WayOut, FreeStep, SegBecomes, request
  <2>4. AnswerOK(t)'
    BY <1>0, <1>2, <2>2
    DEF RequestInv, TypeOK, ThreadOK, SegmentsOK, AnswerOK, May, Before, WayOut, FreeStep, SegBecomes, request
  <2> QED BY <1>1, <1>2, <2>1, <2>3, <2>4 DEF ThreadOK
<1>3. CASE FreeStep(t, "drop_body", "body", "drop_chunk")
  <2> DEFINE m == "drop_chunk"
  <2>1. m \in Steps
    BY DEF Steps
  <2>2. pc'[t] = m
    BY <1>3, <2>1, GotoTyped DEF RequestInv, FreeStep
  <2>3. SegmentsOK(t)'
    BY <1>0, <1>3, <2>2
    DEF RequestInv, TypeOK, ThreadOK, SegmentsOK, AnswerOK, May, Segments, WayOut, FreeStep, SegBecomes, request
  <2>4. AnswerOK(t)'
    BY <1>0, <1>3, <2>2
    DEF RequestInv, TypeOK, ThreadOK, SegmentsOK, AnswerOK, May, Before, WayOut, FreeStep, SegBecomes, request
  <2> QED BY <1>1, <1>3, <2>1, <2>3, <2>4 DEF ThreadOK
<1>4. CASE FreeStep(t, "drop_chunk", "chunk", "cleanup")
  <2> DEFINE m == "cleanup"
  <2>1. m \in Steps
    BY DEF Steps
  <2>2. pc'[t] = m
    BY <1>4, <2>1, GotoTyped DEF RequestInv, FreeStep
  <2>3. SegmentsOK(t)'
    BY <1>0, <1>4, <2>2
    DEF RequestInv, TypeOK, ThreadOK, SegmentsOK, AnswerOK, May, Segments, WayOut, FreeStep, SegBecomes, request
  <2>4. AnswerOK(t)'
    BY <1>0, <1>4, <2>2
    DEF RequestInv, TypeOK, ThreadOK, SegmentsOK, AnswerOK, May, Before, WayOut, FreeStep, SegBecomes, request
  <2> QED BY <1>1, <1>4, <2>1, <2>3, <2>4 DEF ThreadOK
<1>5. CASE FreeStep(t, "free_url", "url", IF kind[t] = "list" THEN "free_escaped" ELSE "return")
  <2> DEFINE m == IF kind[t] = "list" THEN "free_escaped" ELSE "return"
  <2>1. m \in Steps
    BY DEF Steps
  <2>2. pc'[t] = m
    BY <1>5, <2>1, GotoTyped DEF RequestInv, FreeStep
  <2>3. SegmentsOK(t)'
    BY <1>0, <1>5, <2>2
    DEF RequestInv, TypeOK, ThreadOK, SegmentsOK, AnswerOK, May, Segments, WayOut, FreeStep, SegBecomes, request
  <2>4. AnswerOK(t)'
    BY <1>0, <1>5, <2>2
    DEF RequestInv, TypeOK, ThreadOK, SegmentsOK, AnswerOK, May, Before, WayOut, FreeStep, SegBecomes, request
  <2> QED BY <1>1, <1>5, <2>1, <2>3, <2>4 DEF ThreadOK
<1>6. CASE FreeStep(t, "free_escaped", "escaped", "return")
  <2> DEFINE m == "return"
  <2>1. m \in Steps
    BY DEF Steps
  <2>2. pc'[t] = m
    BY <1>6, <2>1, GotoTyped DEF RequestInv, FreeStep
  <2>3. SegmentsOK(t)'
    BY <1>0, <1>6, <2>2
    DEF RequestInv, TypeOK, ThreadOK, SegmentsOK, AnswerOK, May, Segments, WayOut, FreeStep, SegBecomes, request
  <2>4. AnswerOK(t)'
    BY <1>0, <1>6, <2>2
    DEF RequestInv, TypeOK, ThreadOK, SegmentsOK, AnswerOK, May, Before, WayOut, FreeStep, SegBecomes, request
  <2> QED BY <1>1, <1>6, <2>1, <2>3, <2>4 DEF ThreadOK
<1>7. CASE FreeStep(t, "free_body", "body", "free_chunk")
  <2> DEFINE m == "free_chunk"
  <2>1. m \in Steps
    BY DEF Steps
  <2>2. pc'[t] = m
    BY <1>7, <2>1, GotoTyped DEF RequestInv, FreeStep
  <2>3. SegmentsOK(t)'
    BY <1>0, <1>7, <2>2
    DEF RequestInv, TypeOK, ThreadOK, SegmentsOK, AnswerOK, May, Segments, WayOut, FreeStep, SegBecomes, request
  <2>4. AnswerOK(t)'
    BY <1>0, <1>7, <2>2
    DEF RequestInv, TypeOK, ThreadOK, SegmentsOK, AnswerOK, May, Before, WayOut, FreeStep, SegBecomes, request
  <2> QED BY <1>1, <1>7, <2>1, <2>3, <2>4 DEF ThreadOK
<1>8. CASE FreeStep(t, "free_chunk", "chunk", "idle")
  <2> DEFINE m == "idle"
  <2>1. m \in Steps
    BY DEF Steps
  <2>2. pc'[t] = m
    BY <1>8, <2>1, GotoTyped DEF RequestInv, FreeStep
  <2>3. SegmentsOK(t)'
    BY <1>0, <1>8, <2>2
    DEF RequestInv, TypeOK, ThreadOK, SegmentsOK, AnswerOK, May, Segments, WayOut, FreeStep, SegBecomes, request
  <2>4. AnswerOK(t)'
    BY <1>0, <1>8, <2>2
    DEF RequestInv, TypeOK, ThreadOK, SegmentsOK, AnswerOK, May, Before, WayOut, FreeStep, SegBecomes, request
  <2> QED BY <1>1, <1>8, <2>1, <2>3, <2>4 DEF ThreadOK
<1> QED BY <1>2, <1>3, <1>4, <1>5, <1>6, <1>7, <1>8, FreeSegmentCases

LEMMA ReturnInv ==
  ASSUME RequestInv, NEW t \in Threads, Return(t)
  PROVE  RequestInv'
<1>1. PICK l \in {"free_body", "idle"} :
        /\ Goto(t, l)
        /\ \/ l = "free_body" /\ kind[t] = "list" /\ seg' = seg /\ kept' = kept
           \/ /\ l = "idle" /\ kind[t] = "blob" /\ ok[t]
              /\ kept' = [kept EXCEPT ![t] = body[t]]
              /\ seg' = [seg EXCEPT ![t] = @ \ {"body", "chunk"}]
           \/ l = "idle" /\ kind[t] = "blob" /\ ~ok[t] /\ seg' = seg /\ kept' = kept
  BY Zenon DEF Return
<1>2. l \in Steps
  BY DEF Steps
<1>3. /\ pc' \in [Threads -> Steps] /\ pc'[t] = l
      /\ \A u \in Threads \ {t} : pc'[u] = pc[u]
  BY <1>1, <1>2, GotoTyped DEF RequestInv
<1>4. CounterTyped' /\ curl' = curl /\ begun' = begun
  BY KeptTyped DEF RequestInv, Return
<1>5. /\ kind' \in [Threads -> {"list", "blob"}] /\ kind'[t] = "list"
      /\ sent' \in [Threads -> 0..MaxChunks] /\ got' \in [Threads -> 0..MaxChunks]
      /\ got'[t] = 0 /\ body' \in [Threads -> Bodies \cup {<< >>}] /\ body'[t] = << >>
      /\ \A u \in Threads \ {t} :
           kind'[u] = kind[u] /\ sent'[u] = sent[u] /\ got'[u] = got[u] /\ body'[u] = body[u]
  BY HttpConnectorAssumption DEF RequestInv, TypeOK, Return, ForgetLocals
<1>6. ok' \in [Threads -> BOOLEAN] /\ ~ok'[t] /\ \A u \in Threads \ {t} : ok'[u] = ok[u]
  BY DEF RequestInv, TypeOK, Return, ForgetLocals
<1>7. /\ pc[t] = "return" /\ seg[t] \subseteq {"chunk", "body"}
      /\ ~ok[t] => seg[t] = {}
      /\ ok[t] => body[t] \in Bodies
      /\ "body" \in seg[t] => "chunk" \in seg[t]
  <2>1. pc[t] = "return"
    BY DEF Return
  <2>2. ok[t] => sent[t] \in 0..MaxChunks /\ sent[t] >= 1 /\ body[t] = [i \in 1..sent[t] |-> i]
    BY DEF RequestInv, TypeOK, ThreadOK, AnswerOK
  <2>3. ok[t] => body[t] \in Bodies
    BY <2>2, BodyTyped
  <2> QED
    BY <2>1, <2>3 DEF RequestInv, ThreadOK, SegmentsOK, AnswerOK, May, WayOut
<1>8. SegBecomes(t, IF l = "idle" THEN {} ELSE seg[t]) /\ kept' \in [Threads -> Bodies \cup {NULL}]
  <2>1. CASE seg' = seg /\ kept' = kept /\ (l = "idle" => ~ok[t])
    BY <1>7, <2>1 DEF RequestInv, TypeOK, SegBecomes
  <2>2. CASE /\ l = "idle" /\ ok[t]
             /\ kept' = [kept EXCEPT ![t] = body[t]]
             /\ seg' = [seg EXCEPT ![t] = @ \ {"body", "chunk"}]
    BY <1>7, <2>2 DEF RequestInv, TypeOK, SegBecomes
  <2> QED BY <1>1, <2>1, <2>2
<1>9. TypeOK'
  BY <1>3, <1>4, <1>5, <1>6, <1>8 DEF RequestInv, TypeOK, CounterTyped, SegBecomes
<1>10. \A u \in Threads \ {t} : Same(u)
  BY <1>3, <1>5, <1>6, <1>8 DEF Same, SegBecomes
<1>11. SegmentsOK(t)'
  BY <1>1, <1>3, <1>5, <1>7, <1>8 DEF SegmentsOK, May, SegBecomes
<1>12. AnswerOK(t)'
  BY <1>1, <1>3, <1>5, <1>6 DEF AnswerOK, WayOut
<1> QED BY <1>9, <1>10, <1>11, <1>12, OneThread DEF ThreadOK

LEMMA ReleaseInv ==
  ASSUME RequestInv, NEW t \in Threads, NEW u \in Threads, Release(t, u)
  PROVE  RequestInv'
<1>1. Goto(t, "free_body") /\ "free_body" \in Steps
  BY DEF Release, Steps
<1>2. /\ pc' \in [Threads -> Steps] /\ pc'[t] = "free_body"
      /\ \A v \in Threads \ {t} : pc'[v] = pc[v]
  BY <1>1, GotoTyped DEF RequestInv
<1>3. CounterTyped'
  BY KeptTyped DEF RequestInv, Release
<1>4. SegBecomes(t, {"body", "chunk"})
  BY DEF RequestInv, TypeOK, Release, SegBecomes, Segments
<1>5. TypeOK'
  BY <1>2, <1>3, <1>4
  DEF RequestInv, TypeOK, CounterTyped, SegBecomes, Release, request
<1>6. \A v \in Threads \ {t} : Same(v)
  BY <1>2, <1>4 DEF Same, SegBecomes, Release, request
<1>7. SegmentsOK(t)'
  BY <1>2, <1>4 DEF RequestInv, ThreadOK, SegmentsOK, May, SegBecomes, Release, request
<1>8. AnswerOK(t)'
  BY <1>2, <1>4 DEF RequestInv, ThreadOK, AnswerOK, Before, WayOut, Release, request
<1> QED BY <1>5, <1>6, <1>7, <1>8, OneThread DEF ThreadOK

LEMMA StepInv == RequestInv /\ [Next]_vars => RequestInv'
<1> SUFFICES ASSUME RequestInv, [Next]_vars PROVE RequestInv'
  OBVIOUS
<1>1. ASSUME NEW t \in Threads, RequestStep(t) PROVE RequestInv'
  BY <1>1, LoadCounterInv, EscapeURLInv, GrowInv, UnsetURLInv, AssembleURLInv,
     CheckPathLenInv, AllocChunkInv, GlobalInitInv, EasyInitInv, WriteMemoryInv,
     WriteMemoryFailsInv, PerformFailsInv, PerformDoneInv, GlobalCleanupInv,
     FreeSegmentInv, ReturnInv
  DEF RequestStep
<1>2. ASSUME NEW t \in Threads, NEW k \in {"list", "blob"}, Begin(t, k) PROVE RequestInv'
  BY <1>2, BeginInv
<1>3. ASSUME NEW t \in Threads, NEW u \in Threads, Release(t, u) PROVE RequestInv'
  BY <1>3, ReleaseInv
<1>4. CASE UNCHANGED vars
  <2>1. TypeOK'
    BY <1>4 DEF RequestInv, TypeOK, vars, request, counter
  <2>2. \A t \in Threads : ThreadOK(t)'
    BY <1>4 DEF RequestInv, ThreadOK, SegmentsOK, AnswerOK, vars, request
  <2> QED BY <2>1, <2>2 DEF RequestInv
<1> QED BY <1>1, <1>2, <1>3, <1>4 DEF Next

-----------------------------------------------------------------------------
\* The inductive invariant of httpGETRequest() and its two callers.
THEOREM RequestInvariant == Spec => []RequestInv
BY InitInv, StepInv, PTL DEF Spec

\* Requests keep their types, and a context keeps a body, not the remains of
\* a failed transfer.
THEOREM TypeCorrect == Spec => []TypeOK
<1>1. RequestInv => TypeOK
  BY DEF RequestInv
<1> QED BY <1>1, RequestInvariant, PTL

\* On every path out of a request, whatever has failed and whichever thread
\* frees the answer, no segment is left behind and no body is orphaned.
THEOREM NothingLostCorrect == Spec => []NothingLost
<1>1. RequestInv => NothingLost
  BY DEF RequestInv, ThreadOK, SegmentsOK, May, NothingLost
<1> QED BY <1>1, RequestInvariant, PTL

\* httpGETRequest() returns 0 only with the whole body, however many chunks
\* it comes in.
THEOREM WholeBodyCorrect == Spec => []WholeBody
<1>1. RequestInv => WholeBody
  BY DEF RequestInv, ThreadOK, AnswerOK, WholeBody
<1> QED BY <1>1, RequestInvariant, PTL

-----------------------------------------------------------------------------
(* libcurl's count                                                         *)

Initialised == {"easy", "perform", "drop_body", "drop_chunk", "cleanup"}

\* A step that neither initialises libcurl nor cleans it up.
Apart(t) ==
  /\ curl' = curl
  /\ pc'[t] \in Initialised <=> pc[t] \in Initialised
  /\ \A u \in Threads \ {t} : pc'[u] = pc[u]

LEMMA RequestApart ==
  ASSUME RequestInv, "chunk" \notin Failures, NEW t \in Threads, RequestStep(t),
         ~GlobalInit(t), ~GlobalCleanup(t)
  PROVE  Apart(t)
<1> USE DEF RequestInv, TypeOK, Apart, Initialised, Goto
<1>1. CASE LoadCounter(t)
  BY <1>1 DEF LoadCounter
<1>2. CASE EscapeURL(t)
  BY <1>2 DEF EscapeURL
<1>3. CASE Grow(t)
  BY <1>3 DEF Grow
<1>4. CASE UnsetURL(t)
  BY <1>4 DEF UnsetURL
<1>5. CASE AssembleURL(t)
  BY <1>5 DEF AssembleURL
<1>6. CASE CheckPathLen(t)
  BY <1>6 DEF CheckPathLen
<1>7. CASE EasyInit(t)
  BY <1>7 DEF EasyInit
<1>8. CASE WriteMemory(t)
  BY <1>8 DEF WriteMemory
<1>9. CASE WriteMemoryFails(t)
  BY <1>9 DEF WriteMemoryFails
<1>10. CASE PerformFails(t)
  BY <1>10 DEF PerformFails
<1>11. CASE PerformDone(t)
  BY <1>11 DEF PerformDone
<1>12. CASE Return(t)
  BY <1>12 DEF Return
<1>13. CASE AllocChunk(t)
  <2>1. pc[t] = "chunk" /\ Goto(t, "init") /\ curl' = curl
    BY <1>13 DEF AllocChunk, MallocFails
  <2> QED BY <2>1
<1>14. CASE FreeSegment(t)
  <2>1. curl' = curl
    BY <1>14 DEF FreeSegment
  <2>2. ASSUME NEW l, NEW s, NEW m, FreeStep(t, l, s, m), l \in Initialised <=> m \in Initialised
        PROVE  Apart(t)
    BY <2>1, <2>2 DEF FreeStep
  <2>3. \A m : FreeStep(t, "free_url", "url", m) /\ m \in {"free_escaped", "return"} => Apart(t)
    BY <2>2
  <2>4. /\ FreeStep(t, "drop_escaped", "escaped", "unset") => Apart(t)
        /\ FreeStep(t, "drop_body", "body", "drop_chunk") => Apart(t)
        /\ FreeStep(t, "drop_chunk", "chunk", "cleanup") => Apart(t)
        /\ FreeStep(t, "free_escaped", "escaped", "return") => Apart(t)
        /\ FreeStep(t, "free_body", "body", "free_chunk") => Apart(t)
        /\ FreeStep(t, "free_chunk", "chunk", "idle") => Apart(t)
    BY <2>2
  <2> HIDE DEF RequestInv, Apart
  <2> QED BY <1>14, <2>3, <2>4, FreeSegmentCases
<1> QED BY <1>1, <1>2, <1>3, <1>4, <1>5, <1>6, <1>7, <1>8, <1>9, <1>10, <1>11, <1>12,
           <1>13, <1>14 DEF RequestStep

LEMMA CurlStep ==
  ASSUME RequestInv, CurlBalanced, "chunk" \notin Failures, [Next]_vars
  PROVE  CurlBalanced'
<1> DEFINE In == {t \in Threads : pc[t] \in Initialised}
<1>1. IsFiniteSet(In) /\ curl = Cardinality(In)
  BY HttpConnectorAssumption, FS_Subset DEF CurlBalanced, Initialised
<1>2. ASSUME curl' = Cardinality(In') PROVE CurlBalanced'
  BY <1>2 DEF CurlBalanced, Initialised
<1>3. ASSUME NEW t \in Threads, Apart(t) PROVE CurlBalanced'
  <2>1. In' = In
    BY <1>3 DEF Apart
  <2> QED BY <1>1, <1>2, <1>3, <2>1 DEF Apart
<1>4. ASSUME NEW t \in Threads, GlobalInit(t) PROVE CurlBalanced'
  <2>1. In' = In \cup {t} /\ t \notin In /\ curl' = curl + 1
    BY <1>4 DEF RequestInv, TypeOK, GlobalInit, Goto, Initialised
  <2> QED BY <1>1, <1>2, <2>1, FS_AddElement
<1>5. ASSUME NEW t \in Threads, GlobalCleanup(t) PROVE CurlBalanced'
  <2>1. In' = In \ {t} /\ t \in In
    BY <1>5 DEF RequestInv, TypeOK, GlobalCleanup, Goto, Initialised
  <2>2. Cardinality(In \ {t}) = Cardinality(In) - 1
    BY <1>1, <2>1, FS_RemoveElement
  <2>3. Cardinality(In \ {t}) \in Nat
    BY <1>1, FS_RemoveElement, FS_CardinalityType
  <2>4. curl > 0 /\ curl' = curl - 1
    BY <1>1, <1>5, <2>2, <2>3 DEF RequestInv, TypeOK, GlobalCleanup
  <2> QED BY <1>1, <1>2, <2>1, <2>2, <2>4
<1>6. ASSUME NEW t \in Threads, NEW k \in {"list", "blob"}, Begin(t, k) PROVE CurlBalanced'
  <2>1. Apart(t)
    BY <1>6 DEF RequestInv, TypeOK, Apart, Initialised, Begin, Goto
  <2> QED BY <1>3, <2>1
<1>7. ASSUME NEW t \in Threads, NEW u \in Threads, Release(t, u) PROVE CurlBalanced'
  <2>1. Apart(t)
    BY <1>7 DEF RequestInv, TypeOK, Apart, Initialised, Release, Goto
  <2> QED BY <1>3, <2>1
<1>8. CASE UNCHANGED vars
  BY <1>8 DEF CurlBalanced, vars
<1> QED BY <1>3, <1>4, <1>5, <1>6, <1>7, <1>8, RequestApart DEF Next

\* libcurl stays initialised for every request that uses it and is cleaned up
\* once for each, as long as httpGETRequest() gets the memory for its chunk:
\* without, it cleans up what it has not initialised (http-connector.c:171).
THEOREM CurlBalancedCorrect ==
  ASSUME "chunk" \notin Failures
  PROVE  Spec => []CurlBalanced
<1>1. Init => CurlBalanced
  <2> SUFFICES ASSUME Init PROVE CurlBalanced
    OBVIOUS
  <2>1. {t \in Threads : pc[t] \in Initialised} = {}
    BY DEF Init, Initialised
  <2> QED BY <2>1, FS_EmptySet DEF Init, CurlBalanced, Initialised
<1>2. RequestInv /\ CurlBalanced /\ [Next]_vars => CurlBalanced'
  BY CurlStep
<1> QED BY <1>1, <1>2, RequestInvariant, PTL DEF Spec
-----------------------------------------------------------------------------
(* What the counter of allocations counts                                  *)

\* What moving the answer to the context and back reads of a request, and how
\* a pointer that was never set comes to be freed.
AnswerHeld(t) ==
  /\ kind[t] = "blob" => kept[t] = NULL
  /\ pc[t] = "perform" /\ got[t] >= 1 => "body" \in seg[t]
  /\ ok[t] => "body" \in seg[t]
  /\ pc[t] \in {"drop_escaped", "unset"} => "escaped" \in Failures

AnswersHeld == \A t \in Threads : AnswerHeld(t)

\* Until an update is lost, one thread at most has loaded the counter, and
\* what it has loaded is the counter.
OneUpdate ==
  ~slipped =>
    /\ \A t \in Threads : reg[t] # NULL => reg[t] = alloc_counter
    /\ \A t, u \in Threads : reg[t] # NULL /\ reg[u] # NULL => t = u

CounterInv == AnswersHeld /\ OneUpdate /\ CounterCountsSegments

\* What a step makes of the segments, the contexts and the counter.
Quiet == UNCHANGED <<seg, kept, counter>>
Allocates(t, s) == s \notin seg[t] /\ Malloc(t, s) /\ kept' = kept
Releases(t, s) ==
  /\ s \in seg[t] /\ StoreCounter(t, -1, FALSE)
  /\ seg' = [seg EXCEPT ![t] = @ \ {s}] /\ kept' = kept
Keeps(t) ==
  /\ {"body", "chunk"} \subseteq seg[t] /\ kept[t] = NULL
  /\ seg' = [seg EXCEPT ![t] = @ \ {"body", "chunk"}]
  /\ kept' = [kept EXCEPT ![t] = body[t]] /\ body[t] # NULL
  /\ UNCHANGED counter
TakesBack(t, u) ==
  /\ seg[t] = {} /\ kept[u] # NULL
  /\ seg' = [seg EXCEPT ![t] = {"body", "chunk"}]
  /\ kept' = [kept EXCEPT ![u] = NULL]
  /\ UNCHANGED counter

Effect(t) ==
  \/ Quiet
  \/ LoadCounter(t)
  \/ slipped'
  \/ \E s \in Segments : Allocates(t, s) \/ Releases(t, s)
  \/ Keeps(t)
  \/ \E u \in Threads : TakesBack(t, u)

OwnedSegments == {x \in Threads \X Segments : x[2] \in seg[x[1]]}
Answers == {t \in Threads : kept[t] # NULL}

LEMMA LiveIs ==
  /\ IsFiniteSet(OwnedSegments) /\ Cardinality(OwnedSegments) \in Nat
  /\ IsFiniteSet(Answers) /\ Cardinality(Answers) \in Nat
  /\ Live = Cardinality(OwnedSegments) + 2 * Cardinality(Answers)
<1>1. IsFiniteSet(Segments)
  <2>1. Segments = ((({} \cup {"escaped"}) \cup {"url"}) \cup {"chunk"}) \cup {"body"}
    BY DEF Segments
  <2>2. IsFiniteSet({} \cup {"escaped"})
    BY FS_EmptySet, FS_AddElement
  <2>3. IsFiniteSet(({} \cup {"escaped"}) \cup {"url"})
    BY <2>2, FS_AddElement
  <2>4. IsFiniteSet((({} \cup {"escaped"}) \cup {"url"}) \cup {"chunk"})
    BY <2>3, FS_AddElement
  <2> QED BY <2>1, <2>4, FS_AddElement
<1>2. IsFiniteSet(Threads \X Segments)
  BY <1>1, HttpConnectorAssumption, FS_Product
<1>3. IsFiniteSet(OwnedSegments)
  BY <1>2, FS_Subset DEF OwnedSegments
<1>4. IsFiniteSet(Answers)
  BY HttpConnectorAssumption, FS_Subset DEF Answers
<1> QED BY <1>3, <1>4, FS_CardinalityType DEF Live, OwnedSegments, Answers

LEMMA LiveIsNext ==
  /\ Cardinality(OwnedSegments') \in Nat /\ Cardinality(Answers') \in Nat
  /\ Live' = Cardinality(OwnedSegments') + 2 * Cardinality(Answers')
<1>1. (/\ Cardinality(OwnedSegments) \in Nat /\ Cardinality(Answers) \in Nat
       /\ Live = Cardinality(OwnedSegments) + 2 * Cardinality(Answers))'
  <2>1. /\ Cardinality(OwnedSegments) \in Nat /\ Cardinality(Answers) \in Nat
        /\ Live = Cardinality(OwnedSegments) + 2 * Cardinality(Answers)
    BY LiveIs
  <2> QED BY <2>1, PTL
<1> QED BY <1>1

LEMMA SameLive ==
  ASSUME UNCHANGED <<seg, kept>> PROVE Live' = Live
BY DEF Live

LEMMA AllocatesLive ==
  ASSUME TypeOK, NEW t \in Threads, NEW s \in Segments, Allocates(t, s)
  PROVE  Live' = Live + 1
<1>1. seg' = [seg EXCEPT ![t] = @ \cup {s}] /\ kept' = kept /\ s \notin seg[t]
  BY DEF Allocates, Malloc, Own
<1>2. Answers' = Answers
  BY <1>1 DEF Answers
<1>3. OwnedSegments' = OwnedSegments \cup {<<t, s>>} /\ <<t, s>> \notin OwnedSegments
  BY <1>1 DEF TypeOK, OwnedSegments
<1>4. Cardinality(OwnedSegments') = Cardinality(OwnedSegments) + 1
  BY <1>3, LiveIs, FS_AddElement
<1> QED BY <1>2, <1>4, LiveIs, LiveIsNext

LEMMA ReleasesLive ==
  ASSUME TypeOK, NEW t \in Threads, NEW s \in Segments, Releases(t, s)
  PROVE  Live' = Live - 1
<1>1. seg' = [seg EXCEPT ![t] = @ \ {s}] /\ kept' = kept /\ s \in seg[t]
  BY DEF Releases
<1>2. Answers' = Answers
  BY <1>1 DEF Answers
<1>3. OwnedSegments' = OwnedSegments \ {<<t, s>>} /\ <<t, s>> \in OwnedSegments
  BY <1>1 DEF TypeOK, OwnedSegments
<1>4. Cardinality(OwnedSegments') = Cardinality(OwnedSegments) - 1
  BY <1>3, LiveIs, FS_RemoveElement
<1> QED BY <1>2, <1>4, LiveIs, LiveIsNext

LEMMA KeepsLive ==
  ASSUME TypeOK, NEW t \in Threads, Keeps(t)
  PROVE  Live' = Live
<1> DEFINE b == <<t, "body">>
           c == <<t, "chunk">>
<1>1. /\ seg' = [seg EXCEPT ![t] = @ \ {"body", "chunk"}] /\ {"body", "chunk"} \subseteq seg[t]
      /\ kept' = [kept EXCEPT ![t] = body[t]] /\ kept[t] = NULL /\ body[t] # NULL
  BY DEF Keeps
<1>2. Answers' = Answers \cup {t} /\ t \notin Answers
  BY <1>1 DEF TypeOK, Answers
<1>3. OwnedSegments' = (OwnedSegments \ {b}) \ {c} /\ b \in OwnedSegments /\ c \in OwnedSegments \ {b}
  BY <1>1 DEF TypeOK, OwnedSegments, Segments
<1> HIDE DEF b, c
<1>4. /\ IsFiniteSet(OwnedSegments \ {b})
      /\ Cardinality(OwnedSegments \ {b}) = Cardinality(OwnedSegments) - 1
  BY <1>3, LiveIs, FS_RemoveElement
<1>5. Cardinality(OwnedSegments') = Cardinality(OwnedSegments \ {b}) - 1
  BY <1>3, <1>4, FS_RemoveElement
<1>6. Cardinality(Answers') = Cardinality(Answers) + 1
  BY <1>2, LiveIs, FS_AddElement
<1> QED BY <1>4, <1>5, <1>6, LiveIs, LiveIsNext

LEMMA TakesBackLive ==
  ASSUME TypeOK, NEW t \in Threads, NEW u \in Threads, TakesBack(t, u)
  PROVE  Live' = Live
<1> DEFINE b == <<t, "body">>
           c == <<t, "chunk">>
<1>1. /\ seg' = [seg EXCEPT ![t] = {"body", "chunk"}] /\ seg[t] = {}
      /\ kept' = [kept EXCEPT ![u] = NULL] /\ kept[u] # NULL
  BY DEF TakesBack
<1>2. Answers' = Answers \ {u} /\ u \in Answers
  BY <1>1 DEF TypeOK, Answers
<1>3. /\ OwnedSegments' = (OwnedSegments \cup {b}) \cup {c}
      /\ b \notin OwnedSegments /\ c \notin OwnedSegments \cup {b}
  BY <1>1 DEF TypeOK, OwnedSegments, Segments
<1> HIDE DEF b, c
<1>4. /\ IsFiniteSet(OwnedSegments \cup {b})
      /\ Cardinality(OwnedSegments \cup {b}) = Cardinality(OwnedSegments) + 1
  BY <1>3, LiveIs, FS_AddElement
<1>5. Cardinality(OwnedSegments') = Cardinality(OwnedSegments \cup {b}) + 1
  BY <1>3, <1>4, FS_AddElement
<1>6. Cardinality(Answers') = Cardinality(Answers) - 1
  BY <1>2, LiveIs, FS_RemoveElement
<1> QED BY <1>4, <1>5, <1>6, LiveIs, LiveIsNext

\* Storing what was loaded leaves nobody in the middle of an update.
LEMMA StoreOnce ==
  ASSUME TypeOK, OneUpdate, NEW t \in Threads, NEW d \in {1, -1},
         StoreCounter(t, d, FALSE), ~slipped'
  PROVE  ~slipped /\ OneUpdate' /\ alloc_counter' = alloc_counter + d
<1>1. /\ reg[t] # NULL /\ alloc_counter' = reg[t] + d
      /\ reg' = [reg EXCEPT ![t] = NULL] /\ ~slipped
  BY DEF StoreCounter
<1>2. \A u \in Threads : reg'[u] = NULL
  BY <1>1 DEF TypeOK, OneUpdate
<1> QED BY <1>1, <1>2 DEF TypeOK, OneUpdate

LEMMA EffectCounts ==
  ASSUME TypeOK, TypeOK', OneUpdate, CounterCountsSegments, NEW t \in Threads, Effect(t)
  PROVE  OneUpdate' /\ CounterCountsSegments'
<1>1. CASE Quiet
  BY <1>1, SameLive DEF Quiet, counter, OneUpdate, CounterCountsSegments
<1>2. CASE LoadCounter(t)
  <2>1. UNCHANGED <<seg, kept, alloc_counter>> /\ reg' = [reg EXCEPT ![t] = alloc_counter]
    BY <1>2 DEF LoadCounter
  <2>2. ~slipped' => ~slipped /\ \A u \in Threads : reg[u] = NULL
    BY <1>2 DEF LoadCounter
  <2>3. OneUpdate'
    BY <2>1, <2>2 DEF TypeOK, OneUpdate
  <2> QED BY <2>1, <2>2, <2>3, SameLive DEF CounterCountsSegments
<1>3. CASE slipped'
  BY <1>3 DEF OneUpdate, CounterCountsSegments
<1>4. ASSUME NEW s \in Segments, Allocates(t, s), ~slipped'
      PROVE  OneUpdate' /\ CounterCountsSegments'
  <2>1. ~slipped /\ OneUpdate' /\ alloc_counter' = alloc_counter + 1
    BY <1>4, StoreOnce DEF Allocates, Malloc
  <2> QED BY <1>4, <2>1, AllocatesLive DEF CounterCountsSegments
<1>5. ASSUME NEW s \in Segments, Releases(t, s), ~slipped'
      PROVE  OneUpdate' /\ CounterCountsSegments'
  <2>1. ~slipped /\ OneUpdate' /\ alloc_counter' = alloc_counter + (-1)
    BY <1>5, StoreOnce DEF Releases
  <2>2. Live' = Live - 1
    BY <1>5, ReleasesLive
  <2> QED BY <2>1, <2>2 DEF CounterCountsSegments, TypeOK
<1>6. CASE Keeps(t)
  BY <1>6, KeepsLive DEF Keeps, counter, OneUpdate, CounterCountsSegments
<1>7. ASSUME NEW u \in Threads, TakesBack(t, u)
      PROVE  OneUpdate' /\ CounterCountsSegments'
  BY <1>7, TakesBackLive DEF TakesBack, counter, OneUpdate, CounterCountsSegments
<1> QED BY <1>1, <1>2, <1>3, <1>4, <1>5, <1>6, <1>7 DEF Effect

-----------------------------------------------------------------------------
\* A step that touches neither the answers nor the way to a pointer that was
\* never set.
LEMMA OthersHeld ==
  ASSUME AnswersHeld, NEW t \in Threads, AnswerHeld(t)',
         \A u \in Threads \ {t} : Same(u) /\ kept'[u] = kept[u]
  PROVE  AnswersHeld'
<1>1. ASSUME NEW u \in Threads, u # t PROVE AnswerHeld(u)'
  BY <1>1 DEF AnswersHeld, AnswerHeld, Same
<1> QED BY <1>1 DEF AnswersHeld

LEMMA RequestHeld ==
  ASSUME RequestInv, AnswersHeld, "escaped" \in Failures => "garbage" \notin StackPointer,
         NEW t \in Threads, RequestStep(t)
  PROVE  AnswersHeld' /\ Effect(t)
<1> USE DEF RequestInv, TypeOK, AnswersHeld, AnswerHeld, Goto, request, Effect, Quiet
<1>1. CASE LoadCounter(t)
  BY <1>1 DEF LoadCounter
<1>2. CASE EscapeURL(t)
  <2>1. pc[t] = "escaped" /\ UNCHANGED <<request, kept>>
    BY <1>2 DEF EscapeURL
  <2>2. CASE Malloc(t, "escaped") /\ Goto(t, "grow")
    <3>1. Allocates(t, "escaped")
      BY <2>1, <2>2 DEF Allocates, ThreadOK, SegmentsOK, May
    <3>2. AnswersHeld'
      BY <2>1, <2>2 DEF Malloc, Own
    <3> HIDE DEF AnswersHeld
    <3> QED BY <3>1, <3>2 DEF Segments
  <2>3. CASE MallocFails(t, "escaped") /\ Goto(t, "unset")
    <3>1. slipped' /\ seg' = seg /\ "escaped" \in Failures
      BY <2>3 DEF MallocFails, StoreCounter
    <3> QED BY <2>1, <2>3, <3>1
  <2> HIDE DEF AnswersHeld, Effect
  <2> QED BY <1>2, <2>2, <2>3 DEF EscapeURL
<1>3. CASE Grow(t)
  BY <1>3 DEF Grow
<1>4. CASE UnsetURL(t)
  <2>1. "escaped" \in Failures
    BY <1>4 DEF UnsetURL
  <2>2. UNCHANGED <<seg, kept, counter>>
    BY <1>4, <2>1, HttpConnectorAssumption DEF UnsetURL
  <2> QED BY <1>4, <2>2 DEF UnsetURL
<1>5. CASE AssembleURL(t)
  <2>1. pc[t] = "url" /\ UNCHANGED <<request, kept>>
    BY <1>5 DEF AssembleURL
  <2>2. CASE Malloc(t, "url") /\ Goto(t, "check")
    <3>1. Allocates(t, "url")
      BY <2>1, <2>2 DEF Allocates, ThreadOK, SegmentsOK, May
    <3>2. AnswersHeld'
      BY <2>1, <2>2 DEF Malloc, Own
    <3> HIDE DEF AnswersHeld
    <3> QED BY <3>1, <3>2 DEF Segments
  <2>3. CASE MallocFails(t, "url") /\ Goto(t, "free_url")
    <3>1. slipped' /\ seg' = seg
      BY <2>3 DEF MallocFails, StoreCounter
    <3> QED BY <2>1, <2>3, <3>1
  <2> HIDE DEF AnswersHeld, Effect
  <2> QED BY <1>5, <2>2, <2>3 DEF AssembleURL
<1>6. CASE CheckPathLen(t)
  BY <1>6 DEF CheckPathLen
<1>7. CASE AllocChunk(t)
  <2>1. pc[t] = "chunk" /\ UNCHANGED <<request, kept>>
    BY <1>7 DEF AllocChunk
  <2>2. CASE Malloc(t, "chunk") /\ Goto(t, "init")
    <3>1. Allocates(t, "chunk")
      BY <2>1, <2>2 DEF Allocates, ThreadOK, SegmentsOK, May
    <3>2. AnswersHeld'
      BY <2>1, <2>2 DEF Malloc, Own
    <3> HIDE DEF AnswersHeld
    <3> QED BY <3>1, <3>2 DEF Segments
  <2>3. CASE MallocFails(t, "chunk") /\ Goto(t, "cleanup")
    <3>1. slipped' /\ seg' = seg
      BY <2>3 DEF MallocFails, StoreCounter
    <3> QED BY <2>1, <2>3, <3>1
  <2> HIDE DEF AnswersHeld, Effect
  <2> QED BY <1>7, <2>2, <2>3 DEF AllocChunk
<1>8. CASE GlobalInit(t)
  BY <1>8 DEF GlobalInit
<1>9. CASE EasyInit(t)
  <2>1. pc[t] = "easy" /\ got[t] = 0
    BY <1>9 DEF EasyInit, ThreadOK, AnswerOK, Before
  <2> QED BY <1>9, <2>1 DEF EasyInit
<1>10. CASE WriteMemory(t)
  <2>1. pc[t] = "perform" /\ UNCHANGED <<pc, kind, ok, kept>> /\ GrowBody(t)
    BY <1>10 DEF WriteMemory
  <2>2. \A u \in Threads \ {t} : got'[u] = got[u]
    BY <1>10 DEF WriteMemory
  <2>3. CASE "body" \in seg[t] /\ UNCHANGED <<seg, counter>>
    BY <2>1, <2>2, <2>3
  <2>4. CASE "body" \notin seg[t] /\ Malloc(t, "body")
    <3>1. Allocates(t, "body")
      BY <2>1, <2>4 DEF Allocates
    <3>2. AnswersHeld'
      BY <2>1, <2>2, <2>4 DEF Malloc, Own
    <3> HIDE DEF AnswersHeld
    <3> QED BY <3>1, <3>2 DEF Segments
  <2> HIDE DEF AnswersHeld, Effect
  <2> QED BY <2>1, <2>3, <2>4 DEF GrowBody
<1>11. CASE WriteMemoryFails(t)
  <2>1. Goto(t, "drop_body") /\ UNCHANGED <<request, kept>> /\ GrowBodyFails(t)
    BY <1>11 DEF WriteMemoryFails
  <2>2. seg' = seg /\ (UNCHANGED counter \/ slipped')
    BY <2>1 DEF GrowBodyFails, MallocFails, StoreCounter
  <2> QED BY <2>1, <2>2
<1>12. CASE PerformFails(t)
  BY <1>12 DEF PerformFails
<1>13. CASE PerformDone(t)
  <2>1. pc[t] = "perform" /\ got[t] = sent[t] /\ sent[t] >= 1
    BY <1>13 DEF PerformDone, ThreadOK, AnswerOK
  <2> QED BY <1>13, <2>1 DEF PerformDone
<1>14. CASE GlobalCleanup(t)
  BY <1>14 DEF GlobalCleanup
<1>15. CASE FreeSegment(t)
  <2>1. /\ pc[t] \in DOMAIN Frees /\ Free(t, Frees[pc[t]]) /\ Goto(t, AfterFree(t))
        /\ UNCHANGED <<request, kept>>
    BY <1>15 DEF FreeSegment
  <2>2. Frees[pc[t]] \in Segments
    BY <2>1, FreesTable DEF Segments
  <2>3. Effect(t)
    <3>1. CASE UNCHANGED <<seg, counter>>
      BY <2>1, <3>1
    <3>2. CASE Releases(t, Frees[pc[t]])
      BY <2>2, <3>2
    <3> HIDE DEF Effect
    <3> QED BY <2>1, <3>1, <3>2 DEF Free, Releases
  <2>4. \A u \in Threads \ {t} : seg'[u] = seg[u] /\ pc'[u] = pc[u]
    BY <2>1 DEF Free
  <2>5. AnswerHeld(t)'
    <3>1. pc'[t] = "perform" => FALSE
      BY <2>1, FreesTable DEF AfterFree
    <3>2. pc'[t] \in {"drop_escaped", "unset"} => "escaped" \in Failures
      BY <2>1, FreesTable DEF AfterFree
    <3>3. ok[t] => "body" \in seg'[t]
      <4>1. ok[t] => pc[t] \in WayOut
        BY DEF ThreadOK, AnswerOK
      <4>2. ok[t] => Frees[pc[t]] # "body"
        BY <2>1, <4>1, FreesTable DEF WayOut
      <4>3. SegBecomes(t, seg[t] \ {Frees[pc[t]]})
        BY <2>1, <2>2, FreeTyped
      <4> QED BY <4>2, <4>3 DEF SegBecomes
    <3> QED BY <2>1, <3>1, <3>2, <3>3
  <2> QED BY <2>1, <2>3, <2>4, <2>5, OthersHeld DEF Same
<1>16. CASE Return(t)
  <2>1. /\ pc[t] = "return" /\ ForgetLocals(t) /\ UNCHANGED counter
    BY <1>16 DEF Return
  <2>2. ok[t] => {"body", "chunk"} \subseteq seg[t] /\ body[t] \in Bodies
    <3>1. ok[t] => sent[t] \in 0..MaxChunks /\ sent[t] >= 1 /\ body[t] = [i \in 1..sent[t] |-> i]
      BY DEF ThreadOK, AnswerOK
    <3>2. ok[t] => body[t] \in Bodies
      BY <3>1, BodyTyped
    <3> QED BY <3>2 DEF ThreadOK, AnswerOK
  <2>3. CASE kind[t] = "list" /\ Goto(t, "free_body") /\ UNCHANGED <<seg, kept>>
    BY <2>1, <2>3 DEF ForgetLocals
  <2>4. CASE kind[t] = "blob" /\ ~ok[t] /\ Goto(t, "idle") /\ UNCHANGED <<seg, kept>>
    BY <2>1, <2>4 DEF ForgetLocals
  <2>5. CASE /\ kind[t] = "blob" /\ ok[t] /\ Goto(t, "idle")
             /\ kept' = [kept EXCEPT ![t] = body[t]]
             /\ seg' = [seg EXCEPT ![t] = @ \ {"body", "chunk"}]
    <3>1. Keeps(t)
      <4>1. kept[t] = NULL /\ body[t] # NULL
        BY <2>2, <2>5, HttpConnectorAssumption
      <4> QED BY <2>1, <2>2, <2>5, <4>1 DEF Keeps
    <3>2. AnswersHeld'
      BY <2>1, <2>5 DEF ForgetLocals
    <3> HIDE DEF AnswersHeld
    <3> QED BY <3>1, <3>2
  <2> HIDE DEF AnswersHeld, Effect
  <2> QED BY <1>16, <2>3, <2>4, <2>5 DEF Return
<1> HIDE DEF RequestInv, TypeOK, AnswersHeld, AnswerHeld, Goto, request, Effect, Quiet
<1> QED BY <1>1, <1>2, <1>3, <1>4, <1>5, <1>6, <1>7, <1>8, <1>9, <1>10, <1>11, <1>12,
           <1>13, <1>14, <1>15, <1>16 DEF RequestStep

LEMMA ReleaseHeld ==
  ASSUME RequestInv, AnswersHeld, NEW t \in Threads, NEW u \in Threads, Release(t, u)
  PROVE  AnswersHeld' /\ Effect(t)
<1>1. /\ pc[t] = "idle" /\ kept[u] # NULL /\ Goto(t, "free_body")
      /\ kept' = [kept EXCEPT ![u] = NULL] /\ seg' = [seg EXCEPT ![t] = {"body", "chunk"}]
      /\ UNCHANGED <<request, counter>>
  BY DEF Release
<1>2. seg[t] = {}
  BY <1>1 DEF RequestInv, ThreadOK, SegmentsOK, May
<1>3. TakesBack(t, u)
  BY <1>1, <1>2 DEF TakesBack
<1>4. ASSUME NEW v \in Threads PROVE AnswerHeld(v)'
  BY <1>1 DEF RequestInv, TypeOK, ThreadOK, AnswerOK, WayOut, AnswersHeld, AnswerHeld, Goto, request
<1> QED BY <1>3, <1>4 DEF AnswersHeld, Effect

LEMMA BeginHeld ==
  ASSUME RequestInv, AnswersHeld, NEW t \in Threads, NEW k \in {"list", "blob"}, Begin(t, k)
  PROVE  AnswersHeld' /\ Effect(t)
<1>1. Quiet
  BY DEF Begin, Quiet
<1>2. AnswersHeld'
  BY DEF RequestInv, TypeOK, AnswersHeld, AnswerHeld, Begin, Goto
<1> QED BY <1>1, <1>2 DEF Effect

LEMMA CounterStep ==
  ASSUME RequestInv, CounterInv, "escaped" \in Failures => "garbage" \notin StackPointer,
         [Next]_vars
  PROVE  CounterInv'
<1>1. TypeOK /\ TypeOK'
  BY StepInv DEF RequestInv
<1>2. ASSUME NEW t \in Threads, AnswersHeld', Effect(t) PROVE CounterInv'
  BY <1>1, <1>2, EffectCounts DEF CounterInv
<1>3. ASSUME NEW t \in Threads, RequestStep(t) PROVE CounterInv'
  BY <1>2, <1>3, RequestHeld DEF CounterInv
<1>4. ASSUME NEW t \in Threads, NEW k \in {"list", "blob"}, Begin(t, k) PROVE CounterInv'
  BY <1>2, <1>4, BeginHeld DEF CounterInv
<1>5. ASSUME NEW t \in Threads, NEW u \in Threads, Release(t, u) PROVE CounterInv'
  BY <1>2, <1>5, ReleaseHeld DEF CounterInv
<1>6. CASE UNCHANGED vars
  <2>1. AnswersHeld'
    BY <1>6 DEF CounterInv, AnswersHeld, AnswerHeld, vars, request
  <2>2. OneUpdate' /\ CounterCountsSegments'
    BY <1>6, SameLive DEF CounterInv, OneUpdate, CounterCountsSegments, vars, counter
  <2> QED BY <2>1, <2>2 DEF CounterInv
<1> QED BY <1>3, <1>4, <1>5, <1>6 DEF Next

\* The counter that destroy_callback() reports is the number of segments the
\* program still points to, for any number of threads, until two updates
\* overlap or an allocation fails; and provided the pointer that ListPath()
\* frees without having set it, when the escaping has failed, is NULL
\* (http-connector.c:224).
THEOREM CounterCountsSegmentsCorrect ==
  ASSUME "escaped" \in Failures => "garbage" \notin StackPointer
  PROVE  Spec => []CounterCountsSegments
<1>1. Init => CounterInv
  <2> SUFFICES ASSUME Init PROVE CounterInv
    OBVIOUS
  <2>1. AnswersHeld
    BY DEF Init, AnswersHeld, AnswerHeld
  <2>2. OneUpdate
    BY DEF Init, OneUpdate
  <2>3. OwnedSegments = {} /\ Answers = {} /\ alloc_counter = 0
    BY DEF Init, OwnedSegments, Answers
  <2>4. CounterCountsSegments
    BY <2>3, LiveIs, FS_EmptySet DEF CounterCountsSegments
  <2> QED BY <2>1, <2>2, <2>4 DEF CounterInv
<1>2. RequestInv /\ CounterInv /\ [Next]_vars => CounterInv'
  BY CounterStep
<1>3. CounterInv => CounterCountsSegments
  BY DEF CounterInv
<1> QED BY <1>1, <1>2, <1>3, RequestInvariant, PTL DEF Spec
===============================================================================
