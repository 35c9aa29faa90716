--------------------------- MODULE OpenFileTable ---------------------------
(***************************************************************************)
(* What the open-file manager promises its callers: reference counting per *)
(* path.  A path's first opening fixes its blob, later ones share it, and  *)
(* the last closing forgets the blob and the content loaded for it.        *)
(***************************************************************************)
EXTENDS Naturals

CONSTANTS Paths, Blobs, NULL

VARIABLES
  refs,      \* openings not yet closed, per path
  blob,      \* the blob fixed by the first opening
  content    \* what has been loaded for it

tableVars == <<refs, blob, content>>

Init ==
  /\ refs = [p \in Paths |-> 0]
  /\ blob = [p \in Paths |-> NULL]
  /\ content = [p \in Paths |-> NULL]

OpenFirst(p, b) ==
  /\ refs[p] = 0
  /\ refs' = [refs EXCEPT ![p] = 1]
  /\ blob' = [blob EXCEPT ![p] = b]
  /\ UNCHANGED content

OpenAgain(p) ==
  /\ refs[p] > 0
  /\ refs' = [refs EXCEPT ![p] = @ + 1]
  /\ UNCHANGED <<blob, content>>

Load(p) ==
  /\ refs[p] > 0
  /\ content' = [content EXCEPT ![p] = blob[p]]
  /\ UNCHANGED <<refs, blob>>

CloseShared(p) ==
  /\ refs[p] > 1
  /\ refs' = [refs EXCEPT ![p] = @ - 1]
  /\ UNCHANGED <<blob, content>>

CloseLast(p) ==
  /\ refs[p] = 1
  /\ refs' = [refs EXCEPT ![p] = 0]
  /\ blob' = [blob EXCEPT ![p] = NULL]
  /\ content' = [content EXCEPT ![p] = NULL]

CloseAll == 
  /\ refs' = [p \in Paths |-> 0]
  /\ blob' = [p \in Paths |-> NULL]
  /\ content' = [p \in Paths |-> NULL]

Next ==
  \/ \E p \in Paths, b \in Blobs : OpenFirst(p, b)
  \/ \E p \in Paths : OpenAgain(p) \/ Load(p) \/ CloseShared(p) \/ CloseLast(p)
  \/ CloseAll

Spec == Init /\ [][Next]_tableVars
=============================================================================
