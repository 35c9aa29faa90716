--------------------------- MODULE FolderListing ---------------------------
(***************************************************************************)
(* What the handlers may rely on when they look into one remote folder.    *)
(* Every thread has its own view: nothing, or a whole listing that the     *)
(* server gave for this folder at one moment.  A view is never touched by  *)
(* another thread and never updated in place: it is dropped, and fetched   *)
(* anew.                                                                   *)
(***************************************************************************)

CONSTANTS
  Threads,    \* worker threads
  Listings,   \* the listings the folder can have over time
  NULL        \* no listing

VARIABLES
  remote,     \* what the server lists now
  cache       \* cache[t]: the listing thread t works with, or NULL

Change ==
  /\ remote' \in Listings
  /\ UNCHANGED cache

Fetch(t) ==
  /\ cache[t] = NULL
  /\ cache' = [cache EXCEPT ![t] = remote]

Drop(t) ==
  /\ cache[t] # NULL
  /\ cache' = [cache EXCEPT ![t] = NULL]

Init ==
  /\ remote \in Listings
  /\ cache = [t \in Threads |-> NULL]

Next ==
  \/ Change
  \/ \E t \in Threads : (Fetch(t) \/ Drop(t)) /\ UNCHANGED remote

Spec == Init /\ [][Next]_<<remote, cache>>
=============================================================================
