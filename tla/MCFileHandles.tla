---------------------------- MODULE MCFileHandles ----------------------------
(* Constants for the runs of FileHandles.                                    *)
EXTENDS FileHandles

CONSTANTS x, y, b1, b2   \* characters and blobs

\* The request for <<x>> can hit the context of <<x, y>>; <<y>> is apart.
NestedPaths == {<<x>>, <<x, y>>, <<y>>}

\* Two programs may share <<y>>; the other two files are not shared.
OneShared == {<<x>>, <<x, y>>}

\* One file, replaced on the server by another client; the other never is.
OneChanges == [p \in Paths |-> IF p = <<x>> THEN {b1, b2} ELSE {b2}]

\* The file <<x>> is also deleted and restored.
OneVanishes == [p \in Paths |-> IF p = <<x>> THEN {b1, b2, NULL} ELSE {b2}]

\* Threads, handles and addresses are interchangeable.
ActorSymmetry ==
  Permutations(Threads) \cup Permutations(Handles) \cup Permutations(Ctxs)
=============================================================================
