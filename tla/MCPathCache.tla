----------------------------- MODULE MCPathCache -----------------------------
(* Constants for the runs of PathCache.                                      *)
EXTENDS PathCache, TLC

CONSTANTS another, other, f   \* folders below the root and a file

In(d, n) == [name |-> n, path |-> d]

\* The root holds the folder and, at times, a file or an entry without a name
\* in front of it; the folder's only file comes and goes; the folder "other"
\* does not exist.
SmallTree ==
  [d \in Folders |->
    CASE d = Root -> {<<In(Root, another), In(Root, f)>>,
                      <<In(Root, NULL), In(Root, another)>>}
      [] d = another -> {<<In(another, f)>>, << >>}
      [] OTHER -> {NULL}]

\* A folder whose only file is deleted by another client.
EmptiedFolder ==
  [d \in Folders |->
    IF d = Root THEN {<<In(Root, another)>>} ELSE {<<In(d, f)>>, << >>}]

TreeSymmetry == Permutations(Trees)
=============================================================================
