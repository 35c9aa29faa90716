-------------------------- MODULE MCOpenFileManager --------------------------
(* Constants for the runs of OpenFileManager.                                *)
EXTENDS OpenFileManager

CONSTANTS x, y   \* characters

\* <<x>> begins <<x, y>>: their requests can hit each other's context.
NestedPaths == {<<x>>, <<x, y>>, <<y>>}

\* No path begins another one.
DisjointPaths == {<<x, x>>, <<x, y>>, <<y>>}

\* Addresses are interchangeable.
CtxSymmetry == Permutations(Ctxs)
=============================================================================
