---------------------------- MODULE MCOpenFileList ----------------------------
(* Constants for the run of OpenFileList.                                      *)
EXTENDS OpenFileList

CONSTANTS x, y   \* characters

\* <<x>> begins <<x, y>>, so a walk can stop at the other path's node.
NestedPaths == {<<x>>, <<x, y>>, <<y>>}
=============================================================================
