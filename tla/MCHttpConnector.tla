--------------------------- MODULE MCHttpConnector ---------------------------
(* Threads are interchangeable.                                               *)
EXTENDS HttpConnector, TLC

ThreadSymmetry == Permutations(Threads)
=============================================================================
