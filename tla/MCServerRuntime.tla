--------------------------- MODULE MCServerRuntime ---------------------------
(* ServerRuntime on a small instance; the constants are given in the .cfg  *)
(* files.  The call slots are interchangeable.                             *)
EXTENDS ServerRuntime, TLC

CallSymmetry == Permutations(Calls)
=============================================================================
