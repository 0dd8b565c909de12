--------------------------- MODULE MCLocalArchive ---------------------------
(* Values for the constants of LocalArchive. *)
EXTENDS LocalArchive, TLC

\* A directory, once made, is synced before store can end.
SteadyFaults == FaultKinds \ {"mkdir"}

FormSymmetry == Permutations(Docs) \cup Permutations(Forms)
=============================================================================
