--------------------------- MODULE MCGlobalHaltLatch ---------------------------
(* Model values for checking GlobalHaltLatch.                              *)
EXTENDS GlobalHaltLatch, TLC

ProcessSymmetry == Permutations(Processes)
=============================================================================
