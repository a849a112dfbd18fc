--------------------------- MODULE MCOrderLifecycle ---------------------------
(* Model values for checking OrderLifecycle.                               *)
EXTENDS OrderLifecycle, TLC

HandlerSymmetry == Permutations(Handlers)
=============================================================================
