--------------------------- MODULE ReleaseProtocol ---------------------------
(***************************************************************************)
(* What the live-broker promises about an opening order, whatever path     *)
(* leads to it: an execution is decided once and its decision never        *)
(* changes, only a decided execution is released, and an order is opened   *)
(* only for a released live candidate.  docs/execution_modes.md calls the  *)
(* two halves execution binding and operator release.                      *)
(***************************************************************************)
CONSTANT Executions   (* execution ids *)

VARIABLES
  verdict,    (* per execution: its decision_action, or "none"             *)
  released,   (* executions with an operator release                       *)
  opened      (* executions for which an opening order was submitted       *)

vars == <<verdict, released, opened>>

Verdicts == {"blocked", "shadow", "candidate"}

Init ==
  /\ verdict = [e \in Executions |-> "none"]
  /\ released = {}
  /\ opened = {}

Decide(e) ==
  /\ verdict[e] = "none"
  /\ \E v \in Verdicts : verdict' = [verdict EXCEPT ![e] = v]
  /\ UNCHANGED <<released, opened>>

Release(e) ==
  /\ verdict[e] # "none"
  /\ released' = released \cup {e}
  /\ UNCHANGED <<verdict, opened>>

Open(e) ==
  /\ verdict[e] = "candidate"
  /\ e \in released
  /\ opened' = opened \cup {e}
  /\ UNCHANGED <<verdict, released>>

Next == \E e \in Executions : Decide(e) \/ Release(e) \/ Open(e)

Spec == Init /\ [][Next]_vars
=============================================================================
