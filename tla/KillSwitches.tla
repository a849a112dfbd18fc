---------------------------- MODULE KillSwitches ----------------------------
(***************************************************************************)
(* What the kill switches of the live-broker promise to the operators who  *)
(* call /kill-switch/arm and /kill-switch/release concurrently: every call *)
(* takes effect atomically at one moment between the invocation and the    *)
(* answer, and nothing else ever changes which scopes are armed.           *)
(*                                                                         *)
(* An answer "idempotent" to arm (release) is only given at a moment at    *)
(* which the scope really is armed (released).                             *)
(***************************************************************************)
CONSTANTS
  Scopes,     (* scope:scope_key pairs a switch can be armed for           *)
  Threads     (* request handler threads                                   *)

VARIABLES
  armed,      (* the set of scopes whose switch is active                  *)
  asked       (* per thread: the call in progress that has not taken       *)
              (* effect yet, or NoCall                                     *)

switchVars == <<armed, asked>>

NoCall  == [op |-> "none"]
Calls   == [op : {"arm", "release"}, scope : Scopes]

SwitchTypeOK ==
  /\ armed \subseteq Scopes
  /\ asked \in [Threads -> Calls \cup {NoCall}]

SwitchInit ==
  /\ armed = {}
  /\ asked = [t \in Threads |-> NoCall]

Ask(t, c) ==
  /\ asked[t] = NoCall
  /\ asked' = [asked EXCEPT ![t] = c]
  /\ UNCHANGED armed

(* The call takes effect: the answer carries the recorded event.           *)
TakeEffect(t) ==
  /\ asked[t] # NoCall
  /\ armed' = IF asked[t].op = "arm" THEN armed \cup {asked[t].scope}
                                     ELSE armed \ {asked[t].scope}
  /\ asked' = [asked EXCEPT ![t] = NoCall]

(* The answer "idempotent": the scope already is in the wanted state.      *)
AlreadySo(t) ==
  /\ asked[t] # NoCall
  /\ (asked[t].scope \in armed) <=> (asked[t].op = "arm")
  /\ asked' = [asked EXCEPT ![t] = NoCall]
  /\ UNCHANGED armed

SwitchNext ==
  \E t \in Threads :
    \/ \E c \in Calls : Ask(t, c)
    \/ TakeEffect(t)
    \/ AlreadySo(t)

SwitchSpec == SwitchInit /\ [][SwitchNext]_switchVars
=============================================================================
