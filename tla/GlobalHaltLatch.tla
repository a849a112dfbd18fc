---------------------------- MODULE GlobalHaltLatch ----------------------------
(***************************************************************************)
(* system:global_halt: the switch that stops every order mutation of every *)
(* live-broker process.  A caller SETs a key in Redis and then PUBLISHes   *)
(* the same value; each process reads the key once, when it starts, and    *)
(* from then on believes the messages of the channel.                      *)
(*                                                                         *)
(* Redis keeps no message for a process that is not subscribed.  The       *)
(* client's socket times out after 30 silent seconds: it then connects and *)
(* subscribes again, or raises and the thread ends.                        *)
(***************************************************************************)
EXTENDS Naturals, Sequences

CONSTANTS
  Processes,   (* live-broker processes                                    *)
  Operators,   (* tools that publish a halt or lift it                     *)
  MaxCalls,    (* calls of all callers: a bound                            *)
  MaxFailures  (* lost connections, failed calls and restarts: a bound     *)

ASSUME CallerAssumption == Processes \cap Operators = {}
ASSUME BoundAssumption  == {MaxCalls, MaxFailures} \subseteq Nat

VARIABLES
  key,       (* the Redis key                                              *)
  halted,    (* per process: GlobalHaltLatch._halted                       *)
  stage,     (* per process: how far start and the pub/sub thread are      *)
  inbox,     (* per process: messages sent to its subscription             *)
  caller,    (* per process and operator: the call it is in                *)
  last,      (* history: the value published last                          *)
  sent,      (* history: number of messages published                      *)
  heard,     (* history, per process: a message since it subscribed        *)
  forced,    (* history, per process: halted by itself, not by a message   *)
  forcedAt,  (* history, per process: sent when it did so last             *)
  calls, failures

redis   == <<key, last, sent>>
history == <<heard, forced, forcedAt>>
vars    == <<key, halted, stage, inbox, caller, last, sent, heard, forced, forcedAt, calls,
             failures>>

Callers == Processes \cup Operators
Kinds   == {"none", "oracle", "order", "drift", "operator"}
NoCall  == [at |-> "idle", kind |-> "none", value |-> FALSE]

(* n numbers the messages: history.                                        *)
Message == [value : BOOLEAN, n : Nat]

TypeOK ==
  /\ {key, last} \subseteq BOOLEAN
  /\ halted \in [Processes -> BOOLEAN]
  /\ stage \in [Processes -> {"stopped", "read", "listening", "reconnecting", "deaf"}]
  /\ inbox \in [Processes -> Seq(Message)]
  /\ caller \in [Callers -> [at : {"idle", "set", "publish", "force"}, kind : Kinds,
                             value : BOOLEAN]]
  /\ heard \in [Processes -> BOOLEAN] /\ forced \in [Processes -> BOOLEAN]
  /\ forcedAt \in [Processes -> Nat]
  /\ sent \in Nat /\ calls \in 0..MaxCalls /\ failures \in 0..MaxFailures

Init ==
  /\ key = FALSE /\ last = FALSE /\ sent = 0
  /\ halted = [p \in Processes |-> FALSE]
  /\ stage = [p \in Processes |-> "stopped"]
  /\ inbox = [p \in Processes |-> <<>>]
  /\ caller = [c \in Callers |-> NoCall]
  /\ heard = [p \in Processes |-> FALSE] /\ forced = [p \in Processes |-> FALSE]
  /\ forcedAt = [p \in Processes |-> 0]
  /\ calls = 0 /\ failures = 0

Fails == failures < MaxFailures /\ failures' = failures + 1

Listening(p) == stage[p] = "listening"

-----------------------------------------------------------------------------
(* start: GET of the key, then the thread that subscribes.  If the GET     *)
(* fails the flag stays as it is and the thread is started all the same.   *)
ReadKey(p) ==
  /\ stage[p] = "stopped"
  /\ halted' = [halted EXCEPT ![p] = key]
  /\ stage' = [stage EXCEPT ![p] = "read"]
  /\ UNCHANGED <<redis, inbox, caller, history, calls, failures>>

ReadFails(p) ==
  /\ stage[p] = "stopped" /\ Fails
  /\ stage' = [stage EXCEPT ![p] = "read"]
  /\ UNCHANGED <<redis, halted, inbox, caller, history, calls>>

(* _pubsub_loop: subscribe.  After a reconnect the key is not read again.  *)
Subscribe(p) ==
  /\ stage[p] \in {"read", "reconnecting"}
  /\ stage' = [stage EXCEPT ![p] = "listening"]
  /\ UNCHANGED <<redis, halted, inbox, caller, history, calls, failures>>

(* Wrong variant: a message can stop the process but not release it.       *)
AppliedIfHalt(p) == halted[p] \/ Head(inbox[p]).value

(* _apply_from_raw *)
Applied(p) == Head(inbox[p]).value

Receive(p) ==
  /\ Listening(p) /\ inbox[p] # <<>>
  /\ halted' = [halted EXCEPT ![p] = Applied(p)]
  /\ inbox' = [inbox EXCEPT ![p] = Tail(@)]
  /\ heard' = [heard EXCEPT ![p] = TRUE]
  /\ forced' = [forced EXCEPT ![p] = FALSE]
  /\ UNCHANGED <<redis, stage, caller, forcedAt, calls, failures>>

(* The connection is lost and what was not read with it.  listen connects  *)
(* again, or it raises and the thread ends: nothing starts another.        *)
LoseConnection(p) ==
  /\ stage[p] \in {"read", "listening", "reconnecting"} /\ Fails
  /\ \E next \in {"reconnecting", "deaf"} : stage' = [stage EXCEPT ![p] = next]
  /\ inbox' = [inbox EXCEPT ![p] = <<>>]
  /\ heard' = [heard EXCEPT ![p] = FALSE]
  /\ UNCHANGED <<redis, halted, caller, forced, forcedAt, calls>>

(* The process ends, with the call it was in; the next one is a new latch. *)
Restart(p) ==
  /\ stage[p] # "stopped" /\ Fails
  /\ stage' = [stage EXCEPT ![p] = "stopped"]
  /\ halted' = [halted EXCEPT ![p] = FALSE]
  /\ inbox' = [inbox EXCEPT ![p] = <<>>]
  /\ caller' = [caller EXCEPT ![p] = NoCall]
  /\ heard' = [heard EXCEPT ![p] = FALSE]
  /\ forced' = [forced EXCEPT ![p] = FALSE]
  /\ UNCHANGED <<redis, forcedAt, calls>>

-----------------------------------------------------------------------------
(* The callers *)

Call(c, kind, value) ==
  /\ caller[c] = NoCall /\ calls < MaxCalls
  /\ calls' = calls + 1
  /\ caller' = [caller EXCEPT ![c] = [at |-> "set", kind |-> kind, value |-> value]]

(* force_halt_in_process *)
ForceHalt(p) ==
  /\ halted' = [halted EXCEPT ![p] = TRUE]
  /\ forced' = [forced EXCEPT ![p] = TRUE]
  /\ forcedAt' = [forcedAt EXCEPT ![p] = sent]

(* The safety oracle publishes and then forces the latch of its own        *)
(* process; the position drift check only publishes.                       *)
CallFromProcess(p, kind) ==
  /\ stage[p] # "stopped" /\ kind \in {"oracle", "drift"}
  /\ Call(p, kind, TRUE)
  /\ UNCHANGED <<redis, halted, stage, inbox, history, failures>>

(* A submit that cannot read the shadow-match key forces first.            *)
CallFromOrder(p) ==
  /\ stage[p] # "stopped"
  /\ Call(p, "order", TRUE)
  /\ ForceHalt(p)
  /\ UNCHANGED <<redis, stage, inbox, heard, failures>>

CallFromOperator(o, value) ==
  /\ Call(o, "operator", value)
  /\ UNCHANGED <<redis, halted, stage, inbox, history, failures>>

(* Wrong variant: the caller stays in a call that has returned.            *)
ReturnedKept(c) ==
  [caller[c] EXCEPT !.at = IF caller[c].kind = "oracle" THEN "force" ELSE "returned"]

(* What comes after publishing, whether it failed or not.                  *)
Returned(c) ==
  IF caller[c].kind = "oracle" THEN [caller[c] EXCEPT !.at = "force"] ELSE NoCall

(* publish_global_halt_state *)
SetKey(c) ==
  /\ caller[c].at = "set"
  /\ key' = caller[c].value
  /\ caller' = [caller EXCEPT ![c].at = "publish"]
  /\ UNCHANGED <<halted, stage, inbox, last, sent, history, calls, failures>>

Publish(c) ==
  /\ caller[c].at = "publish"
  /\ last' = caller[c].value /\ sent' = sent + 1
  /\ inbox' = [p \in Processes |->
       IF Listening(p) THEN Append(inbox[p], [value |-> caller[c].value, n |-> sent + 1])
       ELSE inbox[p]]
  /\ caller' = [caller EXCEPT ![c] = Returned(c)]
  /\ UNCHANGED <<key, halted, stage, history, calls, failures>>

(* SET or PUBLISH raises: the oracle forces all the same, the drift check  *)
(* and the submit log it.                                                  *)
PublishFails(c) ==
  /\ caller[c].at \in {"set", "publish"} /\ Fails
  /\ caller' = [caller EXCEPT ![c] = Returned(c)]
  /\ UNCHANGED <<redis, halted, stage, inbox, history, calls>>

OracleForces(p) ==
  /\ caller[p].at = "force"
  /\ ForceHalt(p)
  /\ caller' = [caller EXCEPT ![p] = NoCall]
  /\ UNCHANGED <<redis, stage, inbox, heard, calls, failures>>

-----------------------------------------------------------------------------
CallerStep(c) == SetKey(c) \/ Publish(c) \/ PublishFails(c)

LatchStep(p) ==
  \/ ReadKey(p) \/ ReadFails(p) \/ Subscribe(p) \/ Receive(p)
  \/ OracleForces(p)

Next ==
  \/ \E c \in Callers : CallerStep(c)
  \/ \E p \in Processes :
       \/ LatchStep(p)
       \/ LoseConnection(p) \/ Restart(p)
       \/ \E kind \in Kinds : CallFromProcess(p, kind)
       \/ CallFromOrder(p)
  \/ \E o \in Operators, value \in BOOLEAN : CallFromOperator(o, value)

Spec == Init /\ [][Next]_vars

(* Fairness.  Processes are started, threads run and calls end.            *)
FairSpec ==
  /\ Spec
  /\ \A c \in Callers : WF_vars(CallerStep(c))
  /\ \A p \in Processes : WF_vars(LatchStep(p))

-----------------------------------------------------------------------------
(* Processes that have heard a message since they subscribed and have none *)
(* waiting agree on the one published last, whichever callers race with    *)
(* SET and PUBLISH, unless they halted themselves (_pubsub_loop).          *)
HeardIsLast ==
  \A p \in Processes :
    Listening(p) /\ heard[p] /\ inbox[p] = <<>> /\ ~forced[p] => halted[p] = last

(* "SET + PUBLISH, damit alle Broker-Prozesse den Latch ohne Postgres      *)
(* aktualisieren": if the key stays set and nobody is in a call, every     *)
(* process halts in the end (start, _pubsub_loop).                         *)
HaltReachesEveryProcess ==
  <>[](key /\ \A c \in Callers : caller[c] = NoCall)
    => \A p \in Processes : <>[](halted[p])

(* "lokal keine Order-Mutationen mehr": a process that halted itself       *)
(* resumes only on a message published after that (force_halt_in_process). *)
ForcedHaltHolds ==
  [][ \A p \in Processes :
        forced[p] /\ halted[p] /\ ~halted'[p] /\ stage'[p] # "stopped"
        => Head(inbox[p]).n > forcedAt[p] ]_vars
=============================================================================
