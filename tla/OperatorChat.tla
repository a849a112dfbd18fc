----------------------------- MODULE OperatorChat -----------------------------
(***************************************************************************)
(* Two-step operator commands over Telegram (alert-engine): step1 stores a *)
(* pending row, confirm executes it upstream at the live-broker, abort     *)
(* cancels it.  Telegram delivers an update until it is acknowledged: by   *)
(* the offset of the next getUpdates call, stored in alert.bot_state after *)
(* a whole batch (long polling), or by the 200 of the webhook request.     *)
(*                                                                         *)
(* Every database call and every HTTP call of a handler is a step of its   *)
(* own, and a fault between two of them ends the handler.  The replies to  *)
(* the operator are left out: send_message reports errors and raises none. *)
(***************************************************************************)
EXTENDS Naturals, Sequences, FiniteSets

CONSTANTS
  Executions,   (* executions of the live-broker                           *)
  Modes,        (* values of TELEGRAM_MODE the process may start with      *)
  Handlers,     (* request threads; the one telegram thread if long poll   *)
  MaxUpdates,   (* bound on the commands the operator sends                *)
  MaxPendings,  (* bound on the pending rows and on the step1 commands     *)
  MaxFaults     (* bound on crashes and failed calls                       *)

ASSUME ModeAssumption  == Modes \subseteq {"getUpdates", "webhook"}
ASSUME LimitAssumption == {MaxUpdates, MaxPendings, MaxFaults} \subseteq Nat

Updates  == 1 .. MaxUpdates
Pendings == 1 .. MaxPendings
Kinds    == {"release", "flatten"}

(* step1 names an execution (a flatten an order, left out); confirm and    *)
(* abort name a pending row.  /release_abort and /emerg_abort do the same. *)
Commands == [name : {"step1"}, kind : Kinds, of : Executions]
              \cup [name : {"confirm"}, kind : Kinds, of : Pendings]
              \cup [name : {"abort"}, kind : {"release"}, of : Pendings]

VARIABLES
  mode,       (* TELEGRAM_MODE                                             *)
  inbox,      (* updates the operator sent, by update_id                   *)
  lastUpdate, (* alert.bot_state.last_update_id                            *)
  served,     (* updates answered with 200 (webhook)                       *)
  handler,    (* per handler: update at hand, last of its batch, step      *)
  pending,    (* alert.telegram_operator_pending                           *)
  expired,    (* rows whose expires_at has passed                          *)
  posted,     (* per row: executions upstream it caused (history)          *)
  aborted,    (* rows an abort was acknowledged for (history)              *)
  verdict,    (* live-broker: decision_action per execution                *)
  released,   (* live-broker: operator releases                            *)
  repeated,   (* releases over an existing release (history)               *)
  faults

chatVars   == <<mode, inbox, lastUpdate, served>>
rowVars    == <<pending, expired, aborted>>
brokerVars == <<verdict, released, posted, repeated>>
vars == <<chatVars, handler, rowVars, brokerVars, faults>>

Steps == {"idle", "start", "insert", "consume", "post", "cancel", "report"}

Idle == [at |-> 0, upTo |-> 0, step |-> "idle"]

TypeOK ==
  /\ mode \in Modes
  /\ inbox \in Seq(Commands) /\ Len(inbox) <= MaxUpdates
  /\ lastUpdate \in 0 .. Len(inbox) /\ served \subseteq DOMAIN inbox
  /\ handler \in [Handlers -> [at : 0 .. Len(inbox), upTo : 0 .. Len(inbox), step : Steps]]
  /\ pending \in Seq([kind : Kinds, of : Executions, open : BOOLEAN])
  /\ Len(pending) <= MaxPendings
  /\ expired \subseteq DOMAIN pending /\ aborted \subseteq DOMAIN pending
  /\ posted \in [Pendings -> 0 .. 2]
  /\ verdict \in [Executions -> {"none", "blocked", "shadow", "candidate"}]
  /\ released \subseteq Executions /\ repeated \subseteq Executions
  /\ faults \in 0 .. MaxFaults

Init ==
  /\ mode \in Modes
  /\ inbox = <<>> /\ lastUpdate = 0 /\ served = {}
  /\ handler = [h \in Handlers |-> Idle]
  /\ pending = <<>> /\ expired = {} /\ aborted = {}
  /\ posted = [p \in Pendings |-> 0]
  /\ verdict = [e \in Executions |-> "none"]
  /\ released = {} /\ repeated = {}
  /\ faults = 0

Fault == faults < MaxFaults /\ faults' = faults + 1

-----------------------------------------------------------------------------
(* Receiving updates *)

(* run_longpoll_cycle: getUpdates with offset last_update_id + 1.          *)
Poll(h) ==
  /\ mode = "getUpdates" /\ handler[h].step = "idle"
  /\ lastUpdate < Len(inbox)
  /\ handler' = [handler EXCEPT ![h] =
                   [at |-> lastUpdate + 1, upTo |-> Len(inbox), step |-> "start"]]
  /\ UNCHANGED <<chatVars, rowVars, brokerVars, faults>>

(* POST /telegram/webhook: a thread of its own per request.  Telegram      *)
(* sends an update again when it has no answer in time.                    *)
Receive(h, u) ==
  /\ mode = "webhook" /\ handler[h].step = "idle"
  /\ u \notin served
  /\ handler' = [handler EXCEPT ![h] = [at |-> u, upTo |-> u, step |-> "start"]]
  /\ UNCHANGED <<chatVars, rowVars, brokerVars, faults>>

Command(h) == inbox[handler[h].at]

At(h, step) ==
  /\ handler[h].step = step
  /\ handler[h].at # 0

Goto(h, step) == handler' = [handler EXCEPT ![h].step = step]

(* Wrong variants: the offset that is asked for next is stored; the offset *)
(* stays behind.                                                           *)
NextOffset(f) == f.upTo + 1
OffsetBehind(f) == f.upTo - 1

(* set_last_update_id after a whole batch.                                 *)
StoredOffset(f) == f.upTo

(* handle_update returned: the next update of the batch, or the offset is  *)
(* stored, or the request answered.                                        *)
Return(h) ==
  LET f == handler[h]
      u == f.at
  IN /\ handler' = [handler EXCEPT ![h] =
                      IF f.at < f.upTo THEN [f EXCEPT !.at = @ + 1, !.step = "start"] ELSE Idle]
     /\ lastUpdate' = IF mode = "getUpdates" /\ f.at = f.upTo THEN StoredOffset(f) ELSE lastUpdate
     /\ served' = IF mode = "webhook" THEN served \cup {u} ELSE served
     /\ UNCHANGED <<mode, inbox>>

(* A call raises, or the process dies: no update of the batch is           *)
(* acknowledged, and all of them come again.                               *)
HandlerFails(h) ==
  /\ handler[h].step # "idle" /\ Fault
  /\ handler' = [handler EXCEPT ![h] = Idle]
  /\ UNCHANGED <<chatVars, rowVars, brokerVars>>

-----------------------------------------------------------------------------
(* dispatch_operator_command *)

(* Wrong variant: only a release that exists is in the way.                *)
NotReleased(e) == verdict[e] # "none" /\ e \notin released

(* telegram_operator_release_summary: eligible.                            *)
Eligible(e) == verdict[e] = "candidate" /\ e \notin released

(* /release_step1 asks the live-broker first, and ends if the answer is no *)
(* or none; /emerg_step1 does not ask.                                     *)
StepOne(h) ==
  /\ At(h, "start") /\ Command(h).name = "step1"
  /\ \/ /\ Command(h).kind = "release" => Eligible(Command(h).of)
        /\ Goto(h, "insert")
        /\ UNCHANGED <<chatVars, faults>>
     \/ /\ Command(h).kind = "release" /\ Return(h)
        /\ (~Eligible(Command(h).of) /\ UNCHANGED faults) \/ Fault
  /\ UNCHANGED <<rowVars, brokerVars>>

(* insert_pending, then the audit row and the reply with the code.         *)
InsertPending(h) ==
  /\ At(h, "insert") /\ Len(pending) < MaxPendings
  /\ pending' = Append(pending, [kind |-> Command(h).kind, of |-> Command(h).of, open |-> TRUE])
  /\ Goto(h, "report")
  /\ UNCHANGED <<chatVars, expired, aborted, brokerVars, faults>>

(* Wrong variant: a consumed row is found as well.                         *)
Known(p) == p \in DOMAIN pending

(* get_open_pending.                                                       *)
Open(p) == p \in DOMAIN pending /\ pending[p].open

(* No open row: already consumed, or never there.                          *)
Refuse(h) ==
  /\ At(h, "start") /\ Command(h).name # "step1"
  /\ ~Open(Command(h).of)
  /\ Return(h)
  /\ UNCHANGED <<rowVars, brokerVars, faults>>

(* Wrong code or token, a chat that is not the row's: nothing changes.     *)
(* /release_confirm of a flatten row fails for want of an execution id.    *)
Reject(h) ==
  /\ At(h, "start") /\ Command(h).name = "confirm" /\ Open(Command(h).of)
  /\ Return(h)
  /\ UNCHANGED <<rowVars, brokerVars, faults>>

ConfirmExpired(h) ==
  /\ At(h, "start") /\ Command(h).name = "confirm"
  /\ Open(Command(h).of) /\ Command(h).of \in expired
  /\ pending' = [pending EXCEPT ![Command(h).of].open = FALSE]
  /\ Goto(h, "report")
  /\ UNCHANGED <<chatVars, expired, aborted, brokerVars, faults>>

(* get_open_pending and the checks on its row.                             *)
Confirm(h) ==
  /\ At(h, "start") /\ Command(h).name = "confirm"
  /\ Open(Command(h).of) /\ Command(h).of \notin expired
  /\ Command(h).kind = "release" => pending[Command(h).of].kind = "release"
  /\ Goto(h, "consume")
  /\ UNCHANGED <<chatVars, rowVars, brokerVars, faults>>

(* Wrong variant: the row is consumed after the upstream call only.        *)
ConsumeLater(h) == pending' = pending

(* mark_consumed; whether it found the row open is not looked at.          *)
ConsumeRow(h) == pending' = [pending EXCEPT ![Command(h).of].open = FALSE]

Consume(h) ==
  /\ At(h, "consume")
  /\ ConsumeRow(h)
  /\ Goto(h, "post")
  /\ UNCHANGED <<chatVars, expired, aborted, brokerVars, faults>>

(* The upstream takes the call.  A flatten call for a release row names no *)
(* order and is refused.                                                   *)
Executes(h, p) ==
  /\ posted' = [posted EXCEPT ![p] = IF @ < 2 THEN @ + 1 ELSE @]
  /\ released' = IF Command(h).kind = "release" THEN released \cup {pending[p].of} ELSE released
  /\ repeated' = IF Command(h).kind = "release" /\ pending[p].of \in released
                   THEN repeated \cup {pending[p].of} ELSE repeated
  /\ UNCHANGED verdict

(* post_operator_release or post_emergency_flatten; a lost answer and a    *)
(* call that never arrives are told to the operator alike.                 *)
Post(h) ==
  LET p == Command(h).of
  IN /\ At(h, "post")
     /\ \/ Command(h).kind = pending[p].kind /\ Executes(h, p) /\ UNCHANGED faults
        \/ Command(h).kind # pending[p].kind /\ UNCHANGED <<brokerVars, faults>>
        \/ Fault /\ UNCHANGED brokerVars
     /\ Goto(h, "report")
     /\ UNCHANGED <<chatVars, rowVars>>

Abort(h) ==
  /\ At(h, "start") /\ Command(h).name = "abort" /\ Open(Command(h).of)
  /\ Goto(h, "cancel")
  /\ UNCHANGED <<chatVars, rowVars, brokerVars, faults>>

Cancel(h) ==
  /\ At(h, "cancel")
  /\ pending' = [pending EXCEPT ![Command(h).of].open = FALSE]
  /\ aborted' = aborted \cup {Command(h).of}
  /\ Goto(h, "report")
  /\ UNCHANGED <<chatVars, expired, brokerVars, faults>>

(* log_action and the reply.                                               *)
Report(h) ==
  /\ At(h, "report")
  /\ Return(h)
  /\ UNCHANGED <<rowVars, brokerVars, faults>>

Handle(h) ==
  \/ Poll(h) \/ \E u \in DOMAIN inbox : Receive(h, u)
  \/ StepOne(h) \/ InsertPending(h) \/ Refuse(h) \/ Reject(h) \/ ConfirmExpired(h)
  \/ Confirm(h) \/ Consume(h) \/ Post(h) \/ Abort(h) \/ Cancel(h) \/ Report(h)

-----------------------------------------------------------------------------
(* Operator and live-broker *)

(* The code of a row is known from the reply to step1.                     *)
Send(c) ==
  /\ Len(inbox) < MaxUpdates
  /\ IF c.name = "step1"
       THEN Cardinality({u \in DOMAIN inbox : inbox[u].name = "step1"}) < MaxPendings
       ELSE c.of \in DOMAIN pending
  /\ inbox' = Append(inbox, c)
  /\ UNCHANGED <<mode, lastUpdate, served, handler, rowVars, brokerVars, faults>>

Expire(p) ==
  /\ p \in DOMAIN pending \ expired
  /\ expired' = expired \cup {p}
  /\ UNCHANGED <<chatVars, handler, pending, aborted, brokerVars, faults>>

(* SignalExecution stores a decision.                                      *)
Decide(e) ==
  /\ verdict[e] = "none"
  /\ \E v \in {"blocked", "candidate"} : verdict' = [verdict EXCEPT ![e] = v]
  /\ UNCHANGED <<chatVars, handler, rowVars, released, posted, repeated, faults>>

Next ==
  \/ \E h \in Handlers : Handle(h) \/ HandlerFails(h)
  \/ \E c \in Commands : Send(c)
  \/ \E p \in Pendings : Expire(p)
  \/ \E e \in Executions : Decide(e)

Spec == Init /\ [][Next]_vars

Fairness == \A h \in Handlers : WF_vars(Handle(h))

FairSpec == Spec /\ Fairness

-----------------------------------------------------------------------------
(* Properties *)

(* A pending row causes at most one execution upstream, although updates   *)
(* come again after a crash and confirm does not look at what              *)
(* mark_consumed returns.                                                  *)
PendingActsOnce == \A p \in Pendings : posted[p] <= 1

(* What the operator was told is cancelled is never executed.              *)
AbortedIsNotExecuted == \A p \in aborted : posted[p] = 0

(* The chat releases live candidates only: step1 asked for it, and no      *)
(* decision changes between step1 and confirm.                             *)
ReleasedIsCandidate == \A e \in released : verdict[e] = "candidate"

(* docs/alert_engine.md: released over the chat is only what has no        *)
(* release yet.                                                            *)
ReleaseIsFirst == repeated = {}

(* While no call fails, every command of the operator is handled in the    *)
(* end, and a command that came first is not held up by later ones.        *)
CommandIsHandled ==
  [](faults = 0) =>
    \A u \in Updates : (u \in DOMAIN inbox) ~> (u \in served \/ u <= lastUpdate)
=============================================================================
