------------------------------ MODULE SafetyLog ------------------------------
(***************************************************************************)
(* The safety controls of the live-broker as the code keeps them: two      *)
(* append-only Postgres tables, live.kill_switch_events and the rows of    *)
(* live.audit_trails with category 'safety_latch'.  No table holds a       *)
(* switch position; who is armed is read off the newest matching row.      *)
(*                                                                         *)
(* Every operation is a FastAPI handler or the worker thread.  Each reads  *)
(* the log in one transaction and appends to it in another, so between the *)
(* two any other thread may append: the steps of a handler are separate    *)
(* actions here, chained by pc.                                            *)
(*                                                                         *)
(* Rows are ordered by created_ts; an insert and its timestamp are one     *)
(* step here, so the order of the log is the order of the inserts.         *)
(***************************************************************************)
EXTENDS Naturals, Sequences

CONSTANTS
  WideScopes,     (* "service" and the account scopes                      *)
  TradeScopes,    (* "trade" scopes: one per root order                    *)
  Service,        (* the one service scope                                 *)
  Threads,        (* handler threads and the worker                        *)
  MaxKillEvents,  (* bound on the rows of live.kill_switch_events          *)
  MaxLatchAudits  (* bound on the safety_latch rows of live.audit_trails   *)

ASSUME ServiceAssumption == Service \in WideScopes
ASSUME ScopeAssumption   == WideScopes \cap TradeScopes = {}
ASSUME BoundAssumption   == MaxKillEvents \in Nat /\ MaxLatchAudits \in Nat

Scopes == WideScopes \cup TradeScopes

(* _KILL_SWITCH_STATE_EVENT_TYPES: the events that move a switch.          *)
StateEventTypes == {"arm", "release"}

(* What the CHECK of the table admits.                                     *)
EventTypes == StateEventTypes \cup
  {"auto_cancel", "flatten_requested", "flatten_completed", "flatten_failed"}

KillEvent == [scope : Scopes, type : EventTypes, active : BOOLEAN]

LatchActions == {"arm", "release", "blocked_order_submit"}

VARIABLES
  killEvents,   (* rows of live.kill_switch_events, oldest first           *)
  latchAudit,   (* actions of the safety_latch audits, oldest first        *)
  pc            (* per thread: the step its handler takes next             *)

vars == <<killEvents, latchAudit, pc>>

Steps ==
  {"idle",
   "armCheck", "armRecord", "autoCancel", "releaseCheck", "releaseRecord",
   "flattenRequest", "flattenFinish",
   "latchArmRecord", "latchReleaseRecord", "blockRecord"}

(* scope: the scope the call is about; seen: kill_switch_active, the switch *)
(* position emergency_flatten read at its start.                            *)
Frame == [at : Steps, scope : Scopes, seen : BOOLEAN]
Idle  == [at |-> "idle", scope |-> Service, seen |-> FALSE]

TypeOK ==
  /\ killEvents \in Seq(KillEvent)
  /\ latchAudit \in Seq(LatchActions)
  /\ pc \in [Threads -> Frame]

Init ==
  /\ killEvents = <<>>
  /\ latchAudit = <<>>
  /\ pc = [t \in Threads |-> Idle]

-----------------------------------------------------------------------------
(* Reading the logs *)

(* Wrong variant: any event counts, as if the SQL had no event_type filter. *)
StateRowsOfAnyType(log, s) == {i \in DOMAIN log : log[i].scope = s}

StateRows(log, s) ==
  {i \in DOMAIN log : log[i].scope = s /\ log[i].type \in StateEventTypes}

(* active_kill_switches: the newest arm or release row of the scope is     *)
(* active.                                                                 *)
IsActive(log, s) ==
  \E i \in StateRows(log, s) :
    log[i].active /\ \A j \in StateRows(log, s) : j <= i

ActiveSwitches == {s \in Scopes : IsActive(killEvents, s)}

(* Wrong variant: everything but a release counts as armed.                *)
LatchActiveUnlessReleased ==
  latchAudit # <<>> /\ latchAudit[Len(latchAudit)] # "release"

(* safety_latch_is_active: the newest safety_latch audit is an "arm".      *)
LatchActive == latchAudit # <<>> /\ latchAudit[Len(latchAudit)] = "arm"

Goto(t, step, s, b) == pc' = [pc EXCEPT ![t] = [at |-> step, scope |-> s, seen |-> b]]
Return(t)           == pc' = [pc EXCEPT ![t] = Idle]
At(t, step)         == pc[t].at = step

(* record_kill_switch_event *)
RecordKillEvent(s, type, active) ==
  /\ Len(killEvents) < MaxKillEvents
  /\ killEvents' = Append(killEvents, [scope |-> s, type |-> type, active |-> active])

(* record_audit_trail with category 'safety_latch' *)
RecordLatchAudit(action) ==
  /\ Len(latchAudit) < MaxLatchAudits
  /\ latchAudit' = Append(latchAudit, action)

-----------------------------------------------------------------------------
(* arm_kill_switch *)

CallArm(t, s) ==
  /\ At(t, "idle")
  /\ Goto(t, "armCheck", s, FALSE)
  /\ UNCHANGED <<killEvents, latchAudit>>

ArmCheck(t) ==
  /\ At(t, "armCheck")
  /\ IF pc[t].scope \in ActiveSwitches
       THEN Return(t)                                        \* idempotent
       ELSE Goto(t, "armRecord", pc[t].scope, FALSE)
  /\ UNCHANGED <<killEvents, latchAudit>>

ArmRecord(t) ==
  /\ At(t, "armRecord")
  /\ RecordKillEvent(pc[t].scope, "arm", TRUE)
  /\ IF pc[t].scope \in WideScopes
       THEN Goto(t, "autoCancel", pc[t].scope, FALSE)
       ELSE Return(t)              \* trade: only local cancels, no event
  /\ UNCHANGED latchAudit

(* _cancel_all_orders_for_scope ends with an auto_cancel event that says   *)
(* is_active = TRUE, whatever happened to the switch meanwhile.            *)
AutoCancelRecord(t) ==
  /\ At(t, "autoCancel")
  /\ RecordKillEvent(pc[t].scope, "auto_cancel", TRUE)
  /\ Return(t)
  /\ UNCHANGED latchAudit

(* The exchange refuses the cancel-all: audited under kill_switch only.    *)
AutoCancelFails(t) ==
  /\ At(t, "autoCancel")
  /\ Return(t)
  /\ UNCHANGED <<killEvents, latchAudit>>

-----------------------------------------------------------------------------
(* release_kill_switch *)

CallRelease(t, s) ==
  /\ At(t, "idle")
  /\ Goto(t, "releaseCheck", s, FALSE)
  /\ UNCHANGED <<killEvents, latchAudit>>

ReleaseCheck(t) ==
  /\ At(t, "releaseCheck")
  /\ IF pc[t].scope \notin ActiveSwitches
       THEN Return(t)                                        \* idempotent
       ELSE Goto(t, "releaseRecord", pc[t].scope, FALSE)
  /\ UNCHANGED <<killEvents, latchAudit>>

ReleaseRecord(t) ==
  /\ At(t, "releaseRecord")
  /\ RecordKillEvent(pc[t].scope, "release", FALSE)
  /\ Return(t)
  /\ UNCHANGED latchAudit

-----------------------------------------------------------------------------
(* emergency_flatten reads the position of its switch once and writes that *)
(* value into both of its events.                                          *)

CallFlatten(t, s) ==
  /\ At(t, "idle")
  /\ s # Service                   \* _flatten_scope: a trade or an account
  /\ Goto(t, "flattenRequest", s, s \in ActiveSwitches)
  /\ UNCHANGED <<killEvents, latchAudit>>

FlattenRequest(t) ==
  /\ At(t, "flattenRequest")
  /\ RecordKillEvent(pc[t].scope, "flatten_requested", pc[t].seen)
  /\ Goto(t, "flattenFinish", pc[t].scope, pc[t].seen)
  /\ UNCHANGED latchAudit

FlattenFinish(t) ==
  /\ At(t, "flattenFinish")
  /\ \E type \in {"flatten_completed", "flatten_failed"} :
       RecordKillEvent(pc[t].scope, type, pc[t].seen)
  /\ Return(t)
  /\ UNCHANGED latchAudit

(* Wrong variant: the event of a flat position reaches the table.          *)
FlattenSkippedIsRecorded(t) ==
  /\ At(t, "flattenFinish")
  /\ RecordKillEvent(pc[t].scope, "flatten_skipped_flat", pc[t].seen)
  /\ Return(t)
  /\ UNCHANGED latchAudit

(* No position is open: the event is to be "flatten_skipped_flat", which   *)
(* the CHECK refuses; the insert raises.  So does a failing cancel.        *)
FlattenAborts(t) ==
  /\ At(t, "flattenFinish")
  /\ Return(t)
  /\ UNCHANGED <<killEvents, latchAudit>>

-----------------------------------------------------------------------------
(* The safety latch *)

(* _maybe_arm_safety_latch_after_reconcile: status "fail" with submission  *)
(* enabled, and the latch is read before it is armed.                      *)
ReconcileFails(t) ==
  /\ At(t, "idle")
  /\ ~LatchActive
  /\ Goto(t, "latchArmRecord", Service, FALSE)
  /\ UNCHANGED <<killEvents, latchAudit>>

(* _maybe_arm_safety_latch_duplicate_recovery_failed: the same check on    *)
(* the submit path, so both can be past it at once.                        *)
DuplicateRecoveryFails(t) ==
  /\ At(t, "idle")
  /\ ~LatchActive
  /\ Goto(t, "latchArmRecord", Service, FALSE)
  /\ UNCHANGED <<killEvents, latchAudit>>

LatchArmRecord(t) ==
  /\ At(t, "latchArmRecord")
  /\ RecordLatchAudit("arm")
  /\ Return(t)
  /\ UNCHANGED killEvents

(* release_safety_latch *)
CallLatchRelease(t) ==
  /\ At(t, "idle")
  /\ LatchActive                   \* otherwise answered as idempotent
  /\ Goto(t, "latchReleaseRecord", Service, FALSE)
  /\ UNCHANGED <<killEvents, latchAudit>>

LatchReleaseRecord(t) ==
  /\ At(t, "latchReleaseRecord")
  /\ RecordLatchAudit("release")
  /\ Return(t)
  /\ UNCHANGED killEvents

(* _assert_safety_latch_allows_submit on an opening order: the refusal is  *)
(* audited under the same category as arm and release.                     *)
SubmitMeetsLatch(t) ==
  /\ At(t, "idle")
  /\ LatchActive
  /\ Goto(t, "blockRecord", Service, FALSE)
  /\ UNCHANGED <<killEvents, latchAudit>>

BlockRecord(t) ==
  /\ At(t, "blockRecord")
  /\ RecordLatchAudit("blocked_order_submit")
  /\ Return(t)
  /\ UNCHANGED killEvents

-----------------------------------------------------------------------------
KillSwitchStep(t) ==
  \/ \E s \in Scopes : CallArm(t, s) \/ CallRelease(t, s) \/ CallFlatten(t, s)
  \/ ArmCheck(t) \/ ArmRecord(t) \/ AutoCancelRecord(t) \/ AutoCancelFails(t)
  \/ ReleaseCheck(t) \/ ReleaseRecord(t)
  \/ FlattenRequest(t) \/ FlattenFinish(t) \/ FlattenAborts(t)

LatchStep(t) ==
  \/ ReconcileFails(t) \/ DuplicateRecoveryFails(t) \/ LatchArmRecord(t)
  \/ CallLatchRelease(t) \/ LatchReleaseRecord(t)
  \/ SubmitMeetsLatch(t) \/ BlockRecord(t)

Next == \E t \in Threads : KillSwitchStep(t) \/ LatchStep(t)

Spec == Init /\ [][Next]_vars

-----------------------------------------------------------------------------
(* The kill switches are linearizable: pending calls are the threads       *)
(* before their check or between their check and their record.             *)

Pending(t) ==
  IF pc[t].at \in {"armCheck", "armRecord"}
    THEN [op |-> "arm", scope |-> pc[t].scope]
  ELSE IF pc[t].at \in {"releaseCheck", "releaseRecord"}
    THEN [op |-> "release", scope |-> pc[t].scope]
  ELSE [op |-> "none"]

Switches == INSTANCE KillSwitches WITH
  armed <- ActiveSwitches,
  asked <- [t \in Threads |-> Pending(t)]

(* Every arm and release call takes effect atomically between its start    *)
(* and its answer, and no auto_cancel or flatten event ever moves a switch *)
(* (arm_kill_switch, release_kill_switch, emergency_flatten,               *)
(* active_kill_switches).                                                  *)
SwitchesLinearizable == Switches!SwitchSpec

(* Only a failed reconcile or a failed duplicate recovery arms the latch:  *)
(* the refusal of a submit that read the latch before an operator released *)
(* it, and is audited after, does not arm it again.                        *)
LatchArmsOnlyOnFailure ==
  [][ ~LatchActive /\ LatchActive'
        => \E t \in Threads : At(t, "latchArmRecord") /\ ~At(t, "latchArmRecord")' ]_vars

(* "blockt Live-Fire bis operatorisches release": once armed, the latch    *)
(* stays active until an operator's release is recorded.                   *)
LatchHeldUntilRelease ==
  [][ LatchActive /\ ~LatchActive'
        => \E t \in Threads : At(t, "latchReleaseRecord") /\ ~At(t, "latchReleaseRecord")' ]_vars
=============================================================================
