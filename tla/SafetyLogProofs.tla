--------------------------- MODULE SafetyLogProofs ---------------------------
(***************************************************************************)
(* What SafetyLog guarantees for any number of threads, accounts, trades   *)
(* and events: the kill switches kept as an append-only table implement    *)
(* the atomic switches of KillSwitches, and only failures arm the latch.   *)
(***************************************************************************)
EXTENDS SafetyLog, TLAPS

-----------------------------------------------------------------------------
(* Appending to the logs *)

(* An appended event sets the switch of its scope if it is an arm or a     *)
(* release, and changes no other switch (active_kill_switches).            *)
LEMMA AppendedEventMovesOneSwitch ==
  ASSUME NEW log \in Seq(KillEvent), NEW e \in KillEvent, NEW s \in Scopes
  PROVE  IsActive(Append(log, e), s) <=>
           IF e.scope = s /\ e.type \in StateEventTypes THEN e.active
                                                        ELSE IsActive(log, s)
<1> DEFINE n == Len(log) + 1
           new == Append(log, e)
<1>1. /\ DOMAIN log = 1 .. Len(log)
      /\ DOMAIN new = 1 .. n
      /\ Len(log) \in Nat
      /\ new[n] = e
      /\ \A i \in DOMAIN log : new[i] = log[i]
  OBVIOUS
<1>2. \A i \in StateRows(log, s) : i \in Nat /\ i < n
  BY <1>1 DEF StateRows
<1>3. CASE e.scope = s /\ e.type \in StateEventTypes
  <2>1. n \in StateRows(new, s)
    BY <1>1, <1>3 DEF StateRows
  <2>2. \A i \in StateRows(new, s) : i \in Nat /\ i <= n
    BY <1>1 DEF StateRows
  <2>3. \A i \in StateRows(new, s) : (\A j \in StateRows(new, s) : j <= i) <=> i = n
    BY <1>1, <2>1, <2>2
  <2>4. IsActive(new, s) <=> new[n].active
    BY <2>1, <2>3 DEF IsActive
  <2> QED
    BY <1>1, <1>3, <2>4
<1>4. CASE ~(e.scope = s /\ e.type \in StateEventTypes)
  <2>1. StateRows(new, s) = StateRows(log, s)
    <3>1. ASSUME NEW i \in StateRows(new, s) PROVE i \in StateRows(log, s)
      BY <1>1, <1>4, <3>1 DEF StateRows
    <3>2. ASSUME NEW i \in StateRows(log, s) PROVE i \in StateRows(new, s)
      BY <1>1, <3>2 DEF StateRows
    <3> QED
      BY <3>1, <3>2
  <2>2. \A i \in StateRows(log, s) : new[i] = log[i]
    BY <1>1 DEF StateRows
  <2>3. IsActive(new, s) <=> IsActive(log, s)
    BY <2>1, <2>2 DEF IsActive
  <2> QED
    BY <1>4, <2>3
<1> QED
  BY <1>3, <1>4

(* No switch is armed before the first event.                              *)
LEMMA NothingActiveInEmptyLog == \A s : ~IsActive(<<>>, s)
  BY DEF IsActive, StateRows

-----------------------------------------------------------------------------
(* Type correctness *)

LEMMA IdleIsFrame == Idle \in Frame
  BY ServiceAssumption DEF Idle, Frame, Steps, Scopes

(* Every reachable state of the safety controls is well typed: in          *)
(* particular only rows the CHECK admits are ever in the event table.      *)
THEOREM TypeCorrect == Spec => []TypeOK
<1>1. Init => TypeOK
  BY IdleIsFrame DEF Init, TypeOK, KillEvent
<1>2. TypeOK /\ [Next]_vars => TypeOK'
  <2> SUFFICES ASSUME TypeOK, [Next]_vars PROVE TypeOK'
    OBVIOUS
  <2> USE IdleIsFrame DEF TypeOK
  <2>1. \A t \in Threads, step \in Steps, s \in Scopes, b \in BOOLEAN :
           Goto(t, step, s, b) => pc' \in [Threads -> Frame]
    BY DEF Goto, Frame
  <2>2. \A t \in Threads : Return(t) => pc' \in [Threads -> Frame]
    BY DEF Return
  <2>3. \A t \in Threads : pc[t].scope \in Scopes /\ pc[t].seen \in BOOLEAN
    BY DEF Frame
  <2>4. \A s \in Scopes, type \in EventTypes, b \in BOOLEAN :
           RecordKillEvent(s, type, b) => killEvents' \in Seq(KillEvent)
    BY DEF RecordKillEvent, KillEvent
  <2>5. \A a \in LatchActions : RecordLatchAudit(a) => latchAudit' \in Seq(LatchActions)
    BY DEF RecordLatchAudit
  <2>6. Service \in Scopes
    BY ServiceAssumption DEF Scopes
  <2>7. UNCHANGED vars => TypeOK'
    BY DEF vars
  <2>8. ASSUME NEW t \in Threads, KillSwitchStep(t) PROVE TypeOK'
    <3>1. ASSUME NEW s \in Scopes, CallArm(t, s) \/ CallRelease(t, s) PROVE TypeOK'
      BY <2>1, <3>1 DEF CallArm, CallRelease, Steps
    <3>2. ASSUME NEW s \in Scopes, CallFlatten(t, s) PROVE TypeOK'
      <4>1. (s \in ActiveSwitches) \in BOOLEAN
        OBVIOUS
      <4> QED
        BY <2>1, <3>2, <4>1 DEF CallFlatten, Steps
    <3>3. ASSUME ArmCheck(t) \/ ReleaseCheck(t) PROVE TypeOK'
      BY <2>1, <2>2, <2>3, <3>3 DEF ArmCheck, ReleaseCheck, Steps
    <3>4. ASSUME ArmRecord(t) PROVE TypeOK'
      BY <2>1, <2>2, <2>3, <2>4, <3>4 DEF ArmRecord, Steps, EventTypes, StateEventTypes
    <3>5. ASSUME AutoCancelRecord(t) \/ ReleaseRecord(t) PROVE TypeOK'
      BY <2>2, <2>3, <2>4, <3>5 DEF AutoCancelRecord, ReleaseRecord, EventTypes, StateEventTypes
    <3>6. ASSUME AutoCancelFails(t) \/ FlattenAborts(t) PROVE TypeOK'
      BY <2>2, <3>6 DEF AutoCancelFails, FlattenAborts
    <3>7. ASSUME FlattenRequest(t) PROVE TypeOK'
      BY <2>1, <2>3, <2>4, <3>7 DEF FlattenRequest, Steps, EventTypes
    <3>8. ASSUME FlattenFinish(t) PROVE TypeOK'
      BY <2>2, <2>3, <2>4, <3>8 DEF FlattenFinish, EventTypes
    <3> QED
      BY <2>8, <3>1, <3>2, <3>3, <3>4, <3>5, <3>6, <3>7, <3>8 DEF KillSwitchStep
  <2>9. ASSUME NEW t \in Threads, LatchStep(t) PROVE TypeOK'
    <3>1. ASSUME ReconcileFails(t) \/ DuplicateRecoveryFails(t) \/ CallLatchRelease(t)
                   \/ SubmitMeetsLatch(t)
          PROVE TypeOK'
      BY <2>1, <2>6, <3>1
         DEF ReconcileFails, DuplicateRecoveryFails, CallLatchRelease, SubmitMeetsLatch, Steps
    <3>2. ASSUME LatchArmRecord(t) \/ LatchReleaseRecord(t) \/ BlockRecord(t) PROVE TypeOK'
      BY <2>2, <2>5, <3>2 DEF LatchArmRecord, LatchReleaseRecord, BlockRecord, LatchActions
    <3> QED
      BY <2>9, <3>1, <3>2 DEF LatchStep
  <2> QED
    BY <2>7, <2>8, <2>9 DEF Next
<1> QED
  BY <1>1, <1>2, PTL DEF Spec

-----------------------------------------------------------------------------
(* The append-only table implements atomic switches *)

Asked == [t \in Threads |-> Pending(t)]

ArmCall(s)     == [op |-> "arm", scope |-> s]
ReleaseCall(s) == [op |-> "release", scope |-> s]
NoCall         == [op |-> "none"]

(* The pending call of a thread whose frame is f.                          *)
CallOf(f) ==
  IF f.at \in {"armCheck", "armRecord"} THEN ArmCall(f.scope)
  ELSE IF f.at \in {"releaseCheck", "releaseRecord"} THEN ReleaseCall(f.scope)
  ELSE NoCall

(* A thread's step changes the pending call of that thread only.           *)
LEMMA OneThreadAsks ==
  ASSUME TypeOK, NEW t \in Threads, NEW f \in Frame, pc' = [pc EXCEPT ![t] = f]
  PROVE  Asked' = [Asked EXCEPT ![t] = CallOf(f)]
<1>1. \A u \in Threads : pc'[u] = IF u = t THEN f ELSE pc[u]
  BY DEF TypeOK
<1>2. Asked = [u \in Threads |-> CallOf(pc[u])] /\ Asked' = [u \in Threads |-> CallOf(pc'[u])]
  BY DEF Asked, Pending, CallOf, ArmCall, ReleaseCall, NoCall
<1> QED
  BY <1>1, <1>2

LEMMA AskedOfThread == \A t \in Threads : Asked[t] = CallOf(pc[t])
  BY DEF Asked, Pending, CallOf, ArmCall, ReleaseCall, NoCall

(* The steps of KillSwitches in terms of the switches armed and the calls  *)
(* pending here.                                                           *)
LEMMA SwitchSteps ==
  ASSUME NEW t \in Threads, NEW s \in Scopes
  PROVE  /\ /\ Asked[t] = NoCall
            /\ \/ Asked' = [Asked EXCEPT ![t] = ArmCall(s)]
               \/ Asked' = [Asked EXCEPT ![t] = ReleaseCall(s)]
            /\ UNCHANGED ActiveSwitches
            => Switches!SwitchNext
         /\ /\ Asked[t] = ArmCall(s)
            /\ Asked' = [Asked EXCEPT ![t] = NoCall]
            /\ \/ ActiveSwitches' = ActiveSwitches \cup {s}
               \/ s \in ActiveSwitches /\ UNCHANGED ActiveSwitches
            => Switches!SwitchNext
         /\ /\ Asked[t] = ReleaseCall(s)
            /\ Asked' = [Asked EXCEPT ![t] = NoCall]
            /\ \/ ActiveSwitches' = ActiveSwitches \ {s}
               \/ s \notin ActiveSwitches /\ UNCHANGED ActiveSwitches
            => Switches!SwitchNext
<1> USE DEF Asked, ArmCall, ReleaseCall, NoCall, Switches!NoCall
<1>1. ASSUME Asked[t] = NoCall, UNCHANGED ActiveSwitches,
             \/ Asked' = [Asked EXCEPT ![t] = ArmCall(s)]
             \/ Asked' = [Asked EXCEPT ![t] = ReleaseCall(s)]
      PROVE  Switches!SwitchNext
  <2>1. PICK c \in Switches!Calls : Asked' = [Asked EXCEPT ![t] = c]
    BY <1>1 DEF Switches!Calls
  <2>2. Switches!Ask(t, c)
    BY <1>1, <2>1 DEF Switches!Ask
  <2> QED
    BY <2>2 DEF Switches!SwitchNext
<1>2. ASSUME Asked[t] = ArmCall(s), Asked' = [Asked EXCEPT ![t] = NoCall],
             \/ ActiveSwitches' = ActiveSwitches \cup {s}
             \/ s \in ActiveSwitches /\ UNCHANGED ActiveSwitches
      PROVE  Switches!SwitchNext
  <2>1. Asked[t].op = "arm" /\ Asked[t].scope = s /\ Asked[t] # NoCall
    BY <1>2
  <2>2. Switches!TakeEffect(t) \/ Switches!AlreadySo(t)
    BY <1>2, <2>1 DEF Switches!TakeEffect, Switches!AlreadySo
  <2> QED
    BY <2>2 DEF Switches!SwitchNext
<1>3. ASSUME Asked[t] = ReleaseCall(s), Asked' = [Asked EXCEPT ![t] = NoCall],
             \/ ActiveSwitches' = ActiveSwitches \ {s}
             \/ s \notin ActiveSwitches /\ UNCHANGED ActiveSwitches
      PROVE  Switches!SwitchNext
  <2>1. Asked[t].op = "release" /\ Asked[t].scope = s /\ Asked[t] # NoCall
    BY <1>3
  <2>2. Switches!TakeEffect(t) \/ Switches!AlreadySo(t)
    BY <1>3, <2>1 DEF Switches!TakeEffect, Switches!AlreadySo
  <2> QED
    BY <2>2 DEF Switches!SwitchNext
<1> QED
  BY <1>1, <1>2, <1>3

(* What recording an event of scope s does to the set of armed scopes.     *)
LEMMA RecordedEventOnSwitches ==
  ASSUME TypeOK, NEW s \in Scopes, NEW type \in EventTypes, NEW b \in BOOLEAN,
         RecordKillEvent(s, type, b)
  PROVE  ActiveSwitches' = IF type \notin StateEventTypes THEN ActiveSwitches
                           ELSE IF b THEN ActiveSwitches \cup {s}
                                     ELSE ActiveSwitches \ {s}
<1> DEFINE e == [scope |-> s, type |-> type, active |-> b]
<1>1. e \in KillEvent /\ killEvents \in Seq(KillEvent) /\ killEvents' = Append(killEvents, e)
  BY DEF RecordKillEvent, KillEvent, TypeOK
<1>2. \A x \in Scopes :
        IsActive(killEvents', x) <=> IF e.scope = x /\ e.type \in StateEventTypes
                                       THEN e.active ELSE IsActive(killEvents, x)
  BY <1>1, AppendedEventMovesOneSwitch
<1>3. \A x \in Scopes :
        IsActive(killEvents', x) <=> IF s = x /\ type \in StateEventTypes
                                       THEN b ELSE IsActive(killEvents, x)
  BY <1>2
<1> QED
  BY <1>3 DEF ActiveSwitches

(* A step of the tables is a step of the atomic switches or invisible.     *)
LEMMA StepIsSwitchStep ==
  ASSUME TypeOK, Next
  PROVE  Switches!SwitchNext \/ UNCHANGED <<ActiveSwitches, Asked>>
<1>1. PICK t \in Threads : KillSwitchStep(t) \/ LatchStep(t)
  BY DEF Next
<1>2. \A step \in Steps, s \in Scopes, b \in BOOLEAN : Goto(t, step, s, b) =>
        Asked' = [Asked EXCEPT ![t] = CallOf([at |-> step, scope |-> s, seen |-> b])]
  BY OneThreadAsks DEF Goto, Frame
<1>3. Return(t) => Asked' = [Asked EXCEPT ![t] = NoCall]
  <2>1. CallOf(Idle) = NoCall
    BY DEF CallOf, Idle
  <2> QED
    BY <2>1, OneThreadAsks, IdleIsFrame DEF Return
<1>4. pc[t].scope \in Scopes /\ pc[t].seen \in BOOLEAN /\ Asked[t] = CallOf(pc[t])
  BY AskedOfThread DEF TypeOK, Frame
<1>5. UNCHANGED killEvents => UNCHANGED ActiveSwitches
  BY DEF ActiveSwitches
<1>6. Asked = [Asked EXCEPT ![t] = Asked[t]]
  BY DEF Asked
<1>7. ASSUME NEW s \in Scopes, CallArm(t, s) \/ CallRelease(t, s) PROVE Switches!SwitchNext
  <2>1. Asked[t] = NoCall
    BY <1>4, <1>7 DEF CallArm, CallRelease, At, CallOf
  <2>2. \/ Asked' = [Asked EXCEPT ![t] = ArmCall(s)]
        \/ Asked' = [Asked EXCEPT ![t] = ReleaseCall(s)]
    BY <1>2, <1>7 DEF CallArm, CallRelease, CallOf, Steps
  <2>3. UNCHANGED ActiveSwitches
    BY <1>5, <1>7 DEF CallArm, CallRelease
  <2> QED
    BY <2>1, <2>2, <2>3, SwitchSteps
<1>8. ASSUME ArmCheck(t) PROVE Switches!SwitchNext \/ UNCHANGED <<ActiveSwitches, Asked>>
  <2>1. Asked[t] = ArmCall(pc[t].scope)
    BY <1>4, <1>8 DEF ArmCheck, At, CallOf
  <2>2. UNCHANGED ActiveSwitches
    BY <1>5, <1>8 DEF ArmCheck
  <2>3. CASE pc[t].scope \in ActiveSwitches
    BY <1>3, <1>4, <1>8, <2>1, <2>2, <2>3, SwitchSteps DEF ArmCheck
  <2>4. CASE pc[t].scope \notin ActiveSwitches
    <3>1. Asked' = [Asked EXCEPT ![t] = ArmCall(pc[t].scope)]
      BY <1>2, <1>4, <1>8, <2>4 DEF ArmCheck, CallOf, Steps
    <3> QED
      BY <1>6, <2>1, <2>2, <3>1
  <2> QED
    BY <2>3, <2>4
<1>9. ASSUME ReleaseCheck(t) PROVE Switches!SwitchNext \/ UNCHANGED <<ActiveSwitches, Asked>>
  <2>1. Asked[t] = ReleaseCall(pc[t].scope)
    BY <1>4, <1>9 DEF ReleaseCheck, At, CallOf
  <2>2. UNCHANGED ActiveSwitches
    BY <1>5, <1>9 DEF ReleaseCheck
  <2>3. CASE pc[t].scope \notin ActiveSwitches
    BY <1>3, <1>4, <1>9, <2>1, <2>2, <2>3, SwitchSteps DEF ReleaseCheck
  <2>4. CASE pc[t].scope \in ActiveSwitches
    <3>1. Asked' = [Asked EXCEPT ![t] = ReleaseCall(pc[t].scope)]
      BY <1>2, <1>4, <1>9, <2>4 DEF ReleaseCheck, CallOf, Steps
    <3> QED
      BY <1>6, <2>1, <2>2, <3>1
  <2> QED
    BY <2>3, <2>4
<1>10. ASSUME ArmRecord(t) PROVE Switches!SwitchNext
  <2>1. Asked[t] = ArmCall(pc[t].scope)
    BY <1>4, <1>10 DEF ArmRecord, At, CallOf
  <2>2. ActiveSwitches' = ActiveSwitches \cup {pc[t].scope}
    BY <1>4, <1>10, RecordedEventOnSwitches DEF ArmRecord, EventTypes, StateEventTypes
  <2>3. Asked' = [Asked EXCEPT ![t] = NoCall]
    BY <1>2, <1>3, <1>4, <1>10 DEF ArmRecord, CallOf, Steps
  <2> QED
    BY <1>4, <2>1, <2>2, <2>3, SwitchSteps
<1>11. ASSUME ReleaseRecord(t) PROVE Switches!SwitchNext
  <2>1. Asked[t] = ReleaseCall(pc[t].scope)
    BY <1>4, <1>11 DEF ReleaseRecord, At, CallOf
  <2>2. ActiveSwitches' = ActiveSwitches \ {pc[t].scope}
    <3>1. RecordKillEvent(pc[t].scope, "release", FALSE) /\ "release" \in EventTypes
          /\ "release" \in StateEventTypes
      BY <1>11 DEF ReleaseRecord, EventTypes, StateEventTypes
    <3> QED
      BY <1>4, <3>1, RecordedEventOnSwitches
  <2>3. Asked' = [Asked EXCEPT ![t] = NoCall]
    BY <1>3, <1>11 DEF ReleaseRecord
  <2> QED
    BY <1>4, <2>1, <2>2, <2>3, SwitchSteps
<1>12. ASSUME AutoCancelRecord(t) \/ AutoCancelFails(t) \/ (\E s \in Scopes : CallFlatten(t, s))
                \/ FlattenRequest(t) \/ FlattenFinish(t) \/ FlattenAborts(t) \/ LatchStep(t)
       PROVE  UNCHANGED <<ActiveSwitches, Asked>>
  <2>1. UNCHANGED ActiveSwitches
    <3>1. CASE UNCHANGED killEvents
      BY <1>5, <3>1
    <3>2. CASE AutoCancelRecord(t) \/ FlattenRequest(t) \/ FlattenFinish(t)
      <4>1. PICK type \in EventTypes \ StateEventTypes, b \in BOOLEAN :
                   RecordKillEvent(pc[t].scope, type, b)
        BY <1>4, <3>2
           DEF AutoCancelRecord, FlattenRequest, FlattenFinish, EventTypes, StateEventTypes
      <4> QED
        BY <1>4, <4>1, RecordedEventOnSwitches
    <3> QED
      BY <1>12, <3>1, <3>2
         DEF AutoCancelFails, CallFlatten, FlattenAborts, LatchStep, ReconcileFails,
             DuplicateRecoveryFails, LatchArmRecord, CallLatchRelease, LatchReleaseRecord,
             SubmitMeetsLatch, BlockRecord
  <2>2. Asked[t] = NoCall
    BY <1>4, <1>12
       DEF AutoCancelRecord, AutoCancelFails, CallFlatten, FlattenRequest, FlattenFinish,
           FlattenAborts, LatchStep, ReconcileFails, DuplicateRecoveryFails, LatchArmRecord,
           CallLatchRelease, LatchReleaseRecord, SubmitMeetsLatch, BlockRecord, At, CallOf
  <2>3. Asked' = [Asked EXCEPT ![t] = NoCall]
    <3>1. CASE Return(t)
      BY <1>3, <3>1
    <3>2. CASE \E step \in Steps \ {"armCheck", "armRecord", "releaseCheck", "releaseRecord"},
                  s \in Scopes, b \in BOOLEAN : Goto(t, step, s, b)
      BY <1>2, <3>2 DEF CallOf
    <3>3. ASSUME NEW s \in Scopes, CallFlatten(t, s) PROVE Asked' = [Asked EXCEPT ![t] = NoCall]
      <4>1. (s \in ActiveSwitches) \in BOOLEAN
        OBVIOUS
      <4> QED
        BY <3>2, <3>3, <4>1 DEF CallFlatten, Steps
    <3>4. CASE FlattenRequest(t)
      BY <1>4, <3>2, <3>4 DEF FlattenRequest, Steps
    <3>5. CASE ReconcileFails(t) \/ DuplicateRecoveryFails(t) \/ CallLatchRelease(t)
                 \/ SubmitMeetsLatch(t)
      <4>1. Service \in Scopes
        BY ServiceAssumption DEF Scopes
      <4> QED
        BY <3>2, <3>5, <4>1
           DEF ReconcileFails, DuplicateRecoveryFails, CallLatchRelease, SubmitMeetsLatch, Steps
    <3> QED
      BY <1>12, <3>1, <3>3, <3>4, <3>5
         DEF AutoCancelRecord, AutoCancelFails, FlattenFinish, FlattenAborts, LatchStep,
             LatchArmRecord, LatchReleaseRecord, BlockRecord
  <2> QED
    BY <1>6, <2>1, <2>2, <2>3
<1> QED
  BY <1>1, <1>7, <1>8, <1>9, <1>10, <1>11, <1>12 DEF KillSwitchStep

(* Concurrent arm, release and flatten calls on the append-only table      *)
(* behave like one atomic switch per scope: the two transactions of a call *)
(* have a moment between its start and its answer at which the whole call  *)
(* takes effect (arm_kill_switch, release_kill_switch, emergency_flatten). *)
THEOREM SwitchesRefine == Spec => SwitchesLinearizable
<1>1. Init => Switches!SwitchInit
  <2> SUFFICES ASSUME Init PROVE Switches!SwitchInit
    OBVIOUS
  <2>1. ActiveSwitches = {}
    BY NothingActiveInEmptyLog DEF Init, ActiveSwitches
  <2>2. [t \in Threads |-> Pending(t)] = [t \in Threads |-> [op |-> "none"]]
    BY DEF Init, Pending, Idle
  <2> QED
    BY <2>1, <2>2 DEF Switches!SwitchInit, Switches!NoCall
<1>2. TypeOK /\ [Next]_vars => [Switches!SwitchNext]_(Switches!switchVars)
  <2> SUFFICES ASSUME TypeOK, [Next]_vars
               PROVE  Switches!SwitchNext \/ UNCHANGED <<ActiveSwitches, Asked>>
    BY DEF Switches!switchVars, Asked
  <2>1. CASE Next
    BY <2>1, StepIsSwitchStep
  <2>2. CASE UNCHANGED vars
    BY <2>2 DEF vars, ActiveSwitches, Asked, Pending
  <2> QED
    BY <2>1, <2>2
<1> QED
  BY <1>1, <1>2, TypeCorrect, PTL DEF Spec, SwitchesLinearizable, Switches!SwitchSpec

-----------------------------------------------------------------------------
(* Only a failed reconcile or a failed duplicate recovery arms the latch,  *)
(* however the audits of refused submits and releases interleave with it   *)
(* (safety_latch_is_active).                                               *)
THEOREM LatchArmedByFailureOnly == Spec => LatchArmsOnlyOnFailure
<1> DEFINE Armed == \E t \in Threads : At(t, "latchArmRecord") /\ ~At(t, "latchArmRecord")'
<1>1. TypeOK /\ [Next]_vars => [~LatchActive /\ LatchActive' => Armed]_vars
  <2> SUFFICES ASSUME TypeOK, Next, ~LatchActive, LatchActive' PROVE Armed
    OBVIOUS
  <2>1. PICK t \in Threads : KillSwitchStep(t) \/ LatchStep(t)
    BY DEF Next
  <2>2. latchAudit' # latchAudit
    BY DEF LatchActive
  <2>3. \/ LatchArmRecord(t) \/ LatchReleaseRecord(t) \/ BlockRecord(t)
    BY <2>1, <2>2
       DEF KillSwitchStep, LatchStep, CallArm, CallRelease, CallFlatten, ArmCheck, ArmRecord,
           AutoCancelRecord, AutoCancelFails, ReleaseCheck, ReleaseRecord, FlattenRequest,
           FlattenFinish, FlattenAborts, ReconcileFails, DuplicateRecoveryFails,
           CallLatchRelease, SubmitMeetsLatch
  <2>4. \A a \in LatchActions : RecordLatchAudit(a) => (LatchActive' <=> a = "arm")
    BY DEF RecordLatchAudit, LatchActive, TypeOK
  <2>5. LatchArmRecord(t)
    BY <2>3, <2>4 DEF LatchReleaseRecord, BlockRecord, LatchActions
  <2>6. pc'[t].at = "idle"
    BY <2>5 DEF LatchArmRecord, Return, Idle, TypeOK
  <2> QED
    BY <2>5, <2>6 DEF LatchArmRecord, At
<1> QED
  BY <1>1, TypeCorrect, PTL DEF Spec, LatchArmsOnlyOnFailure
=============================================================================
