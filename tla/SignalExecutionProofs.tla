------------------------ MODULE SignalExecutionProofs ------------------------
(***************************************************************************)
(* Proofs about SignalExecution, for any signals, bounds and gates: types, *)
(* the answer behind every acknowledgement, the evidence behind every live *)
(* candidate and every opening order, and ReleaseProtocol as what all of   *)
(* it implements.  None of the invariants is inductive by itself: what a   *)
(* step of the worker may do next rests on what the steps before it have   *)
(* established about the message at hand (StepsHaveReasons).               *)
(***************************************************************************)
EXTENDS SignalExecution, TLAPS

(* The worker has a message of its batch in hand.                          *)
Handling == {"decide", "await", "store", "ack", "deadLetter", "dropped"}

(* The batch is used up when the worker reads again, and not before; what  *)
(* is left of it is pending.                                               *)
HeadInBatch ==
  /\ pc = "poll" => head = next
  /\ pc \in Handling => head < next /\ head .. next - 1 \subseteq pending

HasDecision(n) == \E e \in Executions : decision[e].by = n

(* What each step of the worker can rely on.                               *)
StepsHaveReasons ==
  /\ pc = "ack" /\ mode # "paper" => HasDecision(head)
  /\ pc = "dropped" => head \in deadLetters
  /\ pc = "store" /\ MatchRequired /\ found.action = "candidate"
       => ExecutionOf(head) \in paperOpened
  /\ pc \in {"await", "store"} => mode # "paper"

(* A key says what happened on paper.                                      *)
ProofIsTrue == proof \subseteq paperOpened

IInv ==
  /\ TypeOK /\ HeadInBatch /\ StepsHaveReasons /\ ProofIsTrue
  /\ AckedIsAnswered /\ OpenedIsProven /\ CandidateWasMatched

(* The types by the groups of variables the actions change together.       *)
BusType ==
  /\ mode \in Modes
  /\ stream \in Seq(Signals) /\ Len(stream) <= MaxMessages

WorkerType ==
  /\ next \in 1 .. Len(stream) + 1 /\ head \in 1 .. next
  /\ pending \subseteq 1 .. next - 1 /\ deadLetters \subseteq 1 .. next - 1
  /\ pc \in Steps
  /\ found \in [action : Actions, capped : BOOLEAN]

RowType ==
  /\ decision \in [Executions -> {NoRow} \cup [action : Actions, by : Messages]]
  /\ released \subseteq Executions /\ opened \subseteq Executions

OutsideType ==
  /\ paperOpened \subseteq Prebound /\ proof \subseteq Prebound
  /\ {redis, latch, survival, halted} \subseteq BOOLEAN
  /\ faults \in 0 .. MaxFaults

-----------------------------------------------------------------------------
LEMMA TypeInParts == TypeOK <=> BusType /\ WorkerType /\ RowType /\ OutsideType
  BY DEF TypeOK, BusType, WorkerType, RowType, OutsideType

LEMMA TypeFromParts ==
  ASSUME BusType', WorkerType', RowType', OutsideType' PROVE TypeOK'
  BY DEF TypeOK, BusType, WorkerType, RowType, OutsideType

(* What Append keeps of a stream.                                          *)
LEMMA Appended ==
  ASSUME NEW S, NEW q \in Seq(S), NEW x \in S
  PROVE  /\ Append(q, x) \in Seq(S) /\ Len(Append(q, x)) = Len(q) + 1
         /\ \A n \in 1 .. Len(q) : Append(q, x)[n] = q[n]
  OBVIOUS

(* Actions that leave the worker, the rows or the outside alone keep what  *)
(* is said of it alone.                                                    *)
LEMMA WorkerFrame == ASSUME WorkerType, UNCHANGED <<workerVars, stream>> PROVE WorkerType'
  BY DEF WorkerType, workerVars

LEMMA RowFrame == ASSUME RowType, UNCHANGED dbVars PROVE RowType'
  BY DEF RowType, dbVars

LEMMA OutsideFrame ==
  ASSUME OutsideType, UNCHANGED <<outsideVars, halted>>, faults' = faults \/ Fault
  PROVE  OutsideType'
  BY LimitAssumption DEF OutsideType, outsideVars, Fault

LEMMA BusFrame == ASSUME BusType, UNCHANGED streamVars PROVE BusType'
  BY DEF BusType, streamVars

-----------------------------------------------------------------------------
(* Types *)

LEMMA InitTyped == Init => TypeOK /\ HeadInBatch
  <1> SUFFICES ASSUME Init PROVE TypeOK /\ HeadInBatch
    OBVIOUS
  <1>1. BusType
    BY LimitAssumption DEF Init, BusType
  <1>2. WorkerType
    BY DEF Init, WorkerType, Steps, Actions, NothingFound
  <1>3. RowType
    BY DEF Init, RowType
  <1>4. OutsideType
    <2>1. {redis, latch, survival, halted} \subseteq BOOLEAN
      BY Zenon DEF Init
    <2> QED  BY <2>1, LimitAssumption DEF Init, OutsideType
  <1>5. HeadInBatch
    BY DEF Init, HeadInBatch, Handling
  <1> QED  BY <1>1, <1>2, <1>3, <1>4, <1>5, TypeInParts

(* What the worker does to its own variables: the shapes its steps have.   *)
LEMMA GoOnTyped ==
  ASSUME WorkerType, BusType, HeadInBatch, pc \in Handling, GoOn,
         UNCHANGED <<next, deadLetters, stream>>, pending' \in {pending, pending \ {head}}
  PROVE  WorkerType' /\ HeadInBatch'
  <1>1. /\ next \in Nat /\ head \in Nat /\ head < next /\ Len(stream) \in Nat
        /\ head .. next - 1 \subseteq pending
    BY DEF WorkerType, HeadInBatch, BusType
  <1>2. head + 1 \in 1 .. next /\ pc' \in Steps /\ found' \in [action : Actions, capped : BOOLEAN]
    BY <1>1 DEF GoOn, Steps, Actions, NothingFound
  <1>3. WorkerType'
    BY <1>2 DEF WorkerType, GoOn
  <1>4. head + 1 .. next - 1 \subseteq pending \ {head}
    BY <1>1
  <1>5. HeadInBatch'
    <2>1. CASE head + 1 = next
      BY <2>1 DEF GoOn, HeadInBatch, Handling
    <2>2. CASE head + 1 # next
      BY <1>1, <1>4, <2>2 DEF GoOn, HeadInBatch, Handling
    <2> QED  BY <2>1, <2>2
  <1> QED  BY <1>3, <1>5

LEMMA GotoTyped ==
  ASSUME WorkerType, HeadInBatch, pc \in Handling, NEW s \in Handling, Goto(s),
         UNCHANGED <<next, pending, stream>>,
         deadLetters' \in {deadLetters, deadLetters \cup {head}},
         found' \in [action : Actions, capped : BOOLEAN]
  PROVE  WorkerType' /\ HeadInBatch'
  <1>1. next \in Nat /\ head \in 1 .. next /\ head < next
    BY DEF WorkerType, HeadInBatch
  <1>2. WorkerType'
    BY <1>1 DEF WorkerType, Goto, Steps, Handling
  <1>3. HeadInBatch'
    BY DEF HeadInBatch, Goto, Handling
  <1> QED  BY <1>2, <1>3

LEMMA ConsumeTyped ==
  ASSUME WorkerType, BusType, HeadInBatch, Consume
  PROVE  WorkerType' /\ HeadInBatch'
  <1>1. /\ next \in Nat \ {0} /\ head = next /\ next <= Len(stream) /\ Len(stream) \in Nat
        /\ Batch \in Nat \ {0}
    BY LimitAssumption DEF WorkerType, HeadInBatch, Consume, BusType
  <1>2. BatchEnd \in next .. Len(stream)
    BY <1>1 DEF BatchEnd
  <1>3. /\ next' = BatchEnd + 1 /\ pending' = pending \cup (next .. BatchEnd)
        /\ UNCHANGED <<head, deadLetters, found, stream>> /\ pc' = "decide"
    BY DEF Consume, streamVars
  <1>4. WorkerType'
    BY <1>1, <1>2, <1>3 DEF WorkerType, Steps
  <1>5. HeadInBatch'
    BY <1>1, <1>2, <1>3 DEF HeadInBatch, Handling
  <1> QED  BY <1>4, <1>5

(* Goto with a verdict, an answer or nothing new.                          *)
LEMMA WorkerStepTyped ==
  ASSUME TypeOK, HeadInBatch, Worker
  PROVE  TypeOK' /\ HeadInBatch'
  <1>1. BusType /\ WorkerType /\ RowType /\ OutsideType
    BY TypeInParts
  <1>2. BusType'
    BY <1>1, BusFrame DEF Worker, Consume, ConsumeFails, SkipInPaperMode, PolicyRefuses,
       DecideBlocked, DecideShadow, DecideCandidate, MatchSeen, MatchMissed, Store, StoreFails,
       Ack, AckFails, DeadLetter, DropAck, GiveUp, Finds, streamVars
  <1>3. OutsideType'
    BY <1>1, OutsideFrame DEF Worker, Consume, ConsumeFails, SkipInPaperMode, PolicyRefuses,
       DecideBlocked, DecideShadow, DecideCandidate, MatchSeen, MatchMissed, Store, StoreFails,
       Ack, AckFails, DeadLetter, DropAck, GiveUp, Finds, LatchLetsPass
  <1>4. CASE Consume
    <2>1. RowType'
      BY <1>1, <1>4, RowFrame DEF Consume
    <2> QED  BY <1>1, <1>2, <1>3, <1>4, <2>1, ConsumeTyped, TypeFromParts
  <1>5. CASE ConsumeFails
    <2>1. RowType'
      BY <1>1, <1>5, RowFrame DEF ConsumeFails
    <2>2. WorkerType' /\ HeadInBatch'
      BY <1>1, <1>5 DEF ConsumeFails, WorkerType, HeadInBatch, Handling, Steps, streamVars
    <2> QED  BY <1>2, <1>3, <2>1, <2>2, TypeFromParts
  <1>6. CASE SkipInPaperMode \/ PolicyRefuses \/ MatchSeen \/ AckFails \/ DeadLetter
    <2>1. RowType'
      BY <1>1, <1>6, RowFrame DEF SkipInPaperMode, PolicyRefuses, MatchSeen, AckFails, DeadLetter
    <2>2. /\ pc \in Handling /\ \E s \in Handling : Goto(s)
          /\ UNCHANGED <<next, pending, stream, found>>
          /\ deadLetters' \in {deadLetters, deadLetters \cup {head}}
      BY <1>6 DEF SkipInPaperMode, PolicyRefuses, MatchSeen, AckFails, DeadLetter, HandlingFails,
         Handling, streamVars
    <2>3. WorkerType' /\ HeadInBatch'
      BY <1>1, <2>2, GotoTyped DEF WorkerType
    <2> QED  BY <1>2, <1>3, <2>1, <2>3, TypeFromParts
  <1>7. CASE DecideBlocked \/ DecideShadow \/ DecideCandidate \/ MatchMissed
    <2>1. RowType'
      BY <1>1, <1>7, RowFrame
      DEF DecideBlocked, DecideShadow, DecideCandidate, MatchMissed, Finds
    <2>2. /\ pc \in Handling /\ \E s \in Handling : Goto(s)
          /\ UNCHANGED <<next, pending, stream, deadLetters>>
      BY <1>7 DEF DecideBlocked, DecideShadow, DecideCandidate, MatchMissed, Finds, Handling,
         streamVars
    <2>3. survival \in BOOLEAN
      BY <1>1 DEF OutsideType
    <2>4. found' \in [action : Actions, capped : BOOLEAN]
      BY <1>1, <1>7, <2>3 DEF DecideBlocked, DecideShadow, DecideCandidate, MatchMissed, Finds,
         Unmatched, WorkerType, Actions
    <2>5. WorkerType' /\ HeadInBatch'
      BY <1>1, <2>2, <2>4, GotoTyped
    <2> QED  BY <1>2, <1>3, <2>1, <2>5, TypeFromParts
  <1>8. CASE Store \/ StoreFails
    <2>1. /\ pc \in Handling /\ \E s \in Handling : Goto(s)
          /\ UNCHANGED <<next, pending, stream, deadLetters, found>>
      BY <1>8 DEF Store, StoreFails, HandlingFails, Handling, streamVars
    <2>2. WorkerType' /\ HeadInBatch'
      BY <1>1, <2>1, GotoTyped DEF WorkerType
    <2>3. RowType'
      <3>1. CASE StoreFails
        BY <1>1, <3>1, RowFrame DEF StoreFails
      <3>2. CASE Store
        <4> Len(stream) \in Nat /\ MaxMessages \in Nat /\ pc = "store"
          BY <1>1, <3>2, LimitAssumption DEF BusType, Store
        <4>1. head \in Messages /\ found.action \in Actions
          BY <1>1 DEF WorkerType, BusType, HeadInBatch, Handling, Messages
        <4>2. [action |-> found.action, by |-> head] \in [action : Actions, by : Messages]
          BY <4>1
        <4> QED  BY <1>1, <3>2, <4>2 DEF Store, RowType
      <3> QED  BY <1>8, <3>1, <3>2
    <2> QED  BY <1>2, <1>3, <2>2, <2>3, TypeFromParts
  <1>9. CASE Ack \/ DropAck \/ GiveUp
    <2>1. RowType'
      BY <1>1, <1>9, RowFrame DEF Ack, DropAck, GiveUp
    <2>2. /\ pc \in Handling /\ GoOn /\ UNCHANGED <<next, deadLetters, stream>>
          /\ pending' \in {pending, pending \ {head}}
      BY <1>9 DEF Ack, DropAck, GiveUp, Handling, streamVars
    <2> QED  BY <1>1, <1>2, <1>3, <2>1, <2>2, GoOnTyped, TypeFromParts
  <1> QED  BY <1>4, <1>5, <1>6, <1>7, <1>8, <1>9 DEF Worker

LEMMA PublishTyped ==
  ASSUME TypeOK, HeadInBatch, NEW s \in Signals, Publish(s)
  PROVE  TypeOK' /\ HeadInBatch'
  <1>1. BusType /\ WorkerType /\ RowType /\ OutsideType
    BY TypeInParts
  <1>2. /\ stream' \in Seq(Signals) /\ Len(stream') = Len(stream) + 1
        /\ Len(stream) \in Nat /\ MaxMessages \in Nat /\ Len(stream) < MaxMessages
        /\ mode' = mode
    BY <1>1, Appended, LimitAssumption DEF Publish, BusType
  <1>3. BusType'
    BY <1>1, <1>2 DEF BusType
  <1>4. WorkerType' /\ HeadInBatch'
    BY <1>1, <1>2 DEF Publish, WorkerType, HeadInBatch, workerVars
  <1>5. RowType'
    BY <1>1, RowFrame DEF Publish
  <1>6. OutsideType'
    BY <1>1, OutsideFrame DEF Publish
  <1> QED  BY <1>3, <1>4, <1>5, <1>6, TypeFromParts

LEMMA ProcessTyped ==
  ASSUME TypeOK, HeadInBatch, Crash \/ Restart
  PROVE  TypeOK' /\ HeadInBatch'
  <1>1. BusType /\ WorkerType /\ RowType /\ OutsideType
    BY TypeInParts
  <1>2. BusType' /\ RowType'
    BY <1>1, BusFrame, RowFrame DEF Crash, Restart
  <1>3. WorkerType' /\ HeadInBatch'
    <2>1. /\ pc' \in {"down", "poll"} /\ head' \in {head, next}
          /\ pc' = "poll" => head' = next
          /\ found' \in {found, NothingFound}
          /\ UNCHANGED <<next, pending, deadLetters, stream>>
      BY DEF Crash, Restart, streamVars
    <2>2. next \in 1 .. next
      BY <1>1 DEF WorkerType
    <2>3. NothingFound \in [action : Actions, capped : BOOLEAN]
      BY DEF NothingFound, Actions
    <2> QED  BY <1>1, <2>1, <2>2, <2>3 DEF WorkerType, HeadInBatch, Handling, Steps
  <1>4. OutsideType'
    <2>1. CASE Crash
      BY <1>1, <2>1, OutsideFrame DEF Crash
    <2>2. CASE Restart
      <3>1. {redis', latch', survival', halted'} \subseteq BOOLEAN
        BY <1>1, <2>2, Zenon DEF Restart, OutsideType, outsideVars
      <3> QED  BY <1>1, <2>2, <3>1 DEF Restart, OutsideType, outsideVars
    <2> QED  BY <2>1, <2>2
  <1> QED  BY <1>2, <1>3, <1>4, TypeFromParts

LEMMA HandlersTyped ==
  ASSUME TypeOK, HeadInBatch, Handlers \/ HearRelease
  PROVE  TypeOK' /\ HeadInBatch'
  <1>1. BusType /\ WorkerType /\ RowType /\ OutsideType
    BY TypeInParts
  <1>2. UNCHANGED <<workerVars, streamVars, outsideVars, faults>>
    BY DEF Handlers, OperatorRelease, Open, OpenHalts, HearRelease
  <1>3. BusType' /\ WorkerType' /\ HeadInBatch'
    BY <1>1, <1>2, BusFrame, WorkerFrame DEF HeadInBatch, workerVars, streamVars
  <1>4. RowType'
    BY <1>1 DEF Handlers, OperatorRelease, Open, OpenHalts, HearRelease, RowType, dbVars
  <1>5. OutsideType'
    <2>1. {redis', latch', survival', halted'} \subseteq BOOLEAN
      BY <1>1, Zenon
      DEF Handlers, OperatorRelease, Open, OpenHalts, HearRelease, OutsideType, outsideVars
    <2> QED  BY <1>1, <1>2, <2>1 DEF OutsideType, outsideVars
  <1> QED  BY <1>3, <1>4, <1>5, TypeFromParts

LEMMA OutsideTyped ==
  ASSUME TypeOK, HeadInBatch, Outside
  PROVE  TypeOK' /\ HeadInBatch'
  <1>1. BusType /\ WorkerType /\ RowType /\ OutsideType
    BY TypeInParts
  <1>2. CASE \E s \in Signals : Publish(s)
    BY <1>2, PublishTyped
  <1>3. CASE \/ \E s \in Signals : PaperOpen(s) \/ ProofExpires(s)
             \/ RedisFails \/ RedisRecovers \/ MoveLatch \/ MoveSurvival
    <2>1. UNCHANGED <<workerVars, streamVars, dbVars, halted>>
      BY <1>3 DEF PaperOpen, ProofExpires, RedisFails, RedisRecovers, MoveLatch, MoveSurvival
    <2>2. BusType' /\ WorkerType' /\ HeadInBatch' /\ RowType'
      BY <1>1, <2>1, BusFrame, WorkerFrame, RowFrame DEF HeadInBatch, workerVars, streamVars
    <2>3. {redis', latch', survival', halted'} \subseteq BOOLEAN
      BY <1>1, <1>3, Zenon DEF PaperOpen, ProofExpires, RedisFails, RedisRecovers, MoveLatch,
         MoveSurvival, OutsideType
    <2>4. paperOpened' \subseteq Prebound /\ proof' \subseteq Prebound
      BY <1>1, <1>3 DEF PaperOpen, ProofExpires, RedisFails, RedisRecovers, MoveLatch,
         MoveSurvival, OutsideType
    <2>5. faults' \in 0 .. MaxFaults
      BY <1>1, <1>3, LimitAssumption DEF PaperOpen, ProofExpires, RedisFails, RedisRecovers,
         MoveLatch, MoveSurvival, OutsideType, Fault
    <2>6. OutsideType'
      BY <2>3, <2>4, <2>5 DEF OutsideType
    <2> QED  BY <2>2, <2>6, TypeFromParts
  <1> QED  BY <1>2, <1>3 DEF Outside

LEMMA StepTyped ==
  ASSUME TypeOK, HeadInBatch, [Next]_vars
  PROVE  TypeOK' /\ HeadInBatch'
  <1>1. CASE UNCHANGED vars
    BY <1>1 DEF TypeOK, HeadInBatch, vars, workerVars, streamVars, dbVars, outsideVars
  <1> QED  BY <1>1, WorkerStepTyped, ProcessTyped, HandlersTyped, OutsideTyped DEF Next

(* Types: every variable keeps to its set.                                 *)
THEOREM Typed == Spec => []TypeOK
  <1>1. TypeOK /\ HeadInBatch /\ [Next]_vars => (TypeOK /\ HeadInBatch)'
    BY StepTyped
  <1> QED  BY <1>1, InitTyped, PTL DEF Spec

-----------------------------------------------------------------------------
(* What never goes back *)

(* A stored decision stays, histories and evidence grow, and what stands   *)
(* in the stream stands.                                                   *)
LEMMA NothingIsTakenBack ==
  ASSUME TypeOK, [Next]_vars
  PROVE  /\ \A e \in Executions : decision[e] # NoRow => decision'[e] = decision[e]
         /\ deadLetters \subseteq deadLetters' /\ released \subseteq released'
         /\ paperOpened \subseteq paperOpened' /\ mode' = mode
         /\ \A n \in 1 .. Len(stream) : stream'[n] = stream[n]
  <1>1. CASE UNCHANGED vars
    BY <1>1 DEF vars, workerVars, streamVars, dbVars, outsideVars
  <1>2. CASE Worker
    <2>1. CASE Store
      BY <2>1 DEF Store, RowAccepted, TypeOK, streamVars, outsideVars
    <2>2. CASE DeadLetter
      BY <2>2 DEF DeadLetter, streamVars, dbVars, outsideVars
    <2>3. CASE Worker /\ ~Store /\ ~DeadLetter
      <3>1. UNCHANGED <<streamVars, dbVars, outsideVars, deadLetters>>
        BY <2>3 DEF Worker, Consume, ConsumeFails, SkipInPaperMode, PolicyRefuses,
           DecideBlocked, DecideShadow, DecideCandidate, MatchSeen, MatchMissed, StoreFails,
           Ack, AckFails, DropAck, GiveUp, Finds
      <3> QED  BY <3>1 DEF streamVars, dbVars, outsideVars
    <2> QED  BY <1>2, <2>1, <2>2, <2>3
  <1>3. CASE Crash \/ Restart
    BY <1>3 DEF Crash, Restart, streamVars, dbVars, outsideVars
  <1>4. CASE Handlers \/ HearRelease
    BY <1>4 DEF Handlers, OperatorRelease, Open, OpenHalts, HearRelease, workerVars, streamVars,
       dbVars, outsideVars
  <1>5. CASE Outside
    <2>1. CASE \E s \in Signals : Publish(s)
      BY <2>1, Appended DEF Publish, TypeOK, workerVars, dbVars, outsideVars
    <2>2. CASE Outside /\ ~\E s \in Signals : Publish(s)
      BY <2>2 DEF Outside, PaperOpen, ProofExpires, RedisFails, RedisRecovers, MoveLatch,
         MoveSurvival, workerVars, streamVars, dbVars
    <2> QED  BY <1>5, <2>1, <2>2
  <1> QED  BY <1>1, <1>2, <1>3, <1>4, <1>5 DEF Next

LEMMA DecisionsStay ==
  ASSUME TypeOK, [Next]_vars, NEW n \in Nat \ {0}, HasDecision(n)
  PROVE  HasDecision(n)'
  <1>1. PICK e \in Executions : decision[e].by = n
    BY DEF HasDecision
  <1>2. decision[e] # NoRow
    BY <1>1 DEF NoRow
  <1> QED  BY <1>1, <1>2, NothingIsTakenBack DEF HasDecision

(* The message at hand names the same execution before and after a step    *)
(* that stays with it.                                                     *)
LEMMA SameExecution ==
  ASSUME TypeOK, HeadInBatch, [Next]_vars, pc \in Handling
  PROVE  ExecutionOf(head) = (IF stream'[head] \in Prebound THEN stream'[head] ELSE head)
  <1>1. head \in 1 .. Len(stream)
    BY DEF TypeOK, HeadInBatch
  <1> QED  BY <1>1, NothingIsTakenBack DEF ExecutionOf

-----------------------------------------------------------------------------
(* The invariant *)

LEMMA InitHolds == Init => IInv
  <1> SUFFICES ASSUME Init PROVE IInv
    OBVIOUS
  <1>1. TypeOK /\ HeadInBatch
    BY InitTyped
  <1>2. StepsHaveReasons /\ ProofIsTrue /\ AckedIsAnswered /\ OpenedIsProven
    BY DEF Init, StepsHaveReasons, ProofIsTrue, AckedIsAnswered, OpenedIsProven
  <1>3. CandidateWasMatched
    BY DEF Init, CandidateWasMatched, NoRow
  <1> QED  BY <1>1, <1>2, <1>3 DEF IInv

LEMMA ProofStaysTrue ==
  ASSUME ProofIsTrue, [Next]_vars PROVE ProofIsTrue'
  <1>1. CASE \E s \in Signals : PaperOpen(s) \/ ProofExpires(s)
    BY <1>1 DEF ProofIsTrue, PaperOpen, ProofExpires
  <1>2. CASE UNCHANGED <<proof, paperOpened>>
    BY <1>2 DEF ProofIsTrue
  <1>3. \/ UNCHANGED <<proof, paperOpened>>
        \/ \E s \in Signals : PaperOpen(s) \/ ProofExpires(s)
    BY DEF Next, Worker, Consume, ConsumeFails, SkipInPaperMode, PolicyRefuses, DecideBlocked,
       DecideShadow, DecideCandidate, MatchSeen, MatchMissed, Store, StoreFails, Ack, AckFails,
       DeadLetter, DropAck, GiveUp, Finds, Crash, Restart, Handlers, OperatorRelease, Open,
       OpenHalts, HearRelease, Outside, Publish, RedisFails, RedisRecovers, MoveLatch,
       MoveSurvival, vars, outsideVars
  <1> QED  BY <1>1, <1>2, <1>3

(* A step outside the worker leaves its step, its message and its verdict. *)
LEMMA OthersKeepReasons ==
  ASSUME IInv, [Next]_vars, UNCHANGED workerVars
  PROVE  StepsHaveReasons'
  <1>1. CASE pc \notin Handling
    BY <1>1 DEF StepsHaveReasons, Handling, workerVars
  <1>2. CASE pc \in Handling
    <2>1. head \in Nat \ {0}
      BY DEF IInv, TypeOK
    <2>2. HasDecision(head) => HasDecision(head)'
      <3>1. \A n \in Nat \ {0} :
              HasDecision(n) => \E e \in Executions : decision'[e].by = n
        BY DecisionsStay DEF IInv, HasDecision
      <3> QED  BY <2>1, <3>1 DEF HasDecision, workerVars
    <2>3. ExecutionOf(head)' = ExecutionOf(head)
      BY <1>2, SameExecution DEF IInv, ExecutionOf, workerVars
    <2> QED  BY <2>2, <2>3, NothingIsTakenBack DEF IInv, StepsHaveReasons, workerVars, HasDecision
  <1> QED  BY <1>1, <1>2

LEMMA WorkerKeepsReasons ==
  ASSUME IInv, Worker
  PROVE  StepsHaveReasons'
  <1> USE DEF StepsHaveReasons
  <1>1. CASE Consume \/ ConsumeFails
    BY <1>1 DEF Consume, ConsumeFails
  <1>2. CASE Ack \/ DropAck \/ GiveUp
    BY <1>2 DEF Ack, DropAck, GiveUp, GoOn
  <1>3. CASE SkipInPaperMode
    BY <1>3 DEF SkipInPaperMode, Goto, streamVars
  <1>4. CASE PolicyRefuses \/ AckFails \/ StoreFails
    BY <1>4 DEF PolicyRefuses, AckFails, StoreFails, HandlingFails, Goto
  <1>5. CASE DecideBlocked \/ DecideShadow
    BY <1>5 DEF DecideBlocked, DecideShadow, Finds, Goto, streamVars
  <1>6. CASE DecideCandidate
    BY <1>6 DEF DecideCandidate, Finds, Goto, streamVars
  <1>7. CASE MatchSeen
    BY <1>7 DEF MatchSeen, Goto, streamVars, outsideVars, ExecutionOf, IInv, ProofIsTrue
  <1>8. CASE MatchMissed
    BY <1>8 DEF MatchMissed, Goto, streamVars, Unmatched, IInv
  <1>9. CASE Store
    <2>1. ExecutionOf(head) \in Executions
      <3>1. head < next /\ Len(stream) \in Nat /\ MaxMessages \in Nat
        BY <1>9, LimitAssumption DEF Store, IInv, TypeOK, HeadInBatch, Handling
      <3>2. head \in Messages
        BY <3>1 DEF IInv, TypeOK, Messages
      <3> QED  BY <3>2 DEF ExecutionOf, Executions
    <2>2. decision'[ExecutionOf(head)].by = head /\ UNCHANGED head
      BY <1>9, <2>1 DEF Store, IInv, TypeOK, Goto
    <2>3. HasDecision(head)'
      BY <2>1, <2>2 DEF HasDecision
    <2> QED  BY <1>9, <2>3 DEF Store, Goto
  <1>10. CASE DeadLetter
    BY <1>10 DEF DeadLetter, Goto
  <1> QED  BY <1>1, <1>2, <1>3, <1>4, <1>5, <1>6, <1>7, <1>8, <1>9, <1>10 DEF Worker

LEMMA AnswersStay ==
  ASSUME IInv, [Next]_vars
  PROVE  AckedIsAnswered'
  <1> SUFFICES ASSUME NEW n \in 1 .. next' - 1, n \notin pending', mode' # "paper"
               PROVE  n \in deadLetters' \/ HasDecision(n)'
    BY DEF AckedIsAnswered, HasDecision
  <1>1. mode # "paper" /\ n \in Nat \ {0} /\ next \in Nat
    BY NothingIsTakenBack DEF IInv, TypeOK
  <1>2. CASE n < next /\ n \notin pending
    <2>1. n \in deadLetters \/ HasDecision(n)
      BY <1>1, <1>2 DEF IInv, AckedIsAnswered, HasDecision
    <2> QED  BY <1>1, <2>1, NothingIsTakenBack, DecisionsStay DEF IInv
  <1>3. CASE Ack \/ DropAck
    <2>1. CASE n = head
      <3>1. HasDecision(n) \/ n \in deadLetters
        BY <1>1, <1>3, <2>1 DEF Ack, DropAck, IInv, StepsHaveReasons
      <3> QED  BY <1>1, <3>1, NothingIsTakenBack, DecisionsStay DEF IInv
    <2>2. CASE n # head
      BY <1>1, <1>2, <1>3, <2>2 DEF Ack, DropAck
    <2> QED  BY <2>1, <2>2
  <1>4. CASE Consume
    <2>1. BatchEnd \in Nat
      BY <1>1, LimitAssumption DEF BatchEnd, IInv, TypeOK
    <2>2. n < next /\ n \notin pending
      BY <1>1, <1>4, <2>1 DEF Consume
    <2> QED  BY <1>2, <2>2
  <1>5. CASE UNCHANGED <<next, pending>>
    BY <1>1, <1>2, <1>5
  <1>6. UNCHANGED <<next, pending>> \/ Ack \/ DropAck \/ Consume
    BY DEF Next, Worker, ConsumeFails, SkipInPaperMode, PolicyRefuses, DecideBlocked,
       DecideShadow, DecideCandidate, MatchSeen, MatchMissed, Store, StoreFails, AckFails,
       DeadLetter, GiveUp, Finds, Crash, Restart, Handlers, OperatorRelease, Open,
       OpenHalts, HearRelease, Outside, Publish, PaperOpen, ProofExpires, RedisFails,
       RedisRecovers, MoveLatch, MoveSurvival, vars, workerVars
  <1> QED  BY <1>3, <1>4, <1>5, <1>6

LEMMA OpenedStaysProven ==
  ASSUME IInv, [Next]_vars
  PROVE  OpenedIsProven'
  <1> SUFFICES ASSUME NEW e \in opened'
               PROVE  /\ Binding => decision'[e].action = "candidate"
                      /\ ReleaseRequired => e \in released' /\ e \in Decided'
                      /\ NeedsId /\ MatchRequired => e \in paperOpened'
    BY DEF OpenedIsProven
  <1>1. /\ e \in Executions
        /\ Binding => decision[e].action = "candidate"
        /\ ReleaseRequired => e \in released /\ e \in Decided
        /\ NeedsId /\ MatchRequired => e \in paperOpened
    <2>1. CASE e \in opened
      BY <2>1 DEF IInv, OpenedIsProven, TypeOK
    <2>2. CASE e \notin opened
      <3>1. Open(e) /\ e \in Executions
        BY <2>2 DEF Next, Worker, Consume, ConsumeFails, SkipInPaperMode, PolicyRefuses,
           DecideBlocked, DecideShadow, DecideCandidate, MatchSeen, MatchMissed, Store,
           StoreFails, Ack, AckFails, DeadLetter, DropAck, GiveUp, Finds, Crash, Restart,
           Handlers, OperatorRelease, Open, OpenHalts, HearRelease, Outside, Publish, PaperOpen,
           ProofExpires, RedisFails, RedisRecovers, MoveLatch, MoveSurvival, vars, dbVars
      <3>2. NeedsId /\ MatchRequired => e \in proof
        BY <3>1 DEF Open
      <3> QED  BY <3>1, <3>2 DEF Open, GovernanceAllows, NeedsId, IInv, ProofIsTrue
    <2> QED  BY <2>1, <2>2
  <1>2. decision[e] # NoRow => decision'[e] = decision[e]
    BY <1>1, NothingIsTakenBack DEF IInv
  <1>3. Binding => decision[e] # NoRow
    BY <1>1 DEF NoRow
  <1>4. e \in Decided => e \in Decided'
    BY <1>1, <1>2 DEF Decided
  <1> QED  BY <1>1, <1>2, <1>3, <1>4, NothingIsTakenBack DEF IInv

LEMMA CandidatesStayMatched ==
  ASSUME IInv, [Next]_vars
  PROVE  CandidateWasMatched'
  <1> SUFFICES ASSUME MatchRequired, NEW e \in Executions, decision'[e].action = "candidate"
               PROVE  e \in paperOpened'
    BY DEF CandidateWasMatched
  <1>1. CASE decision[e] # NoRow
    <2>1. decision[e].action = "candidate"
      BY <1>1, NothingIsTakenBack DEF IInv
    <2> QED  BY <2>1, NothingIsTakenBack DEF IInv, CandidateWasMatched
  <1>2. CASE decision[e] = NoRow
    <2>1. decision'[e] # decision[e]
      BY <1>2 DEF NoRow
    <2>2. Store
      BY <2>1 DEF Next, Worker, Consume, ConsumeFails, SkipInPaperMode, PolicyRefuses,
         DecideBlocked, DecideShadow, DecideCandidate, MatchSeen, MatchMissed, StoreFails, Ack,
         AckFails, DeadLetter, DropAck, GiveUp, Finds, Crash, Restart, Handlers,
         OperatorRelease, Open, OpenHalts, HearRelease, Outside, Publish, PaperOpen,
         ProofExpires, RedisFails, RedisRecovers, MoveLatch, MoveSurvival, vars, dbVars
    <2>3. e = ExecutionOf(head) /\ found.action = "candidate" /\ pc = "store"
      BY <2>1, <2>2 DEF Store, IInv, TypeOK
    <2> QED  BY <2>3, NothingIsTakenBack DEF IInv, StepsHaveReasons
  <1> QED  BY <1>1, <1>2

LEMMA StepHolds == IInv /\ [Next]_vars => IInv'
  <1> SUFFICES ASSUME IInv, [Next]_vars PROVE IInv'
    OBVIOUS
  <1>1. TypeOK' /\ HeadInBatch'
    BY StepTyped DEF IInv
  <1>2. StepsHaveReasons'
    <2>1. CASE Worker
      BY <2>1, WorkerKeepsReasons
    <2>2. CASE Crash \/ Restart
      BY <2>2 DEF Crash, Restart, StepsHaveReasons
    <2>3. CASE UNCHANGED workerVars
      BY <2>3, OthersKeepReasons
    <2>4. Worker \/ Crash \/ Restart \/ UNCHANGED workerVars
      BY DEF Next, Handlers, OperatorRelease, Open, OpenHalts, HearRelease, Outside, Publish,
         PaperOpen, ProofExpires, RedisFails, RedisRecovers, MoveLatch, MoveSurvival, vars
    <2> QED  BY <2>1, <2>2, <2>3, <2>4
  <1> QED  BY <1>1, <1>2, ProofStaysTrue, AnswersStay, OpenedStaysProven, CandidatesStayMatched
           DEF IInv

-----------------------------------------------------------------------------
(* No acknowledged signal is without its answer: AckedIsAnswered, through  *)
(* crashes, lost acknowledgements and refused rows.                        *)
THEOREM AckedAnswered == Spec => []AckedIsAnswered
  <1>1. IInv => AckedIsAnswered
    BY DEF IInv
  <1> QED  BY <1>1, InitHolds, StepHolds, PTL DEF Spec

(* The evidence each gate asks for stands behind every opening order:      *)
(* OpenedIsProven, for every setting of the gates.                         *)
THEOREM OpenedProven == Spec => []OpenedIsProven
  <1>1. IInv => OpenedIsProven
    BY DEF IInv
  <1> QED  BY <1>1, InitHolds, StepHolds, PTL DEF Spec

(* A live candidate was opened on paper first: CandidateWasMatched.        *)
THEOREM CandidateMatched == Spec => []CandidateWasMatched
  <1>1. IInv => CandidateWasMatched
    BY DEF IInv
  <1> QED  BY <1>1, InitHolds, StepHolds, PTL DEF Spec

-----------------------------------------------------------------------------
(* ReleaseProtocol *)

Verdict == [e \in Executions |-> decision[e].action]

LEMMA InitMaps == Init => Protocol!Init
  BY DEF Init, Protocol!Init, NoRow

LEMMA StepMaps ==
  ASSUME Binding, ReleaseRequired, TypeOK, HeadInBatch, [Next]_vars
  PROVE  [Protocol!Next]_Protocol!vars
  <1>1. CASE Store
    <2>1. head < next /\ Len(stream) \in Nat /\ MaxMessages \in Nat
      BY <1>1, LimitAssumption DEF Store, TypeOK, HeadInBatch, Handling
    <2>2. head \in Messages
      BY <2>1 DEF TypeOK, Messages
    <2>3. PICK x \in Executions : x = ExecutionOf(head)
      BY <2>2 DEF ExecutionOf, Executions
    <2>4. decision[x] = NoRow /\ found.action \in Protocol!Verdicts
      BY <1>1, <2>3 DEF Store, RowAccepted, TypeOK, Actions, Protocol!Verdicts
    <2>5. /\ decision' = [decision EXCEPT ![x] = [action |-> found.action, by |-> head]]
          /\ UNCHANGED <<released, opened>>
      BY <1>1, <2>3 DEF Store
    <2>6. Verdict[x] = "none" /\ Verdict' = [Verdict EXCEPT ![x] = found.action]
      <3>1. /\ decision'[x].action = found.action
            /\ \A e \in Executions : e # x => decision'[e] = decision[e]
        BY <2>5 DEF TypeOK
      <3>2. Verdict[x] = "none"
        BY <2>4 DEF Verdict, NoRow
      <3> QED  BY <3>1, <3>2 DEF Verdict
    <2>7. Protocol!Decide(x)
      BY <2>4, <2>5, <2>6 DEF Protocol!Decide, Verdict
    <2> QED  BY <2>7 DEF Protocol!Next
  <1>2. CASE \E x \in Executions : OperatorRelease(x)
    <2>1. PICK x \in Executions : OperatorRelease(x)
      BY <1>2
    <2>2. decision[x] \in [action : Actions, by : Messages]
      BY <2>1 DEF OperatorRelease, Decided, TypeOK
    <2>3. Verdict[x] # "none" /\ UNCHANGED Verdict
      BY <2>1, <2>2 DEF OperatorRelease, Verdict, Actions
    <2>4. Protocol!Release(x)
      BY <2>1, <2>3 DEF OperatorRelease, Protocol!Release, Verdict
    <2> QED  BY <2>4 DEF Protocol!Next
  <1>3. CASE \E x \in Executions : Open(x)
    <2>1. PICK x \in Executions : Open(x)
      BY <1>3
    <2>2. Protocol!Open(x)
      BY <2>1 DEF Open, GovernanceAllows, Protocol!Open
    <2> QED  BY <2>2 DEF Protocol!Next
  <1>4. CASE UNCHANGED dbVars
    BY <1>4 DEF dbVars, Protocol!vars
  <1>5. \/ UNCHANGED dbVars \/ Store
        \/ \E x \in Executions : OperatorRelease(x) \/ Open(x)
    BY DEF Next, Worker, Consume, ConsumeFails, SkipInPaperMode, PolicyRefuses,
       DecideBlocked, DecideShadow, DecideCandidate, MatchSeen, MatchMissed, StoreFails, Ack,
       AckFails, DeadLetter, DropAck, GiveUp, Finds, Crash, Restart, Handlers,
       OpenHalts, HearRelease, Outside, Publish, PaperOpen, ProofExpires, RedisFails,
       RedisRecovers, MoveLatch, MoveSurvival, vars
  <1> QED  BY <1>1, <1>2, <1>3, <1>4, <1>5

(* With both governance gates on, worker, handlers, crashes and            *)
(* redeliveries implement ReleaseProtocol: KeepsProtocol.                  *)
THEOREM ProtocolKept ==
  ASSUME Binding, ReleaseRequired
  PROVE  Spec => KeepsProtocol
  <1>1. TypeOK /\ HeadInBatch /\ [Next]_vars => (TypeOK /\ HeadInBatch)'
    BY StepTyped
  <1>2. TypeOK /\ HeadInBatch /\ [Next]_vars => [Protocol!Next]_Protocol!vars
    BY StepMaps
  <1> QED  BY <1>1, <1>2, InitTyped, InitMaps, PTL DEF Spec, KeepsProtocol, Protocol!Spec
=============================================================================
