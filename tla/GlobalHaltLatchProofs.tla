------------------------- MODULE GlobalHaltLatchProofs -------------------------
(***************************************************************************)
(* Proofs about GlobalHaltLatch, for any number of processes, operators,   *)
(* calls and failures: types, and the agreement of processes that have     *)
(* heard a message (HeardIsLast).  HeardIsLast is not inductive: it says   *)
(* nothing of messages that wait.  IInv adds that the last one that waits  *)
(* is the one published last, and that a process that is not subscribed    *)
(* has none waiting and has not heard any.                                 *)
(***************************************************************************)
EXTENDS GlobalHaltLatch, TLAPS

(* What waits ends with what was published last.                           *)
QueueEndsWithLast ==
  \A p \in Processes :
    Listening(p) /\ inbox[p] # <<>> => inbox[p][Len(inbox[p])].value = last

(* Without a subscription there is nothing to hear.                        *)
DeafHearNothing ==
  \A p \in Processes : ~Listening(p) => inbox[p] = <<>> /\ ~heard[p]

IInv == HeardIsLast /\ QueueEndsWithLast /\ DeafHearNothing

-----------------------------------------------------------------------------
(* The end of a queue after its head was taken, and after one was added.   *)
LEMMA QueueEnds ==
  ASSUME NEW S, NEW q \in Seq(S)
  PROVE  /\ \A m \in S : /\ Append(q, m) \in Seq(S) /\ Append(q, m) # <<>>
                         /\ Append(q, m)[Len(Append(q, m))] = m
         /\ q # <<>> => /\ Tail(q) \in Seq(S) /\ Head(q) \in S
                        /\ Tail(q) = <<>> => q[Len(q)] = Head(q)
                        /\ Tail(q) # <<>> => Tail(q)[Len(Tail(q))] = q[Len(q)]
  <1>1. \A m \in S : /\ Append(q, m) \in Seq(S) /\ Append(q, m) # <<>>
                     /\ Append(q, m)[Len(Append(q, m))] = m
    OBVIOUS
  <1>2. ASSUME q # <<>>
        PROVE  /\ Tail(q) \in Seq(S) /\ Head(q) \in S
               /\ Tail(q) = <<>> => q[Len(q)] = Head(q)
               /\ Tail(q) # <<>> => Tail(q)[Len(Tail(q))] = q[Len(q)]
    <2>1. Len(q) \in Nat \ {0} /\ Len(Tail(q)) = Len(q) - 1
      BY <1>2
    <2>2. Tail(q) \in Seq(S) /\ Head(q) \in S /\ Head(q) = q[1]
      BY <1>2
    <2>3. Tail(q) = <<>> => Len(q) = 1
      BY <2>1
    <2>4. ASSUME Tail(q) # <<>> PROVE Tail(q)[Len(Tail(q))] = q[Len(q)]
      <3>1. Len(q) - 1 \in 1..Len(Tail(q))
        BY <2>1, <2>2, <2>4
      <3> QED  BY <2>1, <3>1, <1>2
    <2> QED  BY <2>2, <2>3, <2>4
  <1> QED  BY <1>1, <1>2

LEMMA InitTyped == Init => TypeOK
  <1> SUFFICES ASSUME Init PROVE TypeOK
    OBVIOUS
  <1>1. inbox \in [Processes -> Seq(Message)]
    <2>1. <<>> \in Seq(Message)
      OBVIOUS
    <2> QED  BY <2>1 DEF Init
  <1>2. caller \in [Callers -> [at : {"idle", "set", "publish", "force"}, kind : Kinds,
                                value : BOOLEAN]]
    BY DEF Init, NoCall, Kinds
  <1>3. /\ {key, last} \subseteq BOOLEAN
        /\ halted \in [Processes -> BOOLEAN] /\ heard \in [Processes -> BOOLEAN]
        /\ forced \in [Processes -> BOOLEAN]
    BY DEF Init
  <1>4. /\ stage \in [Processes -> {"stopped", "read", "listening", "reconnecting", "deaf"}]
        /\ forcedAt \in [Processes -> Nat]
    BY DEF Init
  <1>5. sent \in Nat /\ calls \in 0..MaxCalls /\ failures \in 0..MaxFailures
    BY BoundAssumption DEF Init
  <1> QED  BY <1>1, <1>2, <1>3, <1>4, <1>5 DEF TypeOK

(* Every step keeps the types: one step of the proof per kind of handler.  *)
LEMMA NextTyped == TypeOK /\ [Next]_vars => TypeOK'
  <1> SUFFICES ASSUME TypeOK, [Next]_vars PROVE TypeOK'
    OBVIOUS
  <1> USE CallerAssumption, BoundAssumption
  <1>a. NoCall \in [at : {"idle", "set", "publish", "force"}, kind : Kinds, value : BOOLEAN]
    BY DEF NoCall, Kinds
  <1>1. ASSUME NEW c \in Callers, CallerStep(c) PROVE TypeOK'
    <2>a. Returned(c) \in [at : {"idle", "set", "publish", "force"}, kind : Kinds,
                           value : BOOLEAN]
      BY <1>a DEF Returned, TypeOK
    <2>1. CASE SetKey(c)
      BY <2>1 DEF SetKey, TypeOK, history
    <2>2. CASE Publish(c)
      <3>1. [value |-> caller[c].value, n |-> sent + 1] \in Message
        BY DEF TypeOK, Message
      <3>2. \A p \in Processes :
              Append(inbox[p], [value |-> caller[c].value, n |-> sent + 1]) \in Seq(Message)
        BY <3>1, QueueEnds DEF TypeOK
      <3>3. inbox' \in [Processes -> Seq(Message)]
        BY <2>2, <3>2 DEF Publish, TypeOK
      <3> QED  BY <2>2, <2>a, <3>3 DEF Publish, TypeOK, history
    <2>3. CASE PublishFails(c)
      BY <2>3, <2>a DEF PublishFails, Fails, TypeOK, history, redis
    <2> QED  BY <1>1, <2>1, <2>2, <2>3 DEF CallerStep
  <1>2. ASSUME NEW p \in Processes, LatchStep(p) PROVE TypeOK'
    <2>1. CASE ReadKey(p)
      BY <2>1 DEF ReadKey, TypeOK, history, redis
    <2>2. CASE ReadFails(p)
      BY <2>2 DEF ReadFails, Fails, TypeOK, history, redis
    <2>3. CASE Subscribe(p)
      BY <2>3 DEF Subscribe, TypeOK, history, redis
    <2>4. CASE Receive(p)
      <3>a. inbox[p] \in Seq(Message) /\ inbox[p] # <<>>
        BY <2>4 DEF Receive, TypeOK
      <3>b. Head(inbox[p]) \in Message /\ Tail(inbox[p]) \in Seq(Message)
        BY <3>a, QueueEnds
      <3>1. Head(inbox[p]).value \in BOOLEAN /\ Tail(inbox[p]) \in Seq(Message)
        BY <3>b DEF Message
      <3> QED  BY <2>4, <3>1 DEF Receive, Applied, TypeOK, redis
    <2>5. CASE OracleForces(p)
      BY <2>5, <1>a DEF OracleForces, ForceHalt, TypeOK, redis, Callers
    <2> QED  BY <1>2, <2>1, <2>2, <2>3, <2>4, <2>5 DEF LatchStep
  <1>3. ASSUME NEW p \in Processes, LoseConnection(p) PROVE TypeOK'
    BY <1>3 DEF LoseConnection, Fails, TypeOK, redis
  <1>4. ASSUME NEW p \in Processes, Restart(p) PROVE TypeOK'
    BY <1>4, <1>a DEF Restart, Fails, TypeOK, redis, Callers
  <1>5. ASSUME NEW p \in Processes, NEW kind \in Kinds, CallFromProcess(p, kind) PROVE TypeOK'
    BY <1>5 DEF CallFromProcess, Call, TypeOK, redis, history, Callers
  <1>6. ASSUME NEW p \in Processes, CallFromOrder(p) PROVE TypeOK'
    BY <1>6 DEF CallFromOrder, Call, ForceHalt, TypeOK, redis, Callers, Kinds
  <1>7. ASSUME NEW o \in Operators, NEW value \in BOOLEAN, CallFromOperator(o, value)
        PROVE  TypeOK'
    BY <1>7 DEF CallFromOperator, Call, TypeOK, redis, history, Callers, Kinds
  <1>8. CASE UNCHANGED vars
    BY <1>8 DEF vars, TypeOK
  <1> QED  BY <1>1, <1>2, <1>3, <1>4, <1>5, <1>6, <1>7, <1>8 DEF Next

(* The key, the flags, queues and callers keep their types                 *)
(* (GlobalHaltLatch, publish_global_halt_state).                           *)
THEOREM TypeCorrect == Spec => []TypeOK
  BY InitTyped, NextTyped, PTL DEF Spec

-----------------------------------------------------------------------------
LEMMA InitAgrees == Init => IInv
  BY DEF Init, IInv, HeardIsLast, QueueEndsWithLast, DeafHearNothing, Listening

(* Steps that touch no flag, queue, subscription or message.               *)
LEMMA QuietStep ==
  ASSUME IInv, UNCHANGED <<last, halted, stage, inbox, heard, forced>>
  PROVE  IInv'
  BY DEF IInv, HeardIsLast, QueueEndsWithLast, DeafHearNothing, Listening

(* A process that forces its own latch is exempt until its next message.   *)
LEMMA ForcedStep ==
  ASSUME TypeOK, IInv, NEW p \in Processes, ForceHalt(p),
         UNCHANGED <<last, stage, inbox, heard>>
  PROVE  IInv'
  <1>1. forced'[p] /\ \A q \in Processes \ {p} : halted'[q] = halted[q] /\ forced'[q] = forced[q]
    BY DEF ForceHalt, TypeOK
  <1>2. HeardIsLast'
    BY <1>1 DEF IInv, HeardIsLast, Listening
  <1> QED  BY <1>2 DEF IInv, QueueEndsWithLast, DeafHearNothing, Listening

LEMMA NextAgrees == TypeOK /\ IInv /\ [Next]_vars => IInv'
  <1> SUFFICES ASSUME TypeOK, IInv, [Next]_vars PROVE IInv'
    OBVIOUS
  <1>1. ASSUME NEW c \in Callers, CallerStep(c) PROVE IInv'
    <2>1. CASE SetKey(c) \/ PublishFails(c)
      BY <2>1, QuietStep DEF SetKey, PublishFails, redis, history
    <2>2. CASE Publish(c)
      <3> DEFINE m == [value |-> caller[c].value, n |-> sent + 1]
      <3>1. m \in Message
        BY DEF TypeOK, Message
      <3>2. UNCHANGED <<stage, heard>> /\ last' = m.value
        BY <2>2 DEF Publish, history
      <3>3. ASSUME NEW p \in Processes, Listening(p)
            PROVE  inbox'[p] # <<>> /\ inbox'[p][Len(inbox'[p])].value = last'
        <4>1. inbox'[p] = Append(inbox[p], m)
          BY <2>2, <3>3 DEF Publish
        <4>2. inbox[p] \in Seq(Message)
          BY DEF TypeOK
        <4> QED  BY <3>1, <3>2, <4>1, <4>2, QueueEnds
      <3>4. ASSUME NEW p \in Processes, ~Listening(p) PROVE inbox'[p] = inbox[p]
        BY <2>2, <3>4 DEF Publish
      <3> QED  BY <3>2, <3>3, <3>4
               DEF IInv, HeardIsLast, QueueEndsWithLast, DeafHearNothing, Listening
    <2> QED  BY <1>1, <2>1, <2>2 DEF CallerStep
  <1>2. ASSUME NEW p \in Processes, LatchStep(p) PROVE IInv'
    <2>1. CASE ReadKey(p)
      BY <2>1 DEF ReadKey, TypeOK, redis, history, IInv, HeardIsLast, QueueEndsWithLast,
                  DeafHearNothing, Listening
    <2>2. CASE ReadFails(p)
      BY <2>2 DEF ReadFails, TypeOK, redis, history, IInv, HeardIsLast, QueueEndsWithLast,
                  DeafHearNothing, Listening
    <2>3. CASE Subscribe(p)
      BY <2>3 DEF Subscribe, TypeOK, redis, history, IInv, HeardIsLast, QueueEndsWithLast,
                  DeafHearNothing, Listening
    <2>4. CASE Receive(p)
      <3> DEFINE q == inbox[p]
      <3>1. /\ inbox'[p] = Tail(q) /\ halted'[p] = Head(q).value
            /\ UNCHANGED <<last, stage>>
            /\ \A r \in Processes \ {p} : /\ inbox'[r] = inbox[r] /\ halted'[r] = halted[r]
                                          /\ heard'[r] = heard[r] /\ forced'[r] = forced[r]
        BY <2>4 DEF Receive, Applied, TypeOK, redis
      <3>2. Listening(p) /\ q # <<>> /\ q \in Seq(Message) /\ q[Len(q)].value = last
        BY <2>4 DEF Receive, TypeOK, IInv, QueueEndsWithLast
      <3>3. /\ Tail(q) = <<>> => Head(q).value = last
            /\ Tail(q) # <<>> => Tail(q)[Len(Tail(q))].value = last
        BY <3>2, QueueEnds
      <3> QED  BY <3>1, <3>2, <3>3
               DEF IInv, HeardIsLast, QueueEndsWithLast, DeafHearNothing, Listening
    <2>5. CASE OracleForces(p)
      BY <2>5, ForcedStep DEF OracleForces, redis
    <2> QED  BY <1>2, <2>1, <2>2, <2>3, <2>4, <2>5 DEF LatchStep
  <1>3. ASSUME NEW p \in Processes, LoseConnection(p) PROVE IInv'
    <2>1. /\ stage'[p] # "listening" /\ inbox'[p] = <<>> /\ ~heard'[p]
          /\ UNCHANGED <<last, halted, forced>>
          /\ \A r \in Processes \ {p} : /\ inbox'[r] = inbox[r] /\ stage'[r] = stage[r]
                                        /\ heard'[r] = heard[r]
      BY <1>3 DEF LoseConnection, TypeOK, redis
    <2> QED  BY <2>1 DEF IInv, HeardIsLast, QueueEndsWithLast, DeafHearNothing, Listening
  <1>4. ASSUME NEW p \in Processes, Restart(p) PROVE IInv'
    <2>1. /\ stage'[p] = "stopped" /\ inbox'[p] = <<>> /\ ~heard'[p] /\ UNCHANGED last
          /\ \A r \in Processes \ {p} : /\ inbox'[r] = inbox[r] /\ stage'[r] = stage[r]
                                        /\ heard'[r] = heard[r] /\ halted'[r] = halted[r]
                                        /\ forced'[r] = forced[r]
      BY <1>4 DEF Restart, TypeOK, redis
    <2> QED  BY <2>1 DEF IInv, HeardIsLast, QueueEndsWithLast, DeafHearNothing, Listening
  <1>5. ASSUME NEW p \in Processes, NEW kind \in Kinds, CallFromProcess(p, kind) PROVE IInv'
    BY <1>5, QuietStep DEF CallFromProcess, redis, history
  <1>6. ASSUME NEW p \in Processes, CallFromOrder(p) PROVE IInv'
    BY <1>6, ForcedStep DEF CallFromOrder, redis
  <1>7. ASSUME NEW o \in Operators, NEW value \in BOOLEAN, CallFromOperator(o, value)
        PROVE  IInv'
    BY <1>7, QuietStep DEF CallFromOperator, redis, history
  <1>8. CASE UNCHANGED vars
    BY <1>8, QuietStep DEF vars
  <1> QED  BY <1>1, <1>2, <1>3, <1>4, <1>5, <1>6, <1>7, <1>8 DEF Next

(* Processes that have heard a message since they subscribed agree on the  *)
(* one published last, however callers race (_pubsub_loop,                 *)
(* publish_global_halt_state).                                             *)
THEOREM HeardProcessesAgree == Spec => []HeardIsLast
  <1>1. IInv => HeardIsLast
    BY DEF IInv
  <1> QED  BY <1>1, TypeCorrect, InitAgrees, NextAgrees, PTL DEF Spec
=============================================================================
