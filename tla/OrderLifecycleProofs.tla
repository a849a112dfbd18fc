------------------------ MODULE OrderLifecycleProofs ------------------------
(***************************************************************************)
(* For any number of orders, replacements, request threads, messages and   *)
(* crashes: the model is well typed; nothing the broker stores, is about   *)
(* to store or has still to read claims the end of an order that is live   *)
(* at the exchange (NobodyClaimsFalseEnd); after a sweep only early or     *)
(* reduce-only orders are on their way (SweepInv); and what an armed       *)
(* switch bars stays barred along a chain of replacements (ChainInv).      *)
(*                                                                         *)
(* ChainInv speaks of the ghost lineage, the order a chain began with, and *)
(* of the rows' parents, which is all the code has. Every known row leads  *)
(* to its lineage, because each nonempty set of known replacements has a   *)
(* member whose parent is outside: that takes the place of an induction    *)
(* along the chain (RootOfChain).                                          *)
(***************************************************************************)
EXTENDS OrderLifecycle, TLAPS

IInv == TypeOK /\ NobodyClaimsFalseEnd

(* The exchange never brings an order back: what has been placed stays     *)
(* placed and what has ended stays ended.                                  *)
ExchangeMoves ==
  /\ exch' \in [Orders -> ExchStates]
  /\ \A o \in Orders : (exch[o] # "none" => exch'[o] # "none") /\ (Ended(o) => Ended(o)')

Quiet == UNCHANGED <<stored, exch, wsq, armed, history>>

-----------------------------------------------------------------------------
(* Helpers: each part of the invariant against the kinds of change a step  *)
(* makes to it.                                                            *)

LEMMA IdleKnowsNothing == Idle \in Frame /\ KnowledgeHolds(Idle) /\ KnowledgeHolds(Idle)'
  BY DEF Idle, Frame, Steps, Scopes, RowStates, Purposes, KnowledgeHolds, Closed, ClosedByBroker

LEMMA NothingMoves == TypeOK /\ UNCHANGED exch => ExchangeMoves
  BY DEF TypeOK, ExchangeMoves, Ended

(* Knowledge of the exchange does not age.                                 *)
LEMMA KnowledgeDoesNotAge ==
  ASSUME ExchangeMoves, NEW f \in Frame, KnowledgeHolds(f)
  PROVE  KnowledgeHolds(f)'
  BY DEF ExchangeMoves, KnowledgeHolds, Steps

LEMMA FramesAfterEnter ==
  ASSUME IInv, ExchangeMoves, NEW t \in Threads, NEW f \in Frame, KnowledgeHolds(f)',
         Enter(t, f)
  PROVE  pc' \in [Threads -> Frame] /\ \A u \in Threads : KnowledgeHolds(pc[u])'
<1>1. pc \in [Threads -> Frame] /\ \A u \in Threads : KnowledgeHolds(pc[u])
  BY DEF IInv, TypeOK, NobodyClaimsFalseEnd
<1>2. pc' = [pc EXCEPT ![t] = f]
  BY DEF Enter
<1>3. \A u \in Threads : KnowledgeHolds(pc[u])'
  <2> SUFFICES ASSUME NEW u \in Threads PROVE KnowledgeHolds(pc[u])'
    OBVIOUS
  <2>1. CASE u = t
    <3>1. pc'[u] = f
      BY <1>1, <1>2, <2>1
    <3> QED
      BY <3>1 DEF KnowledgeHolds
  <2>2. CASE u # t
    <3>1. pc'[u] = pc[u]
      BY <1>1, <1>2, <2>2
    <3>2. pc[u] \in Frame /\ KnowledgeHolds(pc[u])
      BY <1>1
    <3> QED
      BY <3>1, <3>2 DEF ExchangeMoves, KnowledgeHolds, Steps
  <2> QED
    BY <2>1, <2>2
<1> QED
  BY <1>1, <1>2, <1>3

(* A step that only moves its own thread.                                  *)
LEMMA QuietStep ==
  ASSUME IInv, Quiet, NEW t \in Threads, NEW f \in Frame, KnowledgeHolds(f), Enter(t, f)
  PROVE  IInv'
<1>1. ExchangeMoves /\ KnowledgeHolds(f)'
  BY NothingMoves, KnowledgeDoesNotAge DEF Quiet, IInv
<1>2. pc' \in [Threads -> Frame] /\ \A u \in Threads : KnowledgeHolds(pc[u])'
  BY <1>1, FramesAfterEnter
<1> QED
  BY <1>2 DEF IInv, TypeOK, NobodyClaimsFalseEnd, Quiet, stored, history, Ended

LEMMA QuietReturn == ASSUME IInv, Quiet, NEW t \in Threads, Return(t) PROVE IInv'
  BY QuietStep, IdleKnowsNothing DEF Return

(* A step that advances its thread within the same call.                   *)
LEMMA FrameOfThread ==
  ASSUME IInv, NEW t \in Threads
  PROVE  /\ pc[t] \in Frame /\ KnowledgeHolds(pc[t])
         /\ \A step \in Steps : Goto(t, step) <=> Enter(t, [pc[t] EXCEPT !.at = step])
<1>1. pc[t] \in Frame /\ KnowledgeHolds(pc[t])
  BY DEF IInv, TypeOK, NobodyClaimsFalseEnd
<1>2. pc \in [Threads -> Frame]
  BY DEF IInv, TypeOK
<1> QED
  BY <1>1, <1>2 DEF Goto, Enter, Frame

-----------------------------------------------------------------------------
(* The steps of create_order                                               *)

LEMMA CreateQuietSteps ==
  ASSUME IInv, NEW t \in Threads,
         \/ \E o \in Roots : CallCreate(t, o)
         \/ CreateGate(t) \/ CreateRefused(t) \/ CreateCheck(t)
         \/ PlaceRejected(t) \/ PlaceDuplicate(t) \/ PlaceHalted(t)
         \/ PlaceRecorded(t) \/ CreateRecover(t) \/ CreateDetail(t)
  PROVE  IInv'
<1> DEFINE g == pc[t]
<1>1. g \in Frame /\ KnowledgeHolds(g)
      /\ \A step \in Steps : Goto(t, step) <=> Enter(t, [g EXCEPT !.at = step])
  BY FrameOfThread
<1>2. Quiet
  BY DEF CallCreate, CreateGate, CreateRefused, CreateCheck, PlaceRejected, PlaceDuplicate,
         PlaceHalted, PlaceRecorded, CreateRecover, CreateDetail, Quiet
<1>3. \A o \in Orders : exch[o] \in ExchStates
  BY DEF IInv, TypeOK
<1>4. \A o \in Orders : exch[o] # "none" => /\ Reported(exch[o]) \in RowStates \ {"absent"}
                                            /\ Reported(exch[o]) \in Closed => Ended(o)
  BY <1>3 DEF Reported, RowStates, Terminal, ClosedByBroker, Closed, Ended, ExchStates
<1>5. CASE Return(t)
  BY <1>2, <1>5, QuietReturn
<1>6. ASSUME NEW o \in Roots, CallCreate(t, o) PROVE IInv'
  <2> DEFINE f == [Idle EXCEPT !.at = "createGate", !.ord = o, !.barred = Covering(o)]
  <2>1. Covering(o) \subseteq Scopes
    BY DEF Covering, IInv, TypeOK
  <2>2. f \in Frame /\ KnowledgeHolds(f)
    BY <2>1, IdleKnowsNothing DEF Idle, Frame, Steps, Scopes, Orders, KnowledgeHolds
  <2> QED
    BY <1>2, <1>6, <2>2, QuietStep DEF CallCreate
<1>7. CASE CreateGate(t) /\ Goto(t, "createCheck")
  <2> DEFINE f == [g EXCEPT !.at = "createCheck"]
  <2>1. f \in Frame /\ KnowledgeHolds(f)
    BY <1>1, <1>7 DEF CreateGate, At, Frame, Steps, KnowledgeHolds
  <2> QED
    BY <1>1, <1>2, <1>7, <2>1, QuietStep DEF Steps
<1>8. CASE CreateCheck(t) /\ Goto(t, "place")
  <2> DEFINE f == [g EXCEPT !.at = "place"]
  <2>1. f \in Frame /\ KnowledgeHolds(f)
    BY <1>1, <1>8 DEF CreateCheck, At, Frame, Steps, KnowledgeHolds
  <2> QED
    BY <1>1, <1>2, <1>8, <2>1, QuietStep DEF Steps
<1>9. CASE PlaceRejected(t)
  <2> DEFINE f == [g EXCEPT !.at = "placed", !.st = "error"]
  <2>1. f \in Frame /\ KnowledgeHolds(f)
    BY <1>1, <1>9 DEF PlaceRejected, At, Frame, Steps, RowStates, Terminal, KnowledgeHolds
  <2> QED
    BY <1>2, <1>9, <2>1, QuietStep DEF PlaceRejected
<1>10. CASE PlaceDuplicate(t)
  <2> DEFINE f == [g EXCEPT !.at = "placed", !.st = "absent"]
  <2>1. f \in Frame /\ KnowledgeHolds(f)
    BY <1>1, <1>10 DEF PlaceDuplicate, At, Frame, Steps, RowStates, KnowledgeHolds
  <2> QED
    BY <1>2, <1>10, <2>1, QuietStep DEF PlaceDuplicate
<1>11. CASE PlaceRecorded(t) /\ ~Return(t)
  <2> DEFINE step == IF g.st = "absent" THEN "createRecover" ELSE "createPersist"
             f    == [g EXCEPT !.at = step]
  <2>1. f \in Frame /\ KnowledgeHolds(f)
    BY <1>1, <1>11
       DEF PlaceRecorded, At, Frame, Steps, KnowledgeHolds, Closed, ClosedByBroker
  <2>2. Enter(t, f)
    BY <1>1, <1>11 DEF PlaceRecorded, Steps
  <2> QED
    BY <1>2, <2>1, <2>2, QuietStep
<1>12. CASE CreateRecover(t) /\ ~Return(t)
  <2>1. g.at = "createRecover" /\ g.ord \in Orders /\ exch[g.ord] # "none"
    BY <1>1, <1>12 DEF CreateRecover, At, KnowledgeHolds, Steps
  <2>2. PICK st \in {Reported(exch[g.ord]), "error"} :
               Enter(t, [g EXCEPT !.at = "createPersist", !.st = st])
    BY <1>12 DEF CreateRecover
  <2>3. st \in RowStates \ {"absent"} /\ (st \in Closed => Ended(g.ord))
    BY <1>4, <2>1, <2>2 DEF RowStates, Terminal, Closed, ClosedByBroker
  <2> DEFINE f == [g EXCEPT !.at = "createPersist", !.st = st]
  <2>4. f \in Frame /\ KnowledgeHolds(f)
    BY <1>1, <2>1, <2>3 DEF Frame, Steps, KnowledgeHolds
  <2> QED
    BY <1>2, <2>2, <2>4, QuietStep
<1>13. CASE CreateDetail(t) /\ ~Return(t)
  <2>1. g.at = "createPersist" /\ g.ord \in Orders /\ exch[g.ord] # "none"
    BY <1>1, <1>13 DEF CreateDetail, At, KnowledgeHolds, Steps
  <2> DEFINE st == Reported(exch[g.ord])
             f  == [g EXCEPT !.st = st]
  <2>2. st \in RowStates \ {"absent"} /\ (st \in Closed => Ended(g.ord))
    BY <1>4, <2>1
  <2>3. f \in Frame /\ KnowledgeHolds(f)
    <3> HIDE DEF st
    <3> QED
      BY <1>1, <2>1, <2>2 DEF Frame, Steps, KnowledgeHolds
  <2> QED
    BY <1>2, <1>13, <2>3, QuietStep DEF CreateDetail
<1> QED
  BY <1>5, <1>6, <1>7, <1>8, <1>9, <1>10, <1>11, <1>12, <1>13
     DEF CreateGate, CreateRefused, CreateCheck, PlaceHalted

-----------------------------------------------------------------------------
(* The invariant in parts                                                  *)

RowsTrue ==
  /\ row \in [Orders -> RowStates] /\ parent \in [Orders -> Scopes] /\ adopted \subseteq Orders
  /\ \A o \in Orders : row[o] \in Closed => Ended(o)

MessagesTrue ==
  /\ wsq \in [Orders -> Seq(ExchStates)]
  /\ \A o \in Orders : \A i \in DOMAIN wsq[o] :
       wsq[o][i] # "none" /\ (wsq[o][i] # "live" => Ended(o))

FramesTrue == pc \in [Threads -> Frame] /\ \A t \in Threads : KnowledgeHolds(pc[t])

HistoryTyped ==
  /\ armed \subseteq Scopes /\ lineage \in [Orders -> Orders] /\ early \subseteq Orders
  /\ swept \in BOOLEAN

ExchTyped == exch \in [Orders -> ExchStates]

LEMMA Parts ==
  /\ IInv <=> RowsTrue /\ MessagesTrue /\ FramesTrue /\ HistoryTyped /\ ExchTyped
  /\ IInv' <=> RowsTrue' /\ MessagesTrue' /\ FramesTrue' /\ HistoryTyped' /\ ExchTyped'
  BY DEF IInv, TypeOK, NobodyClaimsFalseEnd, RowsTrue, MessagesTrue, FramesTrue, HistoryTyped,
         ExchTyped

LEMMA RowsKept == RowsTrue /\ ExchangeMoves /\ UNCHANGED stored => RowsTrue'
  BY DEF RowsTrue, ExchangeMoves, stored

LEMMA RowsUpdated ==
  ASSUME RowsTrue, ExchangeMoves, NEW o \in Orders, NEW st \in RowStates,
         st \in Closed => Ended(o), UpdateStatus(o, st)
  PROVE  RowsTrue'
  BY DEF RowsTrue, ExchangeMoves, UpdateStatus

LEMMA RowsAdopted ==
  ASSUME RowsTrue, ExchangeMoves, NEW o \in Orders, NEW st \in RowStates,
         st \in Closed => Ended(o), Adopt(o, st)
  PROVE  RowsTrue'
<1>1. CASE InTable(o)
  BY <1>1, RowsKept DEF Adopt
<1>2. CASE ~InTable(o)
  BY <1>2 DEF RowsTrue, ExchangeMoves, Adopt
<1> QED
  BY <1>1, <1>2

LEMMA RowsUpserted ==
  ASSUME RowsTrue, ExchangeMoves, NEW t \in Threads, NEW o \in Orders, NEW st \in RowStates,
         NEW p \in Scopes, st \in Closed => Ended(o), Upsert(t, o, st, p)
  PROVE  RowsTrue' /\ Return(t)
<1>1. CASE o \in adopted
  BY <1>1, RowsKept DEF Upsert
<1>2. CASE o \notin adopted
  BY <1>2 DEF RowsTrue, ExchangeMoves, Upsert
<1> QED
  BY <1>1, <1>2

LEMMA MessagesKept == MessagesTrue /\ ExchangeMoves /\ UNCHANGED wsq => MessagesTrue'
  BY DEF MessagesTrue, ExchangeMoves

LEMMA MessagesPushed ==
  ASSUME MessagesTrue, ExchTyped, ExchangeMoves, Push PROVE MessagesTrue'
<1>1. PICK lost : wsq' = [o \in Orders |-> IF exch'[o] # exch[o] /\ o \notin lost
                                             THEN Append(wsq[o], exch'[o]) ELSE wsq[o]]
  BY DEF Push
<1>2. ASSUME NEW o \in Orders
      PROVE  /\ wsq'[o] \in Seq(ExchStates)
             /\ \A i \in DOMAIN wsq'[o] :
                  wsq'[o][i] # "none" /\ (wsq'[o][i] # "live" => Ended(o)')
  <2>1. wsq[o] \in Seq(ExchStates) /\ exch[o] \in ExchStates /\ exch'[o] \in ExchStates
    BY DEF MessagesTrue, ExchTyped, ExchangeMoves
  <2>2. \A i \in DOMAIN wsq[o] : wsq[o][i] # "none" /\ (wsq[o][i] # "live" => Ended(o)')
    BY DEF MessagesTrue, ExchangeMoves
  <2>3. CASE wsq'[o] = wsq[o]
    BY <2>1, <2>2, <2>3
  <2>4. CASE exch'[o] # exch[o] /\ wsq'[o] = Append(wsq[o], exch'[o])
    <3>1. exch'[o] # "none" /\ (exch'[o] # "live" => Ended(o)')
      BY <2>1, <2>4 DEF ExchangeMoves, ExchStates, Ended
    <3> HIDE DEF ExchangeMoves
    <3> QED
      BY <2>1, <2>2, <2>4, <3>1
  <2> QED
    BY <1>1, <2>3, <2>4
<1>3. wsq' \in [Orders -> Seq(ExchStates)]
  BY <1>1, <1>2
<1> QED
  BY <1>2, <1>3 DEF MessagesTrue

LEMMA FramesKept == FramesTrue /\ ExchangeMoves /\ UNCHANGED pc => FramesTrue'
<1> SUFFICES ASSUME FramesTrue, ExchangeMoves, UNCHANGED pc, NEW t \in Threads
             PROVE  KnowledgeHolds(pc[t])'
  BY DEF FramesTrue
<1>1. pc[t] \in Frame /\ KnowledgeHolds(pc[t]) /\ pc'[t] = pc[t]
  BY DEF FramesTrue
<1> QED
  BY <1>1 DEF ExchangeMoves, KnowledgeHolds, Steps

LEMMA FramesEntered ==
  ASSUME IInv, ExchangeMoves, NEW t \in Threads, NEW f \in Frame, KnowledgeHolds(f)',
         Enter(t, f)
  PROVE  FramesTrue'
  BY FramesAfterEnter DEF FramesTrue

LEMMA FramesReturned ==
  ASSUME IInv, ExchangeMoves, NEW t \in Threads, Return(t) PROVE FramesTrue'
  BY FramesEntered, IdleKnowsNothing DEF Return

LEMMA HistoryKept == HistoryTyped /\ UNCHANGED <<armed, history>> => HistoryTyped'
  BY DEF HistoryTyped, history

LEMMA MovesAreTyped == ExchangeMoves => ExchTyped'
  BY DEF ExchangeMoves, ExchTyped

-----------------------------------------------------------------------------
(* Steps that write rows                                                   *)

LEMMA RowStep ==
  ASSUME IInv, UNCHANGED <<exch, wsq, armed, history>>, RowsTrue', FramesTrue'
  PROVE  IInv'
<1>1. ExchangeMoves
  BY NothingMoves DEF IInv
<1>2. MessagesTrue' /\ HistoryTyped' /\ ExchTyped'
  BY <1>1, Parts, MessagesKept, HistoryKept, MovesAreTyped
<1> QED
  BY <1>2, Parts

LEMMA WritingSteps ==
  ASSUME IInv, NEW t \in Threads,
         \/ CreatePersist(t) \/ ReplaceOld(t) \/ ReplaceNew(t)
         \/ CancelPersist(t) \/ TimeoutMark(t) \/ QueryPersist(t)
  PROVE  IInv'
<1> DEFINE g == pc[t]
<1>1. g \in Frame /\ KnowledgeHolds(g)
      /\ \A step \in Steps : Goto(t, step) <=> Enter(t, [g EXCEPT !.at = step])
  BY FrameOfThread
<1>2. UNCHANGED <<exch, wsq, armed, history>>
  BY DEF CreatePersist, ReplaceOld, ReplaceNew, CancelPersist, TimeoutMark, QueryPersist
<1>3. ExchangeMoves /\ RowsTrue
  BY <1>2, NothingMoves, Parts DEF IInv
<1>4. g.ord \in Orders /\ g.st \in RowStates /\ g.ord \in Scopes
  BY <1>1 DEF CreatePersist, ReplaceOld, ReplaceNew, CancelPersist, TimeoutMark, QueryPersist,
              At, KnowledgeHolds, Steps, Frame
<1>5. Service \in Scopes /\ {"replaced", "canceled", "timed_out"} \subseteq RowStates
  BY DEF Scopes, RowStates, Terminal, ClosedByBroker
<1>6. ASSUME NEW f \in Frame, KnowledgeHolds(f), Enter(t, f) PROVE FramesTrue'
  <2>1. KnowledgeHolds(f)'
    BY <1>3, <1>6, KnowledgeDoesNotAge
  <2> QED
    BY <1>3, <1>6, <2>1, FramesEntered
<1>7. CASE CreatePersist(t)
  <2>1. g.st \in Closed => Ended(g.ord)
    BY <1>1, <1>7 DEF CreatePersist, At, KnowledgeHolds
  <2>2. RowsTrue' /\ Return(t)
    BY <1>3, <1>4, <1>5, <1>7, <2>1, RowsUpserted DEF CreatePersist
  <2> QED
    BY <1>2, <1>3, <2>2, FramesReturned, RowStep
<1>8. CASE ReplaceOld(t)
  <2>1. Ended(g.ord)
    BY <1>1, <1>8 DEF ReplaceOld, At, KnowledgeHolds
  <2>2. RowsTrue'
    BY <1>3, <1>4, <1>5, <1>8, <2>1, RowsUpdated DEF ReplaceOld
  <2> DEFINE f == [g EXCEPT !.at = "replaceNew"]
  <2>3. f \in Frame /\ KnowledgeHolds(f)
    BY <1>1, <1>8 DEF ReplaceOld, At, Frame, Steps, KnowledgeHolds
  <2>4. Enter(t, f)
    BY <1>1, <1>8 DEF ReplaceOld, Steps
  <2>5. FramesTrue'
    BY <1>6, <2>3, <2>4
  <2> QED
    BY <1>2, <2>2, <2>5, RowStep
<1>9. CASE ReplaceNew(t)
  <2>1. (g.st \in Closed => Ended(g.new)) /\ g.new \in Orders
    BY <1>1, <1>9 DEF ReplaceNew, At, KnowledgeHolds
  <2>2. RowsTrue' /\ Return(t)
    BY <1>3, <1>4, <1>9, <2>1, RowsUpserted DEF ReplaceNew
  <2> QED
    BY <1>2, <1>3, <2>2, FramesReturned, RowStep
<1>10. CASE CancelPersist(t)
  <2>1. Ended(g.ord)
    BY <1>1, <1>10 DEF CancelPersist, At, KnowledgeHolds
  <2>2. RowsTrue'
    BY <1>3, <1>4, <1>5, <1>10, <2>1, RowsUpdated, RowsAdopted DEF CancelPersist
  <2>3. g.by \in Purposes
    BY <1>1 DEF Frame
  <2>4. CASE Return(t)
    BY <1>2, <1>3, <2>2, <2>4, FramesReturned, RowStep
  <2>5. ASSUME NEW step \in {"sweep", "timeoutMark"}, Goto(t, step) PROVE IInv'
    <3> DEFINE f == [g EXCEPT !.at = step]
    <3>1. f \in Frame /\ KnowledgeHolds(f)
      BY <1>1, <1>4, <2>1 DEF Frame, Steps, KnowledgeHolds
    <3>2. Enter(t, f)
      BY <1>1, <2>5 DEF Steps
    <3>3. FramesTrue'
      BY <1>6, <3>1, <3>2
    <3> QED
      BY <1>2, <2>2, <3>3, RowStep
  <2> QED
    BY <1>10, <2>3, <2>4, <2>5 DEF CancelPersist, Purposes
<1>11. CASE TimeoutMark(t)
  <2>1. Ended(g.ord)
    BY <1>1, <1>11 DEF TimeoutMark, At, KnowledgeHolds
  <2>2. RowsTrue'
    BY <1>3, <1>4, <1>5, <1>11, <2>1, RowsUpdated DEF TimeoutMark
  <2> DEFINE f == [g EXCEPT !.at = "sweep"]
  <2>3. f \in Frame /\ KnowledgeHolds(f)
    BY <1>1 DEF Frame, Steps, KnowledgeHolds
  <2>4. Enter(t, f)
    BY <1>1, <1>11 DEF TimeoutMark, Steps
  <2>5. FramesTrue'
    BY <1>6, <2>3, <2>4
  <2> QED
    BY <1>2, <2>2, <2>5, RowStep
<1>12. CASE QueryPersist(t)
  <2>1. g.st \in Closed => Ended(g.ord)
    BY <1>1, <1>12 DEF QueryPersist, At, KnowledgeHolds
  <2>2. RowsTrue'
    <3>1. UpdateStatus(g.ord, g.st) \/ Adopt(g.ord, g.st) \/ UNCHANGED stored
      BY <1>12 DEF QueryPersist
    <3> QED
      BY <1>3, <1>4, <2>1, <3>1, RowsUpdated, RowsAdopted, RowsKept
  <2> QED
    BY <1>2, <1>3, <1>12, <2>2, FramesReturned, RowStep DEF QueryPersist
<1> QED
  BY <1>7, <1>8, <1>9, <1>10, <1>11, <1>12

-----------------------------------------------------------------------------
(* Steps at the exchange                                                   *)

LEMMA ExchangeStep ==
  ASSUME IInv, ExchangeMoves, Push, UNCHANGED stored, HistoryTyped', FramesTrue'
  PROVE  IInv'
<1>1. RowsTrue' /\ MessagesTrue' /\ ExchTyped'
  BY Parts, RowsKept, MessagesPushed, MovesAreTyped
<1> QED
  BY <1>1, Parts

LEMMA CancelMoves ==
  ASSUME IInv, NEW os, ExchangeCancels(os) PROVE ExchangeMoves
<1>1. exch \in [Orders -> ExchStates]
  BY DEF IInv, TypeOK
<1> QED
  BY <1>1 DEF ExchangeCancels, ExchangeMoves, Ended, ExchStates

LEMMA ModifyMoves ==
  ASSUME IInv, NEW o \in Orders, NEW n \in Orders, ExchangeModifies(o, n)
  PROVE  ExchangeMoves /\ Ended(o)' /\ exch'[n] # "none" /\ Push
<1>1. exch \in [Orders -> ExchStates]
  BY DEF IInv, TypeOK
<1>2. exch[o] = "live" /\ exch[n] = "none" /\ o # n
      /\ exch' = [exch EXCEPT ![o] = "canceled", ![n] = "live"]
  BY DEF ExchangeModifies
<1>3. \A x \in Orders : exch'[x] = IF x = n THEN "live" ELSE IF x = o THEN "canceled" ELSE exch[x]
  BY <1>1, <1>2
<1>4. exch' \in [Orders -> ExchStates]
  BY <1>1, <1>2 DEF ExchStates
<1>5. ExchangeMoves
  BY <1>2, <1>3, <1>4 DEF ExchangeMoves, Ended
<1>6. Ended(o)' /\ exch'[n] # "none"
  BY <1>2, <1>3 DEF Ended
<1> QED
  BY <1>5, <1>6 DEF ExchangeModifies

LEMMA ExchangeSteps ==
  ASSUME IInv, NEW t \in Threads,
         \/ PlaceAccepted(t) \/ ModifyAccepted(t) \/ ModifyLost(t)
         \/ CancelAccepted(t) \/ CancelLost(t) \/ SweepExchange(t) \/ CancelAllOperator(t)
  PROVE  IInv'
<1>0. PICK g \in Frame : g = pc[t]
  BY FrameOfThread
<1>1. g \in Frame /\ KnowledgeHolds(g)
      /\ \A step \in Steps : Goto(t, step) <=> Enter(t, [g EXCEPT !.at = step])
  BY <1>0, FrameOfThread
<1>2. UNCHANGED <<stored, armed>> /\ Push
  BY DEF PlaceAccepted, ModifyAccepted, ModifyLost, ExchangeModifies, CancelAccepted, CancelLost,
         SweepExchange, CancelAllOperator
<1>3. exch \in [Orders -> ExchStates] /\ HistoryTyped
  BY Parts DEF IInv, TypeOK
<1>4. ASSUME ExchangeMoves, NEW f \in Frame, KnowledgeHolds(f), Enter(t, f) PROVE FramesTrue'
  BY <1>4, KnowledgeDoesNotAge, FramesEntered
<1>5. CASE PlaceAccepted(t)
  <2>1. g.ord \in Orders /\ exch[g.ord] = "none" /\ exch' = [exch EXCEPT ![g.ord] = "live"]
    BY <1>0, <1>1, <1>5 DEF PlaceAccepted, At, KnowledgeHolds, Steps
  <2>2. ExchangeMoves /\ exch'[g.ord] # "none"
    BY <1>3, <2>1 DEF ExchangeMoves, ExchStates, Ended
  <2>3. PICK st \in {"open", "error", "absent"} :
               Enter(t, [g EXCEPT !.at = "placed", !.st = st])
    BY <1>0, <1>5 DEF PlaceAccepted
  <2> DEFINE f == [g EXCEPT !.at = "placed", !.st = st]
  <2>4. f \in Frame /\ KnowledgeHolds(f)'
    BY <1>1, <2>1, <2>2, <2>3 DEF Frame, Steps, RowStates, Terminal, KnowledgeHolds
  <2>5. FramesTrue'
    BY <2>2, <2>3, <2>4, FramesEntered
  <2>6. HistoryTyped'
    BY <1>2, <1>3, <1>5, HistoryKept DEF PlaceAccepted
  <2> QED
    BY <1>2, <2>2, <2>5, <2>6, ExchangeStep
<1>6. CASE ModifyAccepted(t) \/ ModifyLost(t)
  <2>1. g.at = "modify" /\ g.ord \in Orders /\ g.new \in Orders /\ ExchangeModifies(g.ord, g.new)
    BY <1>0, <1>1, <1>6 DEF ModifyAccepted, ModifyLost, At, KnowledgeHolds, Steps
  <2>2. ExchangeMoves /\ Ended(g.ord)' /\ exch'[g.new] # "none"
    BY <2>1, ModifyMoves
  <2>3. HistoryTyped'
    <3>1. lineage' = [lineage EXCEPT ![g.new] = lineage[g.ord]] /\ UNCHANGED <<early, swept>>
      BY <2>1 DEF ExchangeModifies
    <3> QED
      BY <1>2, <1>3, <2>1, <3>1 DEF HistoryTyped
  <2>4. FramesTrue'
    <3>1. CASE Return(t)
      BY <2>2, <3>1, FramesReturned
    <3>2. CASE Goto(t, "modified")
      <4> DEFINE f == [g EXCEPT !.at = "modified"]
      <4>1. f \in Frame
        BY <1>1 DEF Frame, Steps
      <4>2. KnowledgeHolds(f)'
        BY <1>1, <2>1, <2>2 DEF Frame, Steps, KnowledgeHolds
      <4>3. Enter(t, f)
        BY <1>1, <3>2 DEF Steps
      <4> QED
        BY <2>2, <4>1, <4>2, <4>3, FramesEntered
    <3> QED
      BY <1>6, <3>1, <3>2 DEF ModifyAccepted, ModifyLost
  <2> QED
    BY <1>2, <2>2, <2>3, <2>4, ExchangeStep
<1>7. CASE CancelAccepted(t) \/ CancelLost(t)
  <2>1. g.at = "cancelCall" /\ g.ord \in Orders /\ exch[g.ord] = "live"
        /\ ExchangeCancels({g.ord})
    BY <1>0, <1>1, <1>7 DEF CancelAccepted, CancelLost, At, KnowledgeHolds, Steps
  <2>2. ExchangeMoves /\ Ended(g.ord)'
    BY <2>1, CancelMoves DEF ExchangeCancels, Ended
  <2>3. HistoryTyped'
    BY <1>2, <1>3, <1>7, HistoryKept DEF CancelAccepted, CancelLost
  <2>4. FramesTrue'
    <3>1. CASE Return(t)
      BY <2>2, <3>1, FramesReturned
    <3>2. ASSUME NEW step \in {"sweep", "cancelPersist"}, Goto(t, step) PROVE FramesTrue'
      <4> DEFINE f == [g EXCEPT !.at = step]
      <4>1. f \in Frame
        BY <1>1 DEF Frame, Steps
      <4>2. KnowledgeHolds(f)'
        BY <1>1, <2>1, <2>2 DEF Frame, Steps, KnowledgeHolds
      <4>3. Enter(t, f)
        BY <1>1, <3>2 DEF Steps
      <4> QED
        BY <2>2, <4>1, <4>2, <4>3, FramesEntered
    <3> QED
      BY <1>7, <3>1, <3>2 DEF CancelAccepted, CancelLost, CancelRaises
  <2> QED
    BY <1>2, <2>2, <2>3, <2>4, ExchangeStep
<1>8. CASE SweepExchange(t)
  <2>1. ExchangeMoves
    BY <1>8, CancelMoves DEF SweepExchange
  <2>2. HistoryTyped'
    BY <1>2, <1>3, <1>8 DEF SweepExchange, HistoryTyped
  <2>3. FramesTrue'
    <3>1. CASE Return(t)
      BY <2>1, <3>1, FramesReturned
    <3>2. ASSUME NEW step \in {"sweep", "sweepList"}, Goto(t, step) PROVE FramesTrue'
      <4> DEFINE f == [g EXCEPT !.at = step]
      <4>1. f \in Frame /\ KnowledgeHolds(f)
        BY <1>1 DEF Frame, Steps, KnowledgeHolds
      <4>2. Enter(t, f)
        BY <1>1, <3>2 DEF Steps
      <4> QED
        BY <1>4, <2>1, <4>1, <4>2
    <3> QED
      BY <1>8, <3>1, <3>2 DEF SweepExchange, SweepRaises
  <2> QED
    BY <1>2, <2>1, <2>2, <2>3, ExchangeStep
<1>9. CASE CancelAllOperator(t)
  <2>1. ExchangeMoves
    BY <1>9, CancelMoves DEF CancelAllOperator
  <2>2. FramesTrue' /\ HistoryTyped'
    BY <1>2, <1>3, <1>9, <2>1, FramesKept, HistoryKept, Parts DEF CancelAllOperator
  <2> QED
    BY <1>2, <2>1, <2>2, ExchangeStep
<1> QED
  BY <1>5, <1>6, <1>7, <1>8, <1>9

LEMMA FillStep == ASSUME IInv, NEW o \in Orders, ExchangeFills(o) PROVE IInv'
<1>1. exch \in [Orders -> ExchStates]
  BY DEF IInv, TypeOK
<1>2. ExchangeMoves
  BY <1>1 DEF ExchangeFills, ExchangeMoves, ExchStates, Ended
<1>3. FramesTrue' /\ HistoryTyped'
  BY <1>2, FramesKept, HistoryKept, Parts DEF ExchangeFills
<1> QED
  BY <1>2, <1>3, ExchangeStep DEF ExchangeFills

-----------------------------------------------------------------------------
(* The other steps of replace_order, cancel_order, sweeps and queries      *)

LEMMA OtherQuietSteps ==
  ASSUME IInv, NEW t \in Threads,
         \/ \E o \in Orders, n \in Replacements : CallReplace(t, o, n)
         \/ ReplaceRefused(t) \/ ReplaceCheck(t) \/ ModifyFails(t) \/ ReplaceRecorded(t)
         \/ \E o \in Orders : CallCancel(t, o)
         \/ CancelFails(t) \/ (\E due \in SUBSET Active : TimeoutScan(t, due)) \/ SweepNext(t)
         \/ SweepFails(t) \/ SweepList(t)
         \/ CallFlatten(t) \/ \E o \in Roots : FlattenCloses(t, o)
         \/ \E o \in Orders : CallQuery(t, o)
  PROVE  IInv'
<1> DEFINE g == pc[t]
<1>1. g \in Frame /\ KnowledgeHolds(g)
      /\ \A step \in Steps : Goto(t, step) <=> Enter(t, [g EXCEPT !.at = step])
  BY FrameOfThread
<1>2. Quiet
  BY DEF CallReplace, ReplaceRefused, ReplaceCheck, ModifyFails, ReplaceRecorded, CallCancel,
         CancelFails, TimeoutScan, SweepNext, SweepFails, SweepList, CallFlatten,
         FlattenCloses, CallQuery, Quiet
<1>3. \A o \in Orders : exch[o] \in ExchStates /\ row[o] \in RowStates
  BY DEF IInv, TypeOK
<1>4. \A o \in Orders : exch[o] # "none" => /\ Reported(exch[o]) \in RowStates
                                            /\ Reported(exch[o]) \in Closed => Ended(o)
  BY <1>3 DEF Reported, RowStates, Terminal, ClosedByBroker, Closed, Ended, ExchStates
<1>5. \A o \in Orders : row[o] \in Closed => Ended(o)
  BY DEF IInv, NobodyClaimsFalseEnd
<1>6. CASE Return(t)
  BY <1>2, <1>6, QuietReturn
<1>7. ASSUME NEW o \in Orders, NEW n \in Replacements, CallReplace(t, o, n) PROVE IInv'
  <2> DEFINE f == [Idle EXCEPT !.at = "replaceCheck", !.ord = o, !.new = n,
                               !.barred = Covering(o)]
  <2>1. Covering(o) \subseteq Scopes
    BY DEF Covering, IInv, TypeOK
  <2>2. f \in Frame /\ KnowledgeHolds(f)
    BY <2>1, IdleKnowsNothing DEF Idle, Frame, Steps, Scopes, Orders, KnowledgeHolds
  <2> QED
    BY <1>2, <1>7, <2>2, QuietStep DEF CallReplace
<1>8. CASE ReplaceCheck(t) /\ Goto(t, "modify")
  <2> DEFINE f == [g EXCEPT !.at = "modify"]
  <2>1. f \in Frame /\ KnowledgeHolds(f)
    BY <1>1, <1>8 DEF ReplaceCheck, At, Frame, Steps, KnowledgeHolds
  <2>2. Enter(t, f)
    BY <1>1, <1>8 DEF Steps
  <2> QED
    BY <1>2, <2>1, <2>2, QuietStep
<1>9. CASE ReplaceRecorded(t) /\ ~Return(t)
  <2>1. g.at = "modified" /\ g.new \in Orders /\ exch[g.new] # "none"
    BY <1>1, <1>9 DEF ReplaceRecorded, At, KnowledgeHolds
  <2>2. PICK st \in {"open", Reported(exch[g.new])} :
               Enter(t, [g EXCEPT !.at = "replaceOld", !.st = st])
    BY <1>9 DEF ReplaceRecorded
  <2>3. st \in RowStates /\ (st \in Closed => Ended(g.new))
    BY <1>4, <2>1, <2>2 DEF RowStates, Terminal, Closed, ClosedByBroker
  <2> DEFINE f == [g EXCEPT !.at = "replaceOld", !.st = st]
  <2>4. f \in Frame /\ KnowledgeHolds(f)
    BY <1>1, <2>1, <2>3 DEF Frame, Steps, KnowledgeHolds
  <2> QED
    BY <1>2, <2>2, <2>4, QuietStep
<1>10. ASSUME NEW o \in Orders, CallCancel(t, o) PROVE IInv'
  <2>1. PICK by \in {"call", "remote"} :
               Enter(t, [Idle EXCEPT !.at = "cancelCall", !.ord = o, !.by = by])
    BY <1>10 DEF CallCancel
  <2> DEFINE f == [Idle EXCEPT !.at = "cancelCall", !.ord = o, !.by = by]
  <2>2. f \in Frame /\ KnowledgeHolds(f)
    BY IdleKnowsNothing DEF Idle, Frame, Steps, Scopes, Purposes, KnowledgeHolds
  <2> QED
    BY <1>2, <2>1, <2>2, QuietStep
<1>11. CASE (CancelFails(t) \/ SweepFails(t)) /\ ~Return(t)
  <2> DEFINE f == [g EXCEPT !.at = "sweep"]
  <2>1. f \in Frame /\ KnowledgeHolds(f)
    BY <1>1 DEF Frame, Steps, KnowledgeHolds
  <2>2. Enter(t, f)
    BY <1>1, <1>11 DEF CancelFails, CancelRaises, SweepFails, SweepRaises, Steps
  <2> QED
    BY <1>2, <2>1, <2>2, QuietStep
<1>12. ASSUME NEW due \in SUBSET Active, TimeoutScan(t, due) PROVE IInv'
  <2> DEFINE f == [Idle EXCEPT !.at = "sweep", !.by = "timeout", !.todo = due]
  <2>1. due \subseteq Orders
    BY DEF Active
  <2>2. f \in Frame /\ KnowledgeHolds(f)
    BY <2>1, IdleKnowsNothing DEF Idle, Frame, Steps, Purposes, KnowledgeHolds
  <2> QED
    BY <1>2, <1>12, <2>2, QuietStep DEF TimeoutScan
<1>13. CASE SweepNext(t) /\ ~Return(t)
  <2>1. PICK o \in g.todo :
               Enter(t, [g EXCEPT !.at = "cancelCall", !.ord = o, !.todo = @ \ {o}])
    BY <1>13 DEF SweepNext
  <2> DEFINE f == [g EXCEPT !.at = "cancelCall", !.ord = o, !.todo = @ \ {o}]
  <2>2. f \in Frame /\ KnowledgeHolds(f)
    BY <1>1, <2>1 DEF Frame, Steps, Scopes, KnowledgeHolds
  <2> QED
    BY <1>2, <2>1, <2>2, QuietStep
<1>14. CASE SweepList(t)
  <2> DEFINE todo == {o \in Active : g.ord \in {Service, TradeRoot(o)}}
             f    == [g EXCEPT !.at = "sweep", !.todo = todo]
  <2>1. todo \subseteq Orders
    BY DEF Active
  <2>2. f \in Frame /\ KnowledgeHolds(f)
    <3> HIDE DEF todo
    <3> QED
      BY <1>1, <2>1 DEF Frame, Steps, KnowledgeHolds
  <2> QED
    BY <1>2, <1>14, <2>2, QuietStep DEF SweepList
<1>15. ASSUME NEW o \in Orders, CallQuery(t, o) PROVE IInv'
  <2> DEFINE st == Reported(exch[o])
  <2>1. st \in RowStates /\ (st \in Closed => Ended(o))
    BY <1>4, <1>15 DEF CallQuery
  <2>2. PICK by \in {"call", "remote"} :
               Enter(t, [Idle EXCEPT !.at = "queryPersist", !.ord = o, !.st = st, !.by = by])
    BY <1>15 DEF CallQuery
  <2> DEFINE f == [Idle EXCEPT !.at = "queryPersist", !.ord = o, !.st = st, !.by = by]
  <2>3. f \in Frame /\ KnowledgeHolds(f)
    <3> HIDE DEF st
    <3> QED
      BY <2>1, IdleKnowsNothing DEF Idle, Frame, Steps, Scopes, Purposes, KnowledgeHolds
  <2> QED
    BY <1>2, <2>2, <2>3, QuietStep
<1>16. CASE CallFlatten(t)
  <2>1. ASSUME NEW o \in Orders,
               Enter(t, [Idle EXCEPT !.at = "sweepList", !.by = "flatten", !.ord = o])
        PROVE  IInv'
    <3> DEFINE f == [Idle EXCEPT !.at = "sweepList", !.by = "flatten", !.ord = o]
    <3>1. f \in Frame /\ KnowledgeHolds(f)
      BY IdleKnowsNothing DEF Idle, Frame, Steps, Scopes, Purposes, KnowledgeHolds
    <3> QED
      BY <1>2, <2>1, <3>1, QuietStep
  <2>2. CASE Enter(t, [Idle EXCEPT !.at = "sweepExchange", !.by = "flatten"])
    <3> DEFINE f == [Idle EXCEPT !.at = "sweepExchange", !.by = "flatten"]
    <3>1. f \in Frame /\ KnowledgeHolds(f)
      BY IdleKnowsNothing DEF Idle, Frame, Steps, Purposes, KnowledgeHolds
    <3> QED
      BY <1>2, <2>2, <3>1, QuietStep
  <2> QED
    BY <1>16, <2>1, <2>2 DEF CallFlatten
<1>17. ASSUME NEW o \in Roots, FlattenCloses(t, o) PROVE IInv'
  <2> DEFINE f == [Idle EXCEPT !.at = "createGate", !.ord = o, !.barred = Covering(o)]
  <2>1. Covering(o) \subseteq Scopes
    BY DEF Covering, IInv, TypeOK
  <2>2. f \in Frame /\ KnowledgeHolds(f)
    BY <2>1, IdleKnowsNothing DEF Idle, Frame, Steps, Scopes, Orders, KnowledgeHolds
  <2> QED
    BY <1>2, <1>17, <2>2, QuietStep DEF FlattenCloses
<1> QED
  BY <1>6, <1>7, <1>8, <1>9, <1>10, <1>11, <1>12, <1>13, <1>14, <1>15, <1>16, <1>17
     DEF ReplaceRefused, ReplaceCheck, ModifyFails

(* Kill switches change which scopes are armed and, for the properties,    *)
(* what the frames remember of it.                                         *)
LEMMA SwitchPositionSteps ==
  ASSUME IInv, NEW t \in Threads,
         ArmService(t) \/ (\E o \in Orders : ArmTrade(t, o)) \/ \E s \in Scopes : ReleaseSwitch(t, s)
  PROVE  IInv'
<1>1. UNCHANGED <<stored, exch, wsq>> /\ HistoryTyped /\ FramesTrue
  BY Parts DEF ArmService, ArmTrade, ReleaseSwitch
<1>2. ExchangeMoves
  BY <1>1, NothingMoves DEF IInv
<1>3. RowsTrue' /\ MessagesTrue' /\ ExchTyped'
  BY <1>1, <1>2, Parts, RowsKept, MessagesKept, MovesAreTyped
<1>4. ASSUME NEW f \in Frame, KnowledgeHolds(f), Enter(t, f) PROVE FramesTrue'
  BY <1>2, <1>4, KnowledgeDoesNotAge, FramesEntered
<1>5. CASE ArmService(t)
  <2>1. Submitting \subseteq Orders
    <3>1. \A u \in Threads : /\ pc[u].at = "place" => pc[u].ord \in Orders
                             /\ pc[u].at = "modify" => pc[u].new \in Orders
      BY <1>1 DEF FramesTrue, KnowledgeHolds, Steps
    <3> QED
      BY <3>1 DEF Submitting
  <2>2. HistoryTyped'
    BY <1>1, <1>5, <2>1 DEF ArmService, HistoryTyped, Scopes
  <2> DEFINE f == [Idle EXCEPT !.at = "sweepExchange", !.by = "safety"]
  <2>3. f \in Frame /\ KnowledgeHolds(f)
    BY IdleKnowsNothing DEF Idle, Frame, Steps, Purposes, KnowledgeHolds
  <2>4. FramesTrue'
    BY <1>4, <1>5, <2>3 DEF ArmService
  <2> QED
    BY <1>3, <2>2, <2>4, Parts
<1>6. CASE \E o \in Orders : ArmTrade(t, o)
  <2>1. PICK root \in Orders :
          /\ armed' = armed \cup {root} /\ UNCHANGED history
          /\ Enter(t, [Idle EXCEPT !.at = "sweepList", !.by = "safety", !.ord = root])
    BY <1>6 DEF ArmTrade
  <2>2. HistoryTyped'
    BY <1>1, <2>1 DEF HistoryTyped, history, Scopes
  <2> DEFINE f == [Idle EXCEPT !.at = "sweepList", !.by = "safety", !.ord = root]
  <2>3. f \in Frame /\ KnowledgeHolds(f)
    BY IdleKnowsNothing DEF Idle, Frame, Steps, Scopes, Purposes, KnowledgeHolds
  <2>4. FramesTrue'
    BY <1>4, <2>1, <2>3
  <2> QED
    BY <1>3, <2>2, <2>4, Parts
<1>7. ASSUME NEW s \in Scopes, ReleaseSwitch(t, s) PROVE IInv'
  <2>1. HistoryTyped'
    BY <1>1, <1>7 DEF ReleaseSwitch, HistoryTyped
  <2>2. FramesTrue'
    <3>1. ASSUME NEW u \in Threads PROVE pc'[u] \in Frame /\ KnowledgeHolds(pc[u])'
      <4>1. PICK g \in Frame : g = pc[u] /\ KnowledgeHolds(g)
        BY <1>1 DEF FramesTrue
      <4> DEFINE f == [g EXCEPT !.barred = @ \ {s}]
      <4>2. f \in Frame /\ KnowledgeHolds(f)
        BY <4>1 DEF Frame, Steps, KnowledgeHolds
      <4>3. pc'[u] = f
        BY <1>7, <4>1 DEF ReleaseSwitch
      <4>4. PICK h \in Frame : pc'[u] = h /\ KnowledgeHolds(h)
        BY <4>2, <4>3
      <4>5. KnowledgeHolds(h)'
        BY <1>2, <4>4, KnowledgeDoesNotAge
      <4> QED
        BY <4>4, <4>5 DEF KnowledgeHolds
    <3>2. pc' = [u \in Threads |-> pc'[u]]
      BY <1>7 DEF ReleaseSwitch
    <3> QED
      BY <3>1, <3>2 DEF FramesTrue
  <2> QED
    BY <1>3, <2>1, <2>2, Parts
<1> QED
  BY <1>5, <1>6, <1>7

-----------------------------------------------------------------------------
(* The worker's WebSocket queue, and the death of the process              *)

LEMMA OrderEventStep == ASSUME IInv, NEW o \in Orders, HandleOrderEvent(o) PROVE IInv'
<1>1. UNCHANGED <<exch, armed, pc, history>> /\ wsq[o] # <<>>
      /\ wsq' = [wsq EXCEPT ![o] = Tail(@)]
  BY DEF HandleOrderEvent
<1>2. ExchangeMoves /\ RowsTrue /\ MessagesTrue
  BY <1>1, NothingMoves, Parts DEF IInv
<1>3. FramesTrue' /\ HistoryTyped' /\ ExchTyped'
  BY <1>1, <1>2, FramesKept, HistoryKept, MovesAreTyped, Parts
<1>4. wsq[o] \in Seq(ExchStates) /\ 1 \in DOMAIN wsq[o] /\ Head(wsq[o]) = wsq[o][1]
      /\ Tail(wsq[o]) \in Seq(ExchStates)
      /\ \A i \in DOMAIN Tail(wsq[o]) : i + 1 \in DOMAIN wsq[o] /\ Tail(wsq[o])[i] = wsq[o][i + 1]
  <2>1. wsq[o] \in Seq(ExchStates)
    BY <1>2 DEF MessagesTrue
  <2> QED
    BY <1>1, <2>1
<1>5. MessagesTrue'
  <2>1. ASSUME NEW x \in Orders
        PROVE  /\ wsq'[x] \in Seq(ExchStates)
               /\ \A i \in DOMAIN wsq'[x] :
                    wsq'[x][i] # "none" /\ (wsq'[x][i] # "live" => Ended(x)')
    <3>1. \A i \in DOMAIN wsq[x] : wsq[x][i] # "none" /\ (wsq[x][i] # "live" => Ended(x)')
      BY <1>2 DEF MessagesTrue, ExchangeMoves
    <3>2. wsq'[x] = IF x = o THEN Tail(wsq[o]) ELSE wsq[x]
      BY <1>1, <1>2 DEF MessagesTrue
    <3>3. wsq[x] \in Seq(ExchStates)
      BY <1>2 DEF MessagesTrue
    <3> HIDE DEF ExchangeMoves, MessagesTrue
    <3>4. CASE x = o
      BY <1>4, <3>1, <3>2, <3>4
    <3>5. CASE x # o
      BY <3>1, <3>2, <3>3, <3>5
    <3> QED
      BY <3>4, <3>5
  <2>2. wsq' \in [Orders -> Seq(ExchStates)]
    BY <1>1, <1>2, <1>4 DEF MessagesTrue
  <2> QED
    BY <2>1, <2>2 DEF MessagesTrue
<1>6. RowsTrue'
  <2>1. CASE UNCHANGED stored
    BY <1>2, <2>1, RowsKept
  <2>2. CASE ~UNCHANGED stored
    <3> DEFINE st == Reported(Head(wsq[o]))
    <3>1. row' = [row EXCEPT ![o] = st] /\ adopted' \subseteq adopted \cup {o} /\ UNCHANGED parent
      BY <2>2 DEF HandleOrderEvent
    <3>2. Head(wsq[o]) \in ExchStates \ {"none"} /\ (Head(wsq[o]) # "live" => Ended(o))
      BY <1>2, <1>4 DEF MessagesTrue
    <3>3. st \in RowStates /\ (st \in Closed => Ended(o))
      BY <3>2 DEF Reported, ExchStates, RowStates, Terminal, ClosedByBroker, Closed
    <3> HIDE DEF st
    <3> QED
      BY <1>2, <3>1, <3>3 DEF RowsTrue, ExchangeMoves
  <2> QED
    BY <2>1, <2>2
<1> QED
  BY <1>3, <1>5, <1>6, Parts

LEMMA CrashStep == ASSUME IInv, Crash PROVE IInv'
<1>1. ExchangeMoves /\ UNCHANGED <<stored, armed, history>>
  BY NothingMoves DEF Crash, IInv
<1>2. RowsTrue' /\ HistoryTyped' /\ ExchTyped'
  BY <1>1, RowsKept, HistoryKept, MovesAreTyped, Parts
<1>3. MessagesTrue'
  BY DEF Crash, MessagesTrue
<1>4. FramesTrue'
  BY IdleKnowsNothing DEF Crash, FramesTrue, KnowledgeHolds
<1> QED
  BY <1>2, <1>3, <1>4, Parts

-----------------------------------------------------------------------------
(* The theorems                                                            *)

LEMMA InitIsTrue == Init => IInv
<1> SUFFICES ASSUME Init PROVE IInv
  OBVIOUS
<1>1. RowsTrue /\ ExchTyped /\ HistoryTyped
  BY DEF Init, RowsTrue, ExchTyped, HistoryTyped, RowStates, ExchStates, Scopes, Closed,
         ClosedByBroker
<1>2. MessagesTrue
  BY DEF Init, MessagesTrue
<1>3. FramesTrue
  BY IdleKnowsNothing DEF Init, FramesTrue
<1> QED
  BY <1>1, <1>2, <1>3, Parts

LEMMA StepKeepsTruth == IInv /\ [Next]_vars => IInv'
<1> SUFFICES ASSUME IInv, [Next]_vars PROVE IInv'
  OBVIOUS
<1>1. ASSUME NEW t \in Threads, ThreadStep(t) PROVE IInv'
  BY <1>1, CreateQuietSteps, WritingSteps, ExchangeSteps, OtherQuietSteps, SwitchPositionSteps
     DEF ThreadStep, CreateStep, ReplaceStep, CancelStep, SwitchStep, QueryStep
<1>2. ASSUME NEW o \in Orders, HandleOrderEvent(o) PROVE IInv'
  BY <1>2, OrderEventStep
<1>3. ASSUME NEW o \in Orders, ExchangeFills(o) PROVE IInv'
  BY <1>3, FillStep
<1>4. CASE Crash
  BY <1>4, CrashStep
<1>5. CASE UNCHANGED vars
  BY <1>5 DEF vars, IInv, TypeOK, NobodyClaimsFalseEnd, KnowledgeHolds, Ended
<1> QED
  BY <1>1, <1>2, <1>3, <1>4, <1>5 DEF Next

(* The model is well typed for any orders, replacements and threads.       *)
THEOREM TypeCorrect == Spec => []TypeOK
<1>1. IInv => TypeOK
  BY DEF IInv
<1> QED
  BY <1>1, InitIsTrue, StepKeepsTruth, PTL DEF Spec

(* No handler, row or undelivered message ever claims the end of an order  *)
(* that has not ended.                                                     *)
THEOREM NoFalseEnd == Spec => []NobodyClaimsFalseEnd
<1>1. IInv => NobodyClaimsFalseEnd
  BY DEF IInv
<1> QED
  BY <1>1, InitIsTrue, StepKeepsTruth, PTL DEF Spec

(* A row the broker has closed or been told is filled never stands for an  *)
(* order that is live at the exchange, whatever is lost, delayed, retried  *)
(* or killed (cancel_order, replace_order, run_order_timeouts, query_order,*)
(* _upsert_order_from_ws_item).                                            *)
THEOREM ClosedRowsAreClosed == Spec => []ClosedRowIsClosedAtExchange
<1>1. NobodyClaimsFalseEnd => ClosedRowIsClosedAtExchange
  BY DEF NobodyClaimsFalseEnd, ClosedRowIsClosedAtExchange, Closed, Ended
<1> QED
  BY <1>1, NoFalseEnd, PTL

-----------------------------------------------------------------------------
(* What a confirmed sweep of the service switch leaves behind              *)

Covered(o) == o \in early \cup Exempt

(* A call that is past its kill-switch check while the service switch is   *)
(* armed was so when it was armed, or is reduce-only.                      *)
PastCheckIsCovered(f) ==
  /\ f.at = "place" /\ Service \in armed => Covered(f.ord)
  /\ f.at = "modify" /\ Service \in armed => Covered(f.new)
  /\ f.at \in {"replaceCheck", "modify"} => (f.new \in Exempt <=> f.ord \in Exempt)

SweepInv ==
  /\ swept => Service \in armed
  /\ \A t \in Threads : PastCheckIsCovered(pc[t])
  /\ SweptServiceLeavesOnlyEarlyOrders

LEMMA OneThreadMoves ==
  ASSUME TypeOK, NEW t \in Threads
  PROVE  /\ \A f : Enter(t, f) => pc'[t] = f /\ \A u \in Threads \ {t} : pc'[u] = pc[u]
         /\ \A step : Goto(t, step) => /\ pc'[t] = [pc[t] EXCEPT !.at = step]
                                       /\ pc'[t].at = step
                                       /\ \A u \in Threads \ {t} : pc'[u] = pc[u]
<1>1. pc \in [Threads -> Frame] /\ pc[t] \in Frame
  BY DEF TypeOK
<1> QED
  BY <1>1 DEF Enter, Goto, Frame

(* A step that leaves the switches alone and brings no uncovered order to  *)
(* life.                                                                   *)
LEMMA SweepInvKept ==
  ASSUME TypeOK, SweepInv, NEW t \in Threads, UNCHANGED <<armed, early, swept>>,
         \A u \in Threads \ {t} : pc'[u] = pc[u],
         PastCheckIsCovered(pc[t])',
         \A o \in Orders : exch'[o] = "live" => exch[o] = "live" \/ (swept => Covered(o))
  PROVE  SweepInv'
  BY DEF SweepInv, PastCheckIsCovered, Covered, SweptServiceLeavesOnlyEarlyOrders

LEMMA CheckedCalls ==
  ASSUME TypeOK, SweepInv, NEW t \in Threads,
         \/ \E o \in Orders, n \in Replacements : CallReplace(t, o, n)
         \/ CreateCheck(t) \/ ReplaceCheck(t)
  PROVE  SweepInv'
<1>1. /\ UNCHANGED <<armed, early, swept, exch>>
      /\ \A u \in Threads \ {t} : pc'[u] = pc[u]
  BY OneThreadMoves DEF CallReplace, CreateCheck, ReplaceCheck, Return, history
<1>2. \A o : KillSwitchAllows(o) /\ Service \in armed => o \in Exempt
  BY DEF KillSwitchAllows, Matching
<1>3. PastCheckIsCovered(pc[t])
  BY DEF SweepInv
<1>4. PastCheckIsCovered(pc[t])'
  <2>1. CASE Return(t)
    BY <2>1, OneThreadMoves DEF Return, Idle, PastCheckIsCovered
  <2>2. ASSUME NEW o \in Orders, NEW n \in Replacements, CallReplace(t, o, n)
        PROVE  PastCheckIsCovered(pc[t])'
    <3>0. pc'[t] = [Idle EXCEPT !.at = "replaceCheck", !.ord = o, !.new = n,
                                !.barred = Covering(o)]
      BY <2>2, OneThreadMoves DEF CallReplace
    <3>1. pc'[t].at = "replaceCheck" /\ pc'[t].new = n /\ pc'[t].ord = o
      BY <3>0 DEF Idle
    <3> QED
      BY <2>2, <3>1 DEF CallReplace, PastCheckIsCovered
  <2>3. CASE CreateCheck(t) /\ KillSwitchAllows(pc[t].ord)
    <3>1. pc'[t].at = "place" /\ pc'[t].ord = pc[t].ord
      <4>1. pc'[t] = [pc[t] EXCEPT !.at = "place"]
        BY <2>3, OneThreadMoves DEF CreateCheck
      <4> QED
        BY <4>1 DEF TypeOK, Frame
    <3> QED
      BY <1>1, <1>2, <2>3, <3>1 DEF PastCheckIsCovered, Covered
  <2>4. CASE ReplaceCheck(t) /\ KillSwitchAllows(pc[t].ord) /\ ~Known(pc[t].new)
    <3>1. pc'[t].at = "modify" /\ pc'[t].ord = pc[t].ord /\ pc'[t].new = pc[t].new
      <4>1. pc'[t] = [pc[t] EXCEPT !.at = "modify"]
        BY <2>4, OneThreadMoves DEF ReplaceCheck
      <4> QED
        BY <4>1 DEF TypeOK, Frame
    <3>2. pc[t].new \in Exempt <=> pc[t].ord \in Exempt
      BY <1>3, <2>4 DEF ReplaceCheck, At, PastCheckIsCovered
    <3> QED
      BY <1>1, <1>2, <2>4, <3>1, <3>2 DEF PastCheckIsCovered, Covered
  <2> QED
    BY <2>1, <2>2, <2>3, <2>4 DEF CreateCheck, ReplaceCheck
<1> QED
  BY <1>1, <1>4, SweepInvKept

LEMMA LiveOrders ==
  ASSUME IInv, SweepInv, NEW t \in Threads, PlaceAccepted(t) \/ ModifyAccepted(t) \/ ModifyLost(t)
  PROVE  SweepInv'
<1>1. TypeOK /\ PastCheckIsCovered(pc[t]) /\ KnowledgeHolds(pc[t]) /\ pc[t] \in Frame
      /\ exch \in [Orders -> ExchStates] /\ (swept => Service \in armed)
  BY DEF IInv, TypeOK, NobodyClaimsFalseEnd, SweepInv
<1>2. /\ UNCHANGED <<armed, early, swept>>
      /\ \A u \in Threads \ {t} : pc'[u] = pc[u]
  BY <1>1, OneThreadMoves
     DEF PlaceAccepted, ModifyAccepted, ModifyLost, ExchangeModifies, Return, history
<1>3. pc'[t].at \notin {"place", "modify", "replaceCheck"}
  <2>1. CASE PlaceAccepted(t)
    <3>1. PICK st \in {"open", "error", "absent"} :
                 Enter(t, [pc[t] EXCEPT !.at = "placed", !.st = st])
      BY <2>1 DEF PlaceAccepted
    <3>2. pc'[t] = [pc[t] EXCEPT !.at = "placed", !.st = st]
      BY <1>1, <3>1, OneThreadMoves
    <3> QED
      BY <1>1, <3>2 DEF Frame
  <2>2. CASE ModifyAccepted(t) \/ ModifyLost(t)
    <3>1. pc'[t] = Idle \/ pc'[t].at = "modified"
      BY <1>1, <2>2, OneThreadMoves DEF ModifyAccepted, ModifyLost, Return
    <3> QED
      BY <3>1 DEF Idle
  <2> QED
    BY <2>1, <2>2
<1>4. \A o \in Orders : exch'[o] = "live" => exch[o] = "live" \/ (swept => Covered(o))
  <2>1. CASE PlaceAccepted(t)
    BY <1>1, <2>1 DEF PlaceAccepted, At, PastCheckIsCovered
  <2>2. CASE ModifyAccepted(t) \/ ModifyLost(t)
    <3>1. pc[t].at = "modify" /\ exch' = [exch EXCEPT ![pc[t].ord] = "canceled",
                                                      ![pc[t].new] = "live"]
      BY <2>2 DEF ModifyAccepted, ModifyLost, ExchangeModifies, At
    <3> QED
      BY <1>1, <3>1 DEF PastCheckIsCovered
  <2> QED
    BY <2>1, <2>2
<1>5. PastCheckIsCovered(pc[t])'
  BY <1>3 DEF PastCheckIsCovered
<1> QED
  BY <1>1, <1>2, <1>4, <1>5, SweepInvKept

(* The steps that neither pass a check nor bring an order to life.         *)
LEMMA UncheckedSteps ==
  ASSUME TypeOK, SweepInv, NEW t \in Threads,
         UNCHANGED <<armed, early, swept>>,
         \A o \in Orders : exch'[o] = "live" => exch[o] = "live",
         \/ UNCHANGED pc
         \/ Return(t)
         \/ \E step \in Steps \ {"place", "modify", "replaceCheck"} : Goto(t, step)
         \/ \E f : Enter(t, f) /\ f.at \notin {"place", "modify", "replaceCheck"}
  PROVE  SweepInv'
<1>1. CASE UNCHANGED pc
  BY <1>1 DEF SweepInv, PastCheckIsCovered, Covered, SweptServiceLeavesOnlyEarlyOrders
<1>2. ASSUME NEW f, Enter(t, f), f.at \notin {"place", "modify", "replaceCheck"} PROVE SweepInv'
  <2>1. pc'[t] = f /\ \A u \in Threads \ {t} : pc'[u] = pc[u]
    BY <1>2, OneThreadMoves
  <2>2. PastCheckIsCovered(pc[t])'
    BY <1>2, <2>1 DEF PastCheckIsCovered
  <2> QED
    BY <2>1, <2>2, SweepInvKept
<1>3. CASE Return(t)
  BY <1>2, <1>3 DEF Return, Idle
<1>4. ASSUME NEW step \in Steps \ {"place", "modify", "replaceCheck"}, Goto(t, step)
      PROVE  SweepInv'
  <2>1. pc'[t].at = step /\ \A u \in Threads \ {t} : pc'[u] = pc[u]
    BY <1>4, OneThreadMoves
  <2>2. PastCheckIsCovered(pc[t])'
    BY <2>1 DEF PastCheckIsCovered
  <2> QED
    BY <2>1, <2>2, SweepInvKept
<1> QED
  BY <1>1, <1>2, <1>3, <1>4

LEMMA StepsWithoutCheck ==
  ASSUME TypeOK, SweepInv, NEW t \in Threads,
         \/ \E o \in Roots : CallCreate(t, o)
         \/ CreateGate(t) \/ CreateRefused(t) \/ PlaceRejected(t) \/ PlaceDuplicate(t)
         \/ PlaceHalted(t) \/ PlaceRecorded(t) \/ CreateRecover(t) \/ CreateDetail(t)
         \/ CreatePersist(t)
         \/ ReplaceRefused(t) \/ ModifyFails(t) \/ ReplaceRecorded(t) \/ ReplaceOld(t)
         \/ ReplaceNew(t)
         \/ CancelStep(t) \/ SweepFails(t) \/ SweepList(t) \/ CancelAllOperator(t)
         \/ CallFlatten(t) \/ (\E o \in Roots : FlattenCloses(t, o))
         \/ QueryStep(t)
  PROVE  SweepInv'
<1>1. pc[t] \in Frame
  BY DEF TypeOK
<1>2. UNCHANGED <<armed, early, swept>>
  BY DEF CallCreate, CreateGate, CreateRefused, PlaceRejected, PlaceDuplicate, PlaceHalted,
         PlaceRecorded, CreateRecover, CreateDetail, CreatePersist, ReplaceRefused, ModifyFails,
         ReplaceRecorded, ReplaceOld, ReplaceNew, CancelStep, CallCancel, CancelAccepted,
         CancelLost, CancelFails, CancelPersist, TimeoutScan, TimeoutMark, SweepNext, SweepFails,
         SweepList, CancelAllOperator, CallFlatten, FlattenCloses, QueryStep, CallQuery,
         QueryPersist, history
<1>3. \A o \in Orders : exch'[o] = "live" => exch[o] = "live"
  BY DEF CallCreate, CreateGate, CreateRefused, PlaceRejected, PlaceDuplicate, PlaceHalted,
         PlaceRecorded, CreateRecover, CreateDetail, CreatePersist, ReplaceRefused, ModifyFails,
         ReplaceRecorded, ReplaceOld, ReplaceNew, CancelStep, CallCancel, CancelAccepted,
         CancelLost, CancelFails, CancelPersist, TimeoutScan, TimeoutMark, SweepNext, SweepFails,
         SweepList, CancelAllOperator, CallFlatten, FlattenCloses, QueryStep, CallQuery,
         QueryPersist, ExchangeCancels
<1>4. CASE UNCHANGED pc \/ Return(t)
  BY <1>2, <1>3, <1>4, UncheckedSteps
<1>5. ASSUME NEW step \in Steps \ {"place", "modify", "replaceCheck"}, Goto(t, step)
      PROVE  SweepInv'
  BY <1>2, <1>3, <1>5, UncheckedSteps
<1>6. ASSUME NEW f, Enter(t, f), f.at \notin {"place", "modify", "replaceCheck"} PROVE SweepInv'
  BY <1>2, <1>3, <1>6, UncheckedSteps
<1>7. ASSUME \/ CreateGate(t) \/ CreateRefused(t) \/ PlaceHalted(t) \/ PlaceRecorded(t)
             \/ CreatePersist(t) \/ ReplaceRefused(t) \/ ModifyFails(t) \/ ReplaceOld(t)
             \/ ReplaceNew(t) \/ CancelAccepted(t) \/ CancelLost(t) \/ CancelFails(t)
             \/ CancelPersist(t) \/ TimeoutMark(t) \/ SweepFails(t) \/ CancelAllOperator(t)
             \/ QueryPersist(t)
      PROVE  SweepInv'
  <2>1. \/ UNCHANGED pc \/ Return(t)
        \/ \E step \in {"createCheck", "createRecover", "createPersist", "replaceNew",
                        "cancelPersist", "sweep", "timeoutMark"} : Goto(t, step)
    BY <1>1, <1>7
       DEF CreateGate, CreateRefused, PlaceHalted, PlaceRecorded, CreatePersist, Upsert,
           ReplaceRefused, ModifyFails, ReplaceOld, ReplaceNew, CancelAccepted, CancelLost,
           CancelFails, CancelRaises, CancelPersist, TimeoutMark, SweepFails, SweepRaises,
           CancelAllOperator, QueryPersist, Frame, Purposes
  <2> QED
    BY <1>4, <1>5, <2>1 DEF Steps
<1>8. ASSUME \/ \E o \in Roots : CallCreate(t, o)
             \/ \E o \in Orders : CallCancel(t, o) \/ CallQuery(t, o)
             \/ \E due \in SUBSET Active : TimeoutScan(t, due)
      PROVE  SweepInv'
  <2>1. ASSUME NEW o \in Roots, CallCreate(t, o) PROVE SweepInv'
    <3> DEFINE f == [Idle EXCEPT !.at = "createGate", !.ord = o, !.barred = Covering(o)]
    <3>1. Enter(t, f)
      BY <2>1 DEF CallCreate
    <3>2. f.at = "createGate"
      BY DEF Idle
    <3> HIDE DEF f
    <3> QED
      BY <1>6, <3>1, <3>2
  <2>2. ASSUME NEW o \in Orders, CallCancel(t, o) PROVE SweepInv'
    <3> DEFINE f == [Idle EXCEPT !.at = "cancelCall", !.ord = o,
                                 !.by = IF InTable(o) THEN "call" ELSE "remote"]
    <3>1. Enter(t, f)
      BY <2>2 DEF CallCancel
    <3>2. f.at = "cancelCall"
      BY DEF Idle
    <3> HIDE DEF f
    <3> QED
      BY <1>6, <3>1, <3>2
  <2>3. ASSUME NEW o \in Orders, CallQuery(t, o) PROVE SweepInv'
    <3> DEFINE st == Reported(exch[o])
               by == IF InTable(o) THEN "call" ELSE "remote"
               f  == [Idle EXCEPT !.at = "queryPersist", !.ord = o, !.st = st, !.by = by]
    <3>1. Enter(t, f)
      BY <2>3 DEF CallQuery
    <3> HIDE DEF st, by
    <3>2. f.at = "queryPersist"
      BY DEF Idle
    <3> HIDE DEF f
    <3> QED
      BY <1>6, <3>1, <3>2
  <2>4. ASSUME NEW due \in SUBSET Active, TimeoutScan(t, due) PROVE SweepInv'
    <3> DEFINE f == [Idle EXCEPT !.at = "sweep", !.by = "timeout", !.todo = due]
    <3>1. Enter(t, f)
      BY <2>4 DEF TimeoutScan
    <3>2. f.at = "sweep"
      BY DEF Idle
    <3> HIDE DEF f
    <3> QED
      BY <1>6, <3>1, <3>2
  <2> QED
    BY <1>8, <2>1, <2>2, <2>3, <2>4
<1>9. CASE PlaceRejected(t) \/ PlaceDuplicate(t) \/ CreateRecover(t) \/ CreateDetail(t)
  <2>1. \/ Return(t)
        \/ \E st : Enter(t, [pc[t] EXCEPT !.at = "placed", !.st = st])
        \/ \E st : Enter(t, [pc[t] EXCEPT !.at = "createPersist", !.st = st])
        \/ pc[t].at = "createPersist" /\ \E st : Enter(t, [pc[t] EXCEPT !.st = st])
    BY <1>9 DEF PlaceRejected, PlaceDuplicate, CreateRecover, CreateDetail, At
  <2>2. ASSUME NEW st, NEW step \in {"placed", "createPersist"},
               Enter(t, [pc[t] EXCEPT !.at = step, !.st = st])
        PROVE  SweepInv'
    <3> DEFINE f == [pc[t] EXCEPT !.at = step, !.st = st]
    <3>1. f.at = step
      BY <1>1 DEF Frame
    <3>2. Enter(t, f)
      BY <2>2
    <3> HIDE DEF f
    <3> QED
      BY <1>6, <3>1, <3>2
  <2>3. ASSUME NEW st, pc[t].at = "createPersist", Enter(t, [pc[t] EXCEPT !.st = st])
        PROVE  SweepInv'
    <3> DEFINE f == [pc[t] EXCEPT !.st = st]
    <3>1. f.at = "createPersist"
      BY <1>1, <2>3 DEF Frame
    <3>2. Enter(t, f)
      BY <2>3
    <3> HIDE DEF f
    <3> QED
      BY <1>6, <3>1, <3>2
  <2> QED
    BY <1>4, <2>1, <2>2, <2>3
<1>10. CASE ReplaceRecorded(t) \/ SweepNext(t) \/ SweepList(t)
  <2>1. \/ Return(t)
        \/ \E st : Enter(t, [pc[t] EXCEPT !.at = "replaceOld", !.st = st])
        \/ \E o : Enter(t, [pc[t] EXCEPT !.at = "cancelCall", !.ord = o, !.todo = @ \ {o}])
        \/ \E todo : Enter(t, [pc[t] EXCEPT !.at = "sweep", !.todo = todo])
    BY <1>10 DEF ReplaceRecorded, SweepNext, SweepList
  <2>2. ASSUME NEW st, Enter(t, [pc[t] EXCEPT !.at = "replaceOld", !.st = st])
        PROVE  SweepInv'
    <3> DEFINE f == [pc[t] EXCEPT !.at = "replaceOld", !.st = st]
    <3>1. f.at = "replaceOld"
      BY <1>1 DEF Frame
    <3>2. Enter(t, f)
      BY <2>2
    <3> HIDE DEF f
    <3> QED
      BY <1>6, <3>1, <3>2
  <2>3. ASSUME NEW o,
               Enter(t, [pc[t] EXCEPT !.at = "cancelCall", !.ord = o, !.todo = @ \ {o}])
        PROVE  SweepInv'
    <3> DEFINE f == [pc[t] EXCEPT !.at = "cancelCall", !.ord = o, !.todo = @ \ {o}]
    <3>1. f.at = "cancelCall"
      BY <1>1 DEF Frame
    <3>2. Enter(t, f)
      BY <2>3
    <3> HIDE DEF f
    <3> QED
      BY <1>6, <3>1, <3>2
  <2>4. ASSUME NEW todo, Enter(t, [pc[t] EXCEPT !.at = "sweep", !.todo = todo])
        PROVE  SweepInv'
    <3> DEFINE f == [pc[t] EXCEPT !.at = "sweep", !.todo = todo]
    <3>1. f.at = "sweep"
      BY <1>1 DEF Frame
    <3>2. Enter(t, f)
      BY <2>4
    <3> HIDE DEF f
    <3> QED
      BY <1>6, <3>1, <3>2
  <2> QED
    BY <1>4, <2>1, <2>2, <2>3, <2>4
<1>11. ASSUME CallFlatten(t) \/ \E o \in Roots : FlattenCloses(t, o) PROVE SweepInv'
  <2>1. ASSUME NEW o \in Orders,
               Enter(t, [Idle EXCEPT !.at = "sweepList", !.by = "flatten", !.ord = o])
        PROVE  SweepInv'
    <3> DEFINE f == [Idle EXCEPT !.at = "sweepList", !.by = "flatten", !.ord = o]
    <3>1. f.at = "sweepList" /\ Enter(t, f)
      BY <2>1 DEF Idle
    <3> HIDE DEF f
    <3> QED
      BY <1>6, <3>1
  <2>2. CASE Enter(t, [Idle EXCEPT !.at = "sweepExchange", !.by = "flatten"])
    <3> DEFINE f == [Idle EXCEPT !.at = "sweepExchange", !.by = "flatten"]
    <3>1. f.at = "sweepExchange" /\ Enter(t, f)
      BY <2>2 DEF Idle
    <3> HIDE DEF f
    <3> QED
      BY <1>6, <3>1
  <2>3. ASSUME NEW o \in Roots,
               Enter(t, [Idle EXCEPT !.at = "createGate", !.ord = o, !.barred = Covering(o)])
        PROVE  SweepInv'
    <3> DEFINE f == [Idle EXCEPT !.at = "createGate", !.ord = o, !.barred = Covering(o)]
    <3>1. f.at = "createGate" /\ Enter(t, f)
      BY <2>3 DEF Idle
    <3> HIDE DEF f
    <3> QED
      BY <1>6, <3>1
  <2> QED
    BY <1>11, <2>1, <2>2, <2>3 DEF CallFlatten, FlattenCloses
<1> QED
  BY <1>7, <1>8, <1>9, <1>10, <1>11 DEF CancelStep, QueryStep

LEMMA SwitchSteps ==
  ASSUME IInv, SweepInv, NEW t \in Threads,
         \/ ArmService(t) \/ \E o \in Orders : ArmTrade(t, o)
         \/ \E s \in Scopes : ReleaseSwitch(t, s)
         \/ SweepExchange(t)
  PROVE  SweepInv'
<1>1. TypeOK
  BY DEF IInv
<1>2. CASE ArmService(t)
  <2>1. ~swept /\ ~swept'
    BY <1>2 DEF ArmService, SweepInv
  <2>2. \A u \in Threads : /\ pc[u].at = "place" => pc[u].ord \in early'
                           /\ pc[u].at = "modify" => pc[u].new \in early'
    BY <1>2 DEF ArmService, Submitting
  <2>3. pc'[t].at = "sweepExchange" /\ \A u \in Threads \ {t} : pc'[u] = pc[u]
    <3>1. pc'[t] = [Idle EXCEPT !.at = "sweepExchange", !.by = "safety"]
          /\ \A u \in Threads \ {t} : pc'[u] = pc[u]
      BY <1>1, <1>2, OneThreadMoves DEF ArmService
    <3> QED
      BY <3>1 DEF Idle
  <2>4. \A u \in Threads : PastCheckIsCovered(pc[u])'
    <3> SUFFICES ASSUME NEW u \in Threads PROVE PastCheckIsCovered(pc[u])'
      OBVIOUS
    <3>1. PastCheckIsCovered(pc[u])
      BY DEF SweepInv
    <3> QED
      BY <2>2, <2>3, <3>1 DEF PastCheckIsCovered, Covered
  <2> QED
    BY <2>1, <2>4 DEF SweepInv, SweptServiceLeavesOnlyEarlyOrders
<1>3. CASE \E o \in Orders : ArmTrade(t, o)
  <2>1. PICK root \in Orders :
          /\ armed' = armed \cup {root} /\ UNCHANGED <<exch, early, swept>>
          /\ Enter(t, [Idle EXCEPT !.at = "sweepList", !.by = "safety", !.ord = root])
    BY <1>3 DEF ArmTrade, history
  <2>2. Service \in armed' <=> Service \in armed
    BY <2>1, ServiceAssumption
  <2>3. pc'[t].at = "sweepList" /\ \A u \in Threads \ {t} : pc'[u] = pc[u]
    <3>1. pc'[t] = [Idle EXCEPT !.at = "sweepList", !.by = "safety", !.ord = root]
          /\ \A u \in Threads \ {t} : pc'[u] = pc[u]
      BY <1>1, <2>1, OneThreadMoves
    <3> QED
      BY <3>1 DEF Idle
  <2> QED
    BY <2>1, <2>2, <2>3
       DEF SweepInv, PastCheckIsCovered, Covered, SweptServiceLeavesOnlyEarlyOrders
<1>4. ASSUME NEW s \in Scopes, ReleaseSwitch(t, s) PROVE SweepInv'
  <2>1. \A u \in Threads : pc'[u] = [pc[u] EXCEPT !.barred = @ \ {s}] /\ pc[u] \in Frame
    BY <1>1, <1>4 DEF ReleaseSwitch, TypeOK
  <2>2. \A u \in Threads : pc'[u].at = pc[u].at /\ pc'[u].ord = pc[u].ord /\ pc'[u].new = pc[u].new
    BY <2>1 DEF Frame
  <2>3. /\ Service \in armed' => s # Service /\ Service \in armed /\ early' = early
        /\ swept' => swept /\ s # Service
        /\ armed' = armed \ {s} /\ exch' = exch
    BY <1>4 DEF ReleaseSwitch
  <2>4. swept' => Service \in armed'
    BY <2>3 DEF SweepInv
  <2>5. \A u \in Threads : PastCheckIsCovered(pc[u])'
    BY <2>2, <2>3 DEF SweepInv, PastCheckIsCovered, Covered
  <2>6. SweptServiceLeavesOnlyEarlyOrders'
    BY <2>3, <2>4 DEF SweepInv, SweptServiceLeavesOnlyEarlyOrders
  <2> QED
    BY <2>4, <2>5, <2>6 DEF SweepInv
<1>5. CASE SweepExchange(t)
  <2>1. \A o \in Orders : exch'[o] # "live"
    BY <1>5 DEF SweepExchange, ExchangeCancels
  <2>2. UNCHANGED <<armed, early>> /\ (swept' => swept \/ Service \in armed)
    BY <1>5 DEF SweepExchange
  <2>3. /\ pc'[t] = Idle \/ pc'[t].at \in {"sweep", "sweepList"}
        /\ \A u \in Threads \ {t} : pc'[u] = pc[u]
    <3>1. CASE Return(t)
      BY <1>1, <3>1, OneThreadMoves DEF Return
    <3>2. ASSUME NEW step \in {"sweep", "sweepList"}, Goto(t, step)
          PROVE  /\ pc'[t].at \in {"sweep", "sweepList"}
                 /\ \A u \in Threads \ {t} : pc'[u] = pc[u]
      BY <1>1, <3>2, OneThreadMoves
    <3> QED
      BY <1>5, <3>1, <3>2 DEF SweepExchange, SweepRaises
  <2>4. pc'[t].at \notin {"place", "modify", "replaceCheck"}
    BY <2>3 DEF Idle
  <2> QED
    BY <2>1, <2>2, <2>3, <2>4
       DEF SweepInv, PastCheckIsCovered, Covered, SweptServiceLeavesOnlyEarlyOrders
<1> QED
  BY <1>2, <1>3, <1>4, <1>5

LEMMA StepKeepsSweepInv == IInv /\ SweepInv /\ [Next]_vars => SweepInv'
<1> SUFFICES ASSUME IInv, SweepInv, [Next]_vars PROVE SweepInv'
  OBVIOUS
<1>1. TypeOK
  BY DEF IInv
<1>2. ASSUME NEW t \in Threads, ThreadStep(t) PROVE SweepInv'
  BY <1>1, <1>2, CheckedCalls, LiveOrders, StepsWithoutCheck, SwitchSteps
     DEF ThreadStep, CreateStep, ReplaceStep, SwitchStep
<1>3. ASSUME UNCHANGED <<armed, early, swept, pc>>,
             \A o \in Orders : exch'[o] = "live" => exch[o] = "live"
      PROVE  SweepInv'
  BY <1>3 DEF SweepInv, PastCheckIsCovered, Covered, SweptServiceLeavesOnlyEarlyOrders
<1>4. ASSUME NEW o \in Orders, HandleOrderEvent(o) \/ ExchangeFills(o) PROVE SweepInv'
  BY <1>1, <1>3, <1>4 DEF HandleOrderEvent, ExchangeFills, history, TypeOK
<1>5. CASE Crash
  BY <1>5 DEF Crash, Idle, history, SweepInv, PastCheckIsCovered, Covered,
              SweptServiceLeavesOnlyEarlyOrders
<1>6. CASE UNCHANGED vars
  BY <1>3, <1>6 DEF vars
<1> QED
  BY <1>2, <1>4, <1>5, <1>6 DEF Next

(* Once Bitget has confirmed the cancel-all of the armed service switch,   *)
(* only submissions that were past their check when it was armed, and      *)
(* reduce-only orders, can be live (arm_kill_switch,                       *)
(* _assert_kill_switch_allows_submit).                                     *)
THEOREM SweepLeavesOnlyEarly == Spec => []SweptServiceLeavesOnlyEarlyOrders
<1>1. Init => SweepInv
  BY DEF Init, Idle, SweepInv, PastCheckIsCovered, SweptServiceLeavesOnlyEarlyOrders
<1>2. SweepInv => SweptServiceLeavesOnlyEarlyOrders
  BY DEF SweepInv
<1> QED
  BY <1>1, <1>2, InitIsTrue, StepKeepsTruth, StepKeepsSweepInv, PTL DEF Spec

-----------------------------------------------------------------------------
(* What an armed switch keeps back: chains of replacements                 *)

(* No order of the chain of this root trades.                              *)
Dead(root) == \A o \in Orders : lineage[o] = root => exch[o] # "live"

KnownReplacements == {n \in Replacements : Known(n)}

(* The parents of the rows lead back to the order their chain began with,  *)
(* which has a row of its own; an adopted row, which breaks the chain, is  *)
(* of an order with which the whole chain ended.                           *)
ChainSound ==
  /\ \A o \in Roots : lineage[o] = o /\ parent[o] = Service
  /\ \A o \in Orders : parent[o] # Service => o \in KnownReplacements
  /\ \A n \in KnownReplacements :
       parent[n] \in Orders /\ Known(parent[n]) /\ lineage[parent[n]] = lineage[n]
  /\ \A set \in SUBSET KnownReplacements : set # {} => \E n \in set : parent[n] \notin set
  /\ \A n \in Replacements : InTable(n) => exch[n] # "none"
  /\ \A n \in Replacements :
       exch[n] # "none" => /\ lineage[n] \in Roots /\ Known(lineage[n])
                           /\ exch[lineage[n]] # "none"
  /\ \A o \in adopted : InTable(o) /\ Ended(o) /\ Dead(lineage[o])
  /\ \A m, n \in Orders :
       lineage[m] = lineage[n] /\ exch[m] = "live" /\ exch[n] = "live" => m = n

(* A trade switch names a root that has a row, or an adopted row.          *)
SwitchesNamed == \A s \in armed : s = Service \/ (s \in Roots /\ Known(s)) \/ s \in adopted

(* A replacement that the exchange has made and that has no row yet        *)
Writes(f) == f.at \in {"modified", "replaceOld", "replaceNew"}

CreateSteps  == {"createGate", "createCheck", "place", "placed", "createRecover", "createPersist"}
ReplaceSteps == {"replaceCheck", "modify", "modified", "replaceOld", "replaceNew"}

FrameSound(f) ==
  /\ f.at \in CreateSteps => f.ord \in Roots
  /\ f.at \in ReplaceSteps => f.ord \in Orders /\ f.new \in Replacements /\ InTable(f.ord)
  /\ Writes(f) => Known(f.ord) /\ ~Known(f.new) /\ lineage[f.new] = lineage[f.ord]
  /\ f.at \in {"createPersist", "replaceOld", "replaceNew"} => f.st # "absent"
  /\ f.at \in {"cancelCall", "cancelPersist"} /\ f.by # "remote" => InTable(f.ord)
  /\ f.at = "timeoutMark" => InTable(f.ord)
  /\ \A o \in f.todo : InTable(o)
  /\ f.at = "cancelPersist" => Dead(lineage[f.ord])

(* What a call is barred by covers its order, and is armed still; past the *)
(* check nothing is left of it, unless the order is reduce-only or ended.  *)
BarsHold(f) ==
  /\ f.at \in {"createGate", "createCheck", "replaceCheck"} =>
       /\ f.barred \subseteq armed
       /\ \A s \in f.barred : s = Service \/ lineage[s] = lineage[f.ord]
  /\ f.at = "createCheck" => f.barred \subseteq {Service, f.ord}
  /\ f.at = "place" /\ f.ord \notin Exempt => f.barred = {}
  /\ f.at = "modify" /\ f.ord \notin Exempt => f.barred = {} \/ Ended(f.ord)

ChainInv ==
  /\ ChainSound /\ SwitchesNamed
  /\ \A t \in Threads : FrameSound(pc[t]) /\ BarsHold(pc[t])
  /\ \A t, u \in Threads : Writes(pc[t]) /\ Writes(pc[u]) /\ pc[t].new = pc[u].new => t = u

LEMMA RootOfChain ==
  ASSUME TypeOK, ChainSound, NEW o \in Orders
  PROVE  TradeRoot(o) = IF Known(o) THEN lineage[o] ELSE o
<1> DEFINE Up(f) == [x \in Orders |-> IF InTable(x) /\ parent[x] # Service
                                      THEN f[parent[x]] ELSE x]
           g  == [x \in Orders |-> IF Known(x) THEN lineage[x] ELSE x]
           up == CHOOSE f : f = Up(f)
<1>1. TradeRoot(o) = up[o]
  BY DEF TradeRoot
<1>2. \A x \in Orders : IF InTable(x) /\ parent[x] # Service
                        THEN /\ x \in KnownReplacements /\ parent[x] \in Orders
                             /\ Known(parent[x]) /\ lineage[parent[x]] = lineage[x]
                        ELSE Known(x) => lineage[x] = x
  <2> SUFFICES ASSUME NEW x \in Orders
               PROVE  IF InTable(x) /\ parent[x] # Service
                        THEN /\ x \in KnownReplacements /\ parent[x] \in Orders
                             /\ Known(parent[x]) /\ lineage[parent[x]] = lineage[x]
                        ELSE Known(x) => lineage[x] = x
    OBVIOUS
  <2>1. CASE parent[x] # Service
    <3>1. x \in KnownReplacements /\ InTable(x)
      BY <2>1 DEF ChainSound, KnownReplacements, Known
    <3> QED
      BY <2>1, <3>1 DEF ChainSound
  <2>2. CASE parent[x] = Service /\ Known(x)
    <3>1. x \notin Replacements
      BY <2>2, ServiceAssumption DEF ChainSound, KnownReplacements
    <3> QED
      BY <2>2, <3>1 DEF ChainSound, Orders
  <2> QED
    BY <2>1, <2>2
<1>3. g = Up(g)
  <2>1. \A x \in Orders : g[x] = IF InTable(x) /\ parent[x] # Service THEN g[parent[x]] ELSE x
    BY <1>2 DEF KnownReplacements
  <2> HIDE DEF g
  <2>2. g = [x \in Orders |-> g[x]]
    BY DEF g
  <2> QED
    BY <2>1, <2>2
<1> HIDE DEF Up, g
<1>4. up = Up(up)
  BY <1>3
<1> HIDE DEF up
<1>5. \A x \in Orders : up[x] = IF InTable(x) /\ parent[x] # Service THEN up[parent[x]] ELSE x
  BY <1>4 DEF Up
<1> DEFINE odd == {x \in KnownReplacements : up[x] # lineage[x]}
<1>6. ASSUME NEW x \in Orders, Known(x), x \notin odd
      PROVE  up[x] = lineage[x]
  <2>1. CASE x \in Replacements
    BY <1>6, <2>1 DEF KnownReplacements
  <2>2. CASE x \in Roots
    BY <1>5, <2>2 DEF ChainSound
  <2> QED
    BY <2>1, <2>2 DEF Orders
<1>7. odd = {}
  <2> SUFFICES ASSUME odd # {} PROVE FALSE
    OBVIOUS
  <2>1. odd \in SUBSET KnownReplacements
    OBVIOUS
  <2> PICK n \in odd : parent[n] \notin odd
    BY <2>1 DEF ChainSound
  <2>2. /\ n \in KnownReplacements /\ n \in Orders /\ parent[n] \in Orders /\ Known(parent[n])
        /\ lineage[parent[n]] = lineage[n] /\ up[n] # lineage[n] /\ InTable(n)
    BY DEF ChainSound, KnownReplacements, Known, Orders
  <2>3. parent[n] # Service
    BY <2>2, ServiceAssumption
  <2>4. up[n] = up[parent[n]]
    BY <1>5, <2>2, <2>3
  <2>5. up[parent[n]] = lineage[parent[n]]
    BY <1>6, <2>2
  <2> QED
    BY <2>2, <2>4, <2>5
<1> HIDE DEF odd
<1>8. CASE Known(o)
  BY <1>1, <1>6, <1>7, <1>8
<1>9. CASE ~Known(o)
  <2>1. ~(InTable(o) /\ parent[o] # Service)
    BY <1>2, <1>9 DEF KnownReplacements
  <2> QED
    BY <1>1, <1>5, <1>9, <2>1
<1> QED
  BY <1>8, <1>9

(* What a step may do without touching the frames of the other threads.    *)
Onward ==
  /\ ExchangeMoves /\ armed \subseteq armed'
  /\ \A o \in Orders : (InTable(o) => InTable(o)') /\ (Known(o) => Known(o)')
  /\ \A o \in Orders : o \in Roots \/ exch[o] # "none" => lineage'[o] = lineage[o]
  /\ \A o \in Orders : Ended(o) /\ Dead(lineage[o]) => Dead(lineage[o])'

LEMMA OthersKept ==
  ASSUME IInv, ChainInv, Onward, NEW u \in Threads, pc'[u] = pc[u],
         Writes(pc[u]) => ~Known(pc[u].new)'
  PROVE  FrameSound(pc[u])' /\ BarsHold(pc[u])'
<1> DEFINE f == pc[u]
<1>1. f \in Frame /\ KnowledgeHolds(f) /\ FrameSound(f) /\ BarsHold(f)
  BY DEF IInv, TypeOK, NobodyClaimsFalseEnd, ChainInv
<1>2. f.todo \subseteq Orders
  BY <1>1 DEF Frame
<1>3. \A o \in Orders : InTable(o) => lineage'[o] = lineage[o]
  BY DEF Onward, ChainInv, ChainSound, Orders
<1>4. f.at \in ReplaceSteps \cup CreateSteps => f.ord \in Orders /\ lineage'[f.ord] = lineage[f.ord]
  BY <1>1, <1>3 DEF FrameSound, Onward, Orders
<1>5. Writes(f) => f.new \in Orders /\ lineage'[f.new] = lineage[f.new]
  BY <1>1 DEF FrameSound, Onward, Orders, Writes, ReplaceSteps, KnowledgeHolds
<1>6. f.at = "cancelPersist" => f.ord \in Orders /\ Ended(f.ord)
  BY <1>1 DEF KnowledgeHolds, Steps
<1>7. f.at \in {"cancelCall", "timeoutMark"} => f.ord \in Orders
  BY <1>1 DEF KnowledgeHolds, Steps
<1>8. FrameSound(f)'
  BY <1>1, <1>2, <1>4, <1>5, <1>6, <1>7 DEF FrameSound, Onward, Writes, ReplaceSteps, CreateSteps
<1>9. \A s \in armed : s = Service \/ lineage'[s] = lineage[s]
  BY DEF ChainInv, SwitchesNamed, ChainSound, Onward, Orders, Ended, IInv, TypeOK
<1>10. f.at = "modify" /\ Ended(f.ord) => Ended(f.ord)'
  BY <1>4 DEF Onward, ExchangeMoves, ReplaceSteps
<1>11. BarsHold(f)'
  BY <1>1, <1>4, <1>9, <1>10 DEF BarsHold, Onward, ReplaceSteps, CreateSteps
<1> QED
  BY <1>8, <1>11

LEMMA ChainStep ==
  ASSUME IInv, ChainInv, Onward, ChainSound', SwitchesNamed', NEW t \in Threads,
         FrameSound(pc[t])', BarsHold(pc[t])',
         \A u \in Threads \ {t} :
           /\ pc'[u] = pc[u]
           /\ Writes(pc[u]) => ~Known(pc[u].new)'
           /\ Writes(pc[u]) /\ Writes(pc'[t]) => pc'[t].new # pc[u].new
  PROVE  ChainInv'
<1>1. \A u \in Threads : FrameSound(pc[u])' /\ BarsHold(pc[u])'
  BY OthersKept
<1>2. \A v, u \in Threads : Writes(pc'[v]) /\ Writes(pc'[u]) /\ pc'[v].new = pc'[u].new => v = u
  BY DEF ChainInv
<1> QED
  BY <1>1, <1>2 DEF ChainInv, Writes

(* A step that makes no order and no row.                                  *)
Steady ==
  /\ UNCHANGED <<parent, adopted, lineage, armed>>
  /\ ExchangeMoves
  /\ \A o \in Orders : /\ InTable(o)' <=> InTable(o)
                       /\ exch[o] = "none" => exch'[o] = "none"
                       /\ exch'[o] = "live" => exch[o] = "live"

LEMMA SteadyIsOnward ==
  ASSUME IInv, ChainInv, Steady
  PROVE  /\ Onward /\ ChainSound' /\ SwitchesNamed'
         /\ \A o \in Orders : Known(o)' <=> Known(o)
         /\ \A root : Dead(root) => Dead(root)'
<1>1. \A o \in Orders : Known(o)' <=> Known(o)
  BY DEF Steady, Known
<1>2. \A root : Dead(root) => Dead(root)'
  BY DEF Steady, Dead
<1>3. \A o \in Orders : Dead(lineage[o]) => Dead(lineage[o])'
  BY DEF Steady, Dead
<1>4. Onward
  BY <1>1, <1>3 DEF Onward, Steady
<1>5. KnownReplacements' = KnownReplacements
  BY <1>1 DEF KnownReplacements, Orders
<1>6. armed \subseteq Orders \cup {Service} /\ adopted \subseteq Orders
      /\ lineage \in [Orders -> Orders]
  BY DEF IInv, TypeOK, Scopes
<1>7. \A o \in adopted' : InTable(o)' /\ Ended(o)' /\ Dead(lineage[o])'
  BY <1>3, <1>6 DEF ChainInv, ChainSound, Steady, ExchangeMoves
<1>8. \A set \in SUBSET KnownReplacements' : set # {} => \E n \in set : parent'[n] \notin set
  BY <1>5 DEF ChainInv, ChainSound, Steady
<1>9. \A n \in Replacements : exch'[n] # "none" =>
        /\ lineage'[n] \in Roots /\ Known(lineage[n])' /\ exch'[lineage'[n]] # "none"
  <2> SUFFICES ASSUME NEW n \in Replacements, exch'[n] # "none"
               PROVE  /\ lineage'[n] \in Roots /\ Known(lineage[n])'
                      /\ exch'[lineage'[n]] # "none"
    OBVIOUS
  <2> DEFINE root == lineage[n]
  <2>1. root \in Roots /\ Known(root) /\ exch[root] # "none" /\ root \in Orders
    BY DEF ChainInv, ChainSound, Steady, Orders
  <2>2. lineage' = lineage
    BY DEF Steady
  <2>3. Known(root)'
    BY <2>1, <2>2 DEF Steady, Known
  <2> QED
    BY <2>1, <2>2, <2>3 DEF Steady, ExchangeMoves
<1>10. ChainSound'
  <2>1. /\ \A o \in Roots : lineage'[o] = o /\ parent'[o] = Service
        /\ \A o \in Orders : parent'[o] # Service => o \in KnownReplacements'
    BY <1>5 DEF ChainInv, ChainSound, Steady
  <2>2. \A n \in KnownReplacements' :
          parent'[n] \in Orders /\ Known(parent[n])' /\ lineage'[parent'[n]] = lineage'[n]
    <3>1. UNCHANGED <<parent, adopted, lineage>>
      BY DEF Steady
    <3>2. \A n \in KnownReplacements :
            parent[n] \in Orders /\ Known(parent[n]) /\ lineage[parent[n]] = lineage[n]
      BY DEF ChainInv, ChainSound
    <3> QED
      BY <1>5, <3>1, <3>2 DEF Steady, Known
  <2>3. /\ \A n \in Replacements : InTable(n)' => exch'[n] # "none"
        /\ \A m, n \in Orders :
             lineage'[m] = lineage'[n] /\ exch'[m] = "live" /\ exch'[n] = "live" => m = n
    BY DEF ChainInv, ChainSound, Steady, ExchangeMoves, Orders
  <2> QED
    BY <1>7, <1>8, <1>9, <2>1, <2>2, <2>3 DEF ChainSound
<1>11. SwitchesNamed'
  BY <1>1, <1>6 DEF ChainInv, SwitchesNamed, Steady, Known
<1> QED
  BY <1>1, <1>2, <1>4, <1>10, <1>11

LEMMA SteadyStep ==
  ASSUME IInv, ChainInv, Steady, NEW t \in Threads, \A u \in Threads \ {t} : pc'[u] = pc[u],
         FrameSound(pc[t])', BarsHold(pc[t])',
         Writes(pc'[t]) => Writes(pc[t]) /\ pc'[t].new = pc[t].new
  PROVE  ChainInv'
<1>1. Onward /\ ChainSound' /\ SwitchesNamed' /\ \A o \in Orders : Known(o)' <=> Known(o)
  BY SteadyIsOnward
<1>2. \A u \in Threads : Writes(pc[u]) => pc[u].new \in Orders /\ ~Known(pc[u].new)
  BY DEF ChainInv, FrameSound, Writes, ReplaceSteps, Orders
<1>3. \A u \in Threads \ {t} : Writes(pc[u]) => ~Known(pc[u].new)'
  <2> SUFFICES ASSUME NEW u \in Threads \ {t}, Writes(pc[u]) PROVE ~Known(pc[u].new)'
    OBVIOUS
  <2>1. pc'[u] = pc[u] /\ pc[u].new \in Orders /\ ~Known(pc[u].new)
    BY <1>2
  <2>2. \A o \in Orders : ~Known(o) => ~(row'[o] # "absent" /\ o \notin adopted')
    BY <1>1 DEF Known, InTable
  <2> QED
    BY <2>1, <2>2 DEF Known, InTable
<1>4. \A u \in Threads \ {t} : Writes(pc[u]) /\ Writes(pc'[t]) => pc'[t].new # pc[u].new
  BY DEF ChainInv
<1> QED
  BY <1>1, <1>3, <1>4, ChainStep

LEMMA QuietIsSteady == ASSUME IInv, Quiet PROVE Steady
  BY NothingMoves DEF IInv, Quiet, Steady, stored, history, InTable

(* A frame of a step that the invariant says nothing of                    *)
Plain == Steps \ (CreateSteps \cup ReplaceSteps
                    \cup {"cancelCall", "cancelPersist", "timeoutMark"})

LEMMA SteadyPlain ==
  ASSUME IInv, ChainInv, Steady, NEW t \in Threads, \A u \in Threads \ {t} : pc'[u] = pc[u],
         pc'[t].at \in Plain, \A o \in pc'[t].todo : o \in Orders /\ InTable(o)
  PROVE  ChainInv'
<1>1. \A o \in pc'[t].todo : InTable(o)'
  BY DEF Steady
<1>2. FrameSound(pc[t])' /\ BarsHold(pc[t])' /\ ~Writes(pc'[t])
  BY <1>1 DEF FrameSound, BarsHold, Plain, CreateSteps, ReplaceSteps, Writes
<1> QED
  BY <1>2, SteadyStep

LEMMA SteadyReturn ==
  ASSUME IInv, ChainInv, Steady, NEW t \in Threads, Return(t)
  PROVE  ChainInv'
<1>1. pc'[t] = Idle /\ \A u \in Threads \ {t} : pc'[u] = pc[u]
  BY OneThreadMoves DEF IInv, Return
<1>2. Idle.at \in Plain /\ Idle.todo = {}
  BY DEF Idle, Plain, Steps, CreateSteps, ReplaceSteps
<1> QED
  BY <1>1, <1>2, SteadyPlain

LEMMA SteadyStays ==
  ASSUME IInv, ChainInv, Steady, UNCHANGED pc
  PROVE  ChainInv'
<1>1. Worker \in Threads /\ \A u \in Threads : Writes(pc[u]) => ~Known(pc[u].new)'
  <2>1. \A u \in Threads : Writes(pc[u]) => pc[u].new \in Orders /\ ~Known(pc[u].new)
    BY DEF ChainInv, FrameSound, Writes, ReplaceSteps, Orders
  <2>2. \A o \in Orders : ~Known(o) => ~(row'[o] # "absent" /\ o \notin adopted')
    BY DEF Steady, Known, InTable
  <2> QED
    BY <2>1, <2>2 DEF Known, InTable, Threads
<1>2. FrameSound(pc[Worker])' /\ BarsHold(pc[Worker])'
  BY <1>1, SteadyIsOnward, OthersKept
<1> QED
  BY <1>1, <1>2, SteadyStep

(* What changes of a frame when its call goes on                           *)
SameCall(t) ==
  /\ \A u \in Threads \ {t} : pc'[u] = pc[u]
  /\ pc'[t].ord = pc[t].ord /\ pc'[t].new = pc[t].new /\ pc'[t].todo = pc[t].todo
  /\ pc'[t].by = pc[t].by /\ pc'[t].barred = pc[t].barred

LEMMA GoesOn ==
  ASSUME TypeOK, NEW t \in Threads
  PROVE  /\ \A step : Goto(t, step) => SameCall(t) /\ pc'[t].at = step /\ pc'[t].st = pc[t].st
         /\ \A step, st : Enter(t, [pc[t] EXCEPT !.at = step, !.st = st])
              => SameCall(t) /\ pc'[t].at = step /\ pc'[t].st = st
         /\ \A st : Enter(t, [pc[t] EXCEPT !.st = st])
              => SameCall(t) /\ pc'[t].at = pc[t].at /\ pc'[t].st = st
<1>1. pc \in [Threads -> Frame] /\ pc[t] \in Frame
  BY DEF TypeOK
<1>2. ASSUME NEW step, Goto(t, step)
      PROVE  SameCall(t) /\ pc'[t].at = step /\ pc'[t].st = pc[t].st
  <2>1. pc'[t] = [pc[t] EXCEPT !.at = step] /\ \A u \in Threads \ {t} : pc'[u] = pc[u]
    BY <1>2, OneThreadMoves
  <2> QED
    BY <1>1, <2>1 DEF SameCall, Frame
<1>3. ASSUME NEW step, NEW st, Enter(t, [pc[t] EXCEPT !.at = step, !.st = st])
      PROVE  SameCall(t) /\ pc'[t].at = step /\ pc'[t].st = st
  <2>1. pc'[t] = [pc[t] EXCEPT !.at = step, !.st = st] /\ \A u \in Threads \ {t} : pc'[u] = pc[u]
    BY <1>3, OneThreadMoves
  <2> QED
    BY <1>1, <2>1 DEF SameCall, Frame
<1>4. ASSUME NEW st, Enter(t, [pc[t] EXCEPT !.st = st])
      PROVE  SameCall(t) /\ pc'[t].at = pc[t].at /\ pc'[t].st = st
  <2>1. pc'[t] = [pc[t] EXCEPT !.st = st] /\ \A u \in Threads \ {t} : pc'[u] = pc[u]
    BY <1>4, OneThreadMoves
  <2> QED
    BY <1>1, <2>1 DEF SameCall, Frame
<1> QED
  BY <1>2, <1>3, <1>4

(* The steps of a call that have nothing to do with bars.                  *)
LEMMA SteadyAdvance ==
  ASSUME IInv, ChainInv, Steady, NEW t \in Threads, SameCall(t),
         \/ pc'[t].at \in {"sweep", "sweepList"}
         \/ pc'[t].at \in {"placed", "createRecover"} /\ pc[t].at \in CreateSteps
         \/ pc'[t].at = "createPersist" /\ pc[t].at \in CreateSteps /\ pc'[t].st # "absent"
         \/ pc'[t].at = "replaceOld" /\ pc[t].at = "modified" /\ pc'[t].st # "absent"
         \/ pc'[t].at = "replaceNew" /\ pc[t].at = "replaceOld" /\ pc'[t].st = pc[t].st
         \/ /\ pc'[t].at = "cancelPersist" /\ pc[t].at = "cancelCall"
            /\ Dead(lineage[pc[t].ord])'
         \/ pc'[t].at = "timeoutMark" /\ pc[t].at = "cancelPersist" /\ pc[t].by = "timeout"
  PROVE  ChainInv'
<1> DEFINE f == pc[t]
<1>1. f \in Frame /\ KnowledgeHolds(f) /\ FrameSound(f)
  BY DEF IInv, TypeOK, NobodyClaimsFalseEnd, ChainInv
<1>2. Onward /\ \A o \in Orders : Known(o)' <=> Known(o)
  BY SteadyIsOnward
<1>3. lineage' = lineage /\ \A o \in Orders : InTable(o)' <=> InTable(o)
  BY DEF Steady
<1>4. f.todo \subseteq Orders /\ f.ord \in Scopes /\ f.new \in Scopes
  BY <1>1 DEF Frame
<1>5. BarsHold(pc[t])'
  BY DEF BarsHold
<1>6. Writes(pc'[t]) => Writes(pc[t]) /\ pc'[t].new = pc[t].new
  BY DEF Writes, SameCall
<1>7. Writes(f) => f.ord \in Orders /\ f.new \in Orders
  BY <1>1 DEF FrameSound, Writes, ReplaceSteps, Orders
<1>8. f.at \in {"cancelCall", "cancelPersist"} => f.ord \in Orders
  BY <1>1 DEF KnowledgeHolds, Steps
<1>9. \A o \in pc'[t].todo : InTable(o)'
  BY <1>1, <1>3, <1>4 DEF FrameSound, SameCall
<1>10. pc'[t].at \in CreateSteps => pc'[t].ord \in Roots
  BY <1>1 DEF FrameSound, SameCall, CreateSteps
<1>11. Writes(pc'[t]) => /\ Known(pc[t].ord)' /\ ~Known(pc[t].new)'
                         /\ lineage'[pc'[t].new] = lineage'[pc'[t].ord]
  <2> SUFFICES ASSUME Writes(pc'[t])
               PROVE  /\ Known(pc[t].ord)' /\ ~Known(pc[t].new)'
                      /\ lineage'[pc'[t].new] = lineage'[pc'[t].ord]
    OBVIOUS
  <2>1. /\ f.ord \in Orders /\ f.new \in Orders /\ Known(f.ord) /\ ~Known(f.new)
        /\ lineage[f.new] = lineage[f.ord]
    BY <1>1, <1>6, <1>7 DEF FrameSound
  <2>2. \A o \in Orders : Known(o) <=> (row'[o] # "absent" /\ o \notin adopted')
    BY <1>2 DEF Known, InTable
  <2> QED
    BY <1>3, <2>1, <2>2 DEF Known, InTable, SameCall
<1>12. pc'[t].at \in ReplaceSteps =>
         pc'[t].ord \in Orders /\ pc'[t].new \in Replacements /\ InTable(pc[t].ord)'
  <2> SUFFICES ASSUME pc'[t].at \in ReplaceSteps
               PROVE  pc'[t].ord \in Orders /\ pc'[t].new \in Replacements /\ InTable(pc[t].ord)'
    OBVIOUS
  <2>1. f.ord \in Orders /\ f.new \in Replacements /\ InTable(f.ord)
    BY <1>1 DEF FrameSound, ReplaceSteps
  <2>2. row'[f.ord] # "absent"
    BY <1>3, <2>1 DEF InTable
  <2> QED
    BY <2>1, <2>2 DEF SameCall, InTable
<1>13. pc'[t].at \in {"cancelPersist", "timeoutMark"} =>
         \/ pc'[t].at = "cancelPersist" /\ pc'[t].by = "remote"
         \/ InTable(pc[t].ord)'
  <2>1. pc'[t].at \in {"cancelPersist", "timeoutMark"}
          => f.ord \in Orders /\ f.at \in {"cancelCall", "cancelPersist"}
    BY <1>8
  <2>2. f.at \in {"cancelCall", "cancelPersist"} /\ f.by # "remote" => row'[f.ord] # "absent"
    BY <1>1, <1>3, <1>8 DEF FrameSound, InTable
  <2> QED
    BY <2>1, <2>2 DEF SameCall, InTable
<1>14. pc'[t].at = "cancelPersist" => Dead(lineage[pc[t].ord])'
  BY DEF SameCall, Dead
<1>15. pc'[t].at \in {"createPersist", "replaceOld", "replaceNew"} => pc'[t].st # "absent"
  BY <1>1 DEF FrameSound
<1>16. pc'[t].at # "cancelCall"
  OBVIOUS
<1>17. FrameSound(pc[t])'
  BY <1>9, <1>10, <1>11, <1>12, <1>13, <1>14, <1>15, <1>16 DEF FrameSound
<1> QED
  BY <1>5, <1>6, <1>17, SteadyStep DEF SameCall

(* The calls, and what bars them                                           *)
LEMMA BarredCalls ==
  ASSUME IInv, ChainInv, NEW t \in Threads,
         \/ \E o \in Roots : CallCreate(t, o) \/ FlattenCloses(t, o)
         \/ \E o \in Orders, n \in Replacements : CallReplace(t, o, n)
  PROVE  ChainInv'
<1>1. Quiet
  BY DEF CallCreate, FlattenCloses, CallReplace, Quiet
<1>2. Steady
  BY <1>1, QuietIsSteady
<1>3. lineage' = lineage /\ armed' = armed /\ row' = row
  BY <1>1 DEF Quiet, stored, history
<1>4. \A o : Covering(o) \subseteq armed /\ \A s \in Covering(o) : s = Service \/ lineage[s] = lineage[o]
  BY DEF Covering
<1>5. ASSUME NEW o \in Roots, CallCreate(t, o) \/ FlattenCloses(t, o)
      PROVE  ChainInv'
  <2>1. /\ pc'[t] = [Idle EXCEPT !.at = "createGate", !.ord = o, !.barred = Covering(o)]
        /\ \A u \in Threads \ {t} : pc'[u] = pc[u]
    BY <1>5, OneThreadMoves DEF CallCreate, FlattenCloses, IInv
  <2>2. /\ pc'[t].at = "createGate" /\ pc'[t].ord = o /\ pc'[t].barred = Covering(o)
        /\ pc'[t].todo = {}
    BY <2>1 DEF Idle
  <2>3. FrameSound(pc[t])'
    BY <2>2 DEF FrameSound, CreateSteps, ReplaceSteps, Writes
  <2>4. BarsHold(pc[t])'
    BY <1>3, <1>4, <2>2 DEF BarsHold
  <2> QED
    BY <1>2, <2>1, <2>2, <2>3, <2>4, SteadyStep DEF Writes
<1>6. ASSUME NEW o \in Orders, NEW n \in Replacements, CallReplace(t, o, n)
      PROVE  ChainInv'
  <2>1. /\ pc'[t] = [Idle EXCEPT !.at = "replaceCheck", !.ord = o, !.new = n,
                                 !.barred = Covering(o)]
        /\ \A u \in Threads \ {t} : pc'[u] = pc[u]
        /\ InTable(o)
    BY <1>6, OneThreadMoves DEF CallReplace, IInv
  <2>2. /\ pc'[t].at = "replaceCheck" /\ pc'[t].ord = o /\ pc'[t].new = n
        /\ pc'[t].barred = Covering(o) /\ pc'[t].todo = {}
    BY <2>1 DEF Idle
  <2>3. FrameSound(pc[t])'
    BY <1>3, <2>1, <2>2 DEF FrameSound, CreateSteps, ReplaceSteps, Writes, InTable
  <2>4. BarsHold(pc[t])'
    BY <1>3, <1>4, <2>2 DEF BarsHold
  <2> QED
    BY <1>2, <2>1, <2>2, <2>3, <2>4, SteadyStep DEF Writes
<1> QED
  BY <1>5, <1>6

(* A root that has no row of its own bars only itself: the orders that     *)
(* replaced it are there only with its row.                                *)
LEMMA GateStep ==
  ASSUME IInv, ChainInv, NEW t \in Threads, CreateGate(t)
  PROVE  ChainInv'
<1>1. Quiet /\ Steady
  BY QuietIsSteady DEF CreateGate, Quiet
<1>2. CASE Return(t)
  BY <1>1, <1>2, SteadyReturn
<1>3. CASE ~Known(pc[t].ord) /\ Goto(t, "createCheck")
  <2> DEFINE f == pc[t]
  <2>1. f.at = "createGate" /\ f \in Frame /\ FrameSound(f) /\ BarsHold(f)
    BY DEF CreateGate, At, IInv, TypeOK, ChainInv
  <2>2. f.ord \in Roots /\ ~Known(f.ord) /\ lineage[f.ord] = f.ord
    BY <1>3, <2>1 DEF FrameSound, CreateSteps, ChainInv, ChainSound
  <2>3. f.barred \subseteq {Service, f.ord}
    <3> SUFFICES ASSUME NEW s \in f.barred, s # Service PROVE s = f.ord
      OBVIOUS
    <3>1. s \in armed /\ lineage[s] = f.ord
      BY <2>1, <2>2 DEF BarsHold
    <3>2. CASE s \in Roots
      BY <2>2, <3>1, <3>2 DEF ChainInv, ChainSound
    <3>3. CASE s \in adopted /\ s \notin Roots
      <4>1. s \in Replacements /\ exch[s] # "none"
        BY <3>3 DEF IInv, TypeOK, Orders, ChainInv, ChainSound, Ended
      <4>2. Known(lineage[s])
        BY <4>1 DEF ChainInv, ChainSound
      <4> QED
        BY <2>2, <3>1, <4>2
    <3> QED
      BY <3>1, <3>2, <3>3 DEF ChainInv, SwitchesNamed
  <2>4. SameCall(t) /\ pc'[t].at = "createCheck"
    BY <1>3, GoesOn DEF IInv
  <2>5. armed' = armed /\ lineage' = lineage /\ row' = row
    BY <1>1 DEF Quiet, stored, history
  <2>6. f.todo \subseteq Orders
    BY <2>1 DEF Frame
  <2>7. FrameSound(pc[t])'
    BY <2>1, <2>2, <2>4, <2>5, <2>6 DEF FrameSound, SameCall, CreateSteps, ReplaceSteps, Writes, InTable
  <2>8. BarsHold(pc[t])'
    BY <2>1, <2>3, <2>4, <2>5 DEF BarsHold, SameCall
  <2> QED
    BY <1>1, <2>4, <2>7, <2>8, SteadyStep DEF SameCall, Writes
<1> QED
  BY <1>2, <1>3 DEF CreateGate

LEMMA CreateCheckStep ==
  ASSUME IInv, ChainInv, NEW t \in Threads, CreateCheck(t)
  PROVE  ChainInv'
<1>1. Quiet /\ Steady
  BY QuietIsSteady DEF CreateCheck, Quiet
<1>2. CASE Return(t)
  BY <1>1, <1>2, SteadyReturn
<1>3. CASE KillSwitchAllows(pc[t].ord) /\ Goto(t, "place")
  <2> DEFINE f == pc[t]
  <2>1. f.at = "createCheck" /\ f \in Frame /\ FrameSound(f) /\ BarsHold(f)
    BY DEF CreateCheck, At, IInv, TypeOK, ChainInv
  <2>2. f.ord \in Roots /\ f.ord \in Orders /\ lineage[f.ord] = f.ord
    BY <2>1 DEF FrameSound, CreateSteps, ChainInv, ChainSound, Orders
  <2>3. TradeRoot(f.ord) = f.ord
    BY <2>2, RootOfChain DEF ChainInv, IInv
  <2>4. f.ord \notin Exempt => f.barred = {}
    BY <1>3, <2>1, <2>3 DEF KillSwitchAllows, Matching, BarsHold
  <2>5. SameCall(t) /\ pc'[t].at = "place"
    BY <1>3, GoesOn DEF IInv
  <2>6. row' = row
    BY <1>1 DEF Quiet, stored
  <2>7. f.todo \subseteq Orders
    BY <2>1 DEF Frame
  <2>8. FrameSound(pc[t])'
    BY <2>1, <2>2, <2>5, <2>6, <2>7 DEF FrameSound, SameCall, CreateSteps, ReplaceSteps, Writes, InTable
  <2>9. BarsHold(pc[t])'
    BY <2>4, <2>5 DEF BarsHold, SameCall
  <2> QED
    BY <1>1, <2>5, <2>8, <2>9, SteadyStep DEF SameCall, Writes
<1> QED
  BY <1>2, <1>3 DEF CreateCheck

(* The root of a known row is the order its chain began with; what is      *)
(* armed for the chain beside it is an adopted row, and the chain ended.   *)
LEMMA ReplaceCheckStep ==
  ASSUME IInv, ChainInv, NEW t \in Threads, ReplaceCheck(t)
  PROVE  ChainInv'
<1>1. Quiet /\ Steady
  BY QuietIsSteady DEF ReplaceCheck, Quiet
<1>2. CASE Return(t)
  BY <1>1, <1>2, SteadyReturn
<1>3. CASE KillSwitchAllows(pc[t].ord) /\ ~Known(pc[t].new) /\ Goto(t, "modify")
  <2> DEFINE f == pc[t]
             root == lineage[f.ord]
  <2>1. f.at = "replaceCheck" /\ f \in Frame /\ FrameSound(f) /\ BarsHold(f)
    BY DEF ReplaceCheck, At, IInv, TypeOK, ChainInv
  <2>2. f.ord \in Orders /\ f.new \in Replacements /\ InTable(f.ord)
    BY <2>1 DEF FrameSound, ReplaceSteps
  <2>3. exch \in [Orders -> ExchStates]
    BY DEF IInv, TypeOK
  <2>4. ASSUME f.ord \notin Exempt, f.barred # {}
        PROVE  Ended(f.ord)
    <3>1. CASE f.ord \in adopted
      BY <3>1 DEF ChainInv, ChainSound
    <3>2. CASE f.ord \notin adopted
      <4>1. TradeRoot(f.ord) = root
        BY <2>2, <3>2, RootOfChain DEF ChainInv, IInv, Known
      <4>2. Service \notin armed /\ root \notin armed
        BY <1>3, <2>4, <4>1 DEF KillSwitchAllows, Matching
      <4> PICK s \in f.barred : TRUE
        BY <2>4
      <4>3. s \in armed /\ s # Service /\ s # root /\ lineage[s] = root
        BY <2>1, <4>2 DEF BarsHold
      <4>4. s \in adopted /\ s \notin Roots
        BY <4>3 DEF ChainInv, SwitchesNamed, ChainSound
      <4>5. s \in Replacements /\ Ended(s) /\ Dead(root)
        BY <4>3, <4>4 DEF IInv, TypeOK, Orders, ChainInv, ChainSound
      <4>6. root \in Roots /\ exch[root] # "none"
        BY <4>3, <4>5 DEF ChainInv, ChainSound, Ended
      <4>7. exch[f.ord] # "live"
        BY <2>2, <4>5 DEF Dead
      <4>8. exch[f.ord] # "none"
        BY <2>2, <4>6 DEF ChainInv, ChainSound, Orders
      <4> QED
        BY <2>2, <2>3, <4>7, <4>8 DEF Ended, ExchStates
    <3> QED
      BY <3>1, <3>2
  <2>5. SameCall(t) /\ pc'[t].at = "modify"
    BY <1>3, GoesOn DEF IInv
  <2>6. row' = row /\ exch' = exch
    BY <1>1 DEF Quiet, stored
  <2>7. f.todo \subseteq Orders
    BY <2>1 DEF Frame
  <2>8. FrameSound(pc[t])'
    BY <2>1, <2>2, <2>5, <2>6, <2>7
       DEF FrameSound, SameCall, CreateSteps, ReplaceSteps, Writes, InTable
  <2>9. BarsHold(pc[t])'
    BY <2>4, <2>5, <2>6 DEF BarsHold, SameCall, Ended
  <2> QED
    BY <1>1, <2>5, <2>8, <2>9, SteadyStep DEF SameCall, Writes
<1> QED
  BY <1>2, <1>3 DEF ReplaceCheck

LEMMA CreateOnwardSteps ==
  ASSUME IInv, ChainInv, NEW t \in Threads,
         \/ CreateRefused(t) \/ PlaceRejected(t) \/ PlaceDuplicate(t) \/ PlaceHalted(t)
         \/ PlaceRecorded(t) \/ CreateRecover(t) \/ CreateDetail(t)
  PROVE  ChainInv'
<1>1. Quiet
  BY DEF CreateRefused, PlaceRejected, PlaceDuplicate, PlaceHalted, PlaceRecorded, CreateRecover,
         CreateDetail, Quiet
<1>2. Steady /\ TypeOK
  BY <1>1, QuietIsSteady DEF IInv
<1>3. CASE Return(t)
  BY <1>2, <1>3, SteadyReturn
<1>4. ASSUME NEW st, pc[t].at \in CreateSteps,
             \/ Enter(t, [pc[t] EXCEPT !.at = "placed", !.st = st])
             \/ st # "absent" /\ Enter(t, [pc[t] EXCEPT !.at = "createPersist", !.st = st])
             \/ /\ pc[t].at = "createPersist" /\ st # "absent"
                /\ Enter(t, [pc[t] EXCEPT !.st = st])
      PROVE  ChainInv'
  <2>1. /\ SameCall(t) /\ pc'[t].st = st
        /\ pc'[t].at = "placed" \/ (pc'[t].at = "createPersist" /\ st # "absent")
    BY <1>2, <1>4, GoesOn
  <2> QED
    BY <1>2, <1>4, <2>1, SteadyAdvance
<1>5. ASSUME pc[t].at = "placed",
             \/ Goto(t, "createRecover")
             \/ pc[t].st # "absent" /\ Goto(t, "createPersist")
      PROVE  ChainInv'
  <2>1. /\ SameCall(t) /\ pc'[t].st = pc[t].st
        /\ \/ pc'[t].at = "createRecover"
           \/ pc'[t].at = "createPersist" /\ pc[t].st # "absent"
    BY <1>2, <1>5, GoesOn
  <2> QED
    BY <1>2, <1>5, <2>1, SteadyAdvance DEF CreateSteps
<1>6. pc[t].at \in {"createRecover", "createPersist"} => Reported(exch[pc[t].ord]) # "absent"
  <2>1. \A o \in Orders : exch[o] # "absent"
    BY <1>2 DEF TypeOK, ExchStates
  <2>2. pc[t].at \in {"createRecover", "createPersist"} => pc[t].ord \in Orders
    BY DEF ChainInv, FrameSound, CreateSteps, Orders
  <2> QED
    BY <2>1, <2>2 DEF Reported
<1>7. CASE CreateRefused(t) \/ PlaceHalted(t)
  BY <1>3, <1>7 DEF CreateRefused, PlaceHalted
<1>8. CASE PlaceRejected(t) \/ PlaceDuplicate(t)
  <2>1. pc[t].at \in CreateSteps
    BY <1>8 DEF PlaceRejected, PlaceDuplicate, At, CreateSteps
  <2>2. \/ Enter(t, [pc[t] EXCEPT !.at = "placed", !.st = "error"])
        \/ Enter(t, [pc[t] EXCEPT !.at = "placed", !.st = "absent"])
    BY <1>8 DEF PlaceRejected, PlaceDuplicate
  <2> QED
    BY <1>4, <2>1, <2>2
<1>9. CASE PlaceRecorded(t)
  BY <1>3, <1>5, <1>9 DEF PlaceRecorded, At
<1>10. CASE CreateRecover(t)
  <2>1. pc[t].at = "createRecover"
    BY <1>10 DEF CreateRecover, At
  <2> DEFINE found == Reported(exch[pc[t].ord])
  <2>2. \/ Return(t)
        \/ Enter(t, [pc[t] EXCEPT !.at = "createPersist", !.st = found])
        \/ Enter(t, [pc[t] EXCEPT !.at = "createPersist", !.st = "error"])
    BY <1>10 DEF CreateRecover
  <2>3. pc[t].at \in CreateSteps /\ found # "absent"
    BY <1>6, <2>1 DEF CreateSteps
  <2> HIDE DEF found
  <2>4. CASE Enter(t, [pc[t] EXCEPT !.at = "createPersist", !.st = found])
    BY <1>4, <2>3, <2>4
  <2>5. CASE Enter(t, [pc[t] EXCEPT !.at = "createPersist", !.st = "error"])
    BY <1>4, <2>3, <2>5
  <2> QED
    BY <1>3, <2>2, <2>4, <2>5
<1>11. CASE CreateDetail(t)
  <2>1. pc[t].at = "createPersist"
    BY <1>11 DEF CreateDetail, At
  <2> DEFINE found == Reported(exch[pc[t].ord])
  <2>2. Return(t) \/ Enter(t, [pc[t] EXCEPT !.st = found])
    BY <1>11 DEF CreateDetail
  <2>3. pc[t].at \in CreateSteps /\ found # "absent"
    BY <1>6, <2>1 DEF CreateSteps
  <2> HIDE DEF found
  <2> QED
    BY <1>3, <1>4, <2>1, <2>2, <2>3
<1> QED
  BY <1>7, <1>8, <1>9, <1>10, <1>11

LEMMA ReplaceOnwardSteps ==
  ASSUME IInv, ChainInv, NEW t \in Threads,
         ReplaceRefused(t) \/ ModifyFails(t) \/ ReplaceRecorded(t) \/ ReplaceOld(t)
  PROVE  ChainInv'
<1>1. TypeOK
  BY DEF IInv
<1>2. CASE ReplaceOld(t)
  <2>1. pc[t].at = "replaceOld" /\ pc[t].ord \in Orders /\ InTable(pc[t].ord)
    BY <1>2 DEF ReplaceOld, At, ChainInv, FrameSound, ReplaceSteps
  <2>2. row \in [Orders -> RowStates] /\ row' = [row EXCEPT ![pc[t].ord] = "replaced"]
    BY <1>1, <1>2 DEF TypeOK, ReplaceOld, UpdateStatus
  <2>3. \A o \in Orders : InTable(o)' <=> InTable(o)
    BY <2>1, <2>2 DEF InTable
  <2>4. UNCHANGED <<parent, adopted, lineage, armed, exch>>
    BY <1>2 DEF ReplaceOld, UpdateStatus, history
  <2>5. Steady
    BY <1>1, <2>3, <2>4, NothingMoves DEF Steady
  <2>6. SameCall(t) /\ pc'[t].at = "replaceNew" /\ pc'[t].st = pc[t].st
    BY <1>1, <1>2, GoesOn DEF ReplaceOld
  <2> QED
    BY <2>1, <2>5, <2>6, SteadyAdvance
<1>3. CASE ReplaceRefused(t) \/ ModifyFails(t) \/ ReplaceRecorded(t)
  <2>1. Quiet
    BY <1>3 DEF ReplaceRefused, ModifyFails, ReplaceRecorded, Quiet
  <2>2. Steady
    BY <2>1, QuietIsSteady
  <2>3. CASE Return(t)
    BY <2>2, <2>3, SteadyReturn
  <2>4. ASSUME NEW st, st # "absent", pc[t].at = "modified",
               Enter(t, [pc[t] EXCEPT !.at = "replaceOld", !.st = st])
        PROVE  ChainInv'
    <3>1. SameCall(t) /\ pc'[t].st = st /\ pc'[t].at = "replaceOld"
      BY <1>1, <2>4, GoesOn
    <3> QED
      BY <2>2, <2>4, <3>1, SteadyAdvance
  <2>5. pc[t].at = "modified" => Reported(exch[pc[t].new]) # "absent"
    <3>1. pc[t].at = "modified" => pc[t].new \in Orders
      BY DEF ChainInv, FrameSound, ReplaceSteps, Orders
    <3> QED
      BY <1>1, <3>1 DEF TypeOK, ExchStates, Reported
  <2> QED
    BY <1>3, <2>3, <2>4, <2>5 DEF ReplaceRefused, ModifyFails, ReplaceRecorded, At
<1> QED
  BY <1>2, <1>3

(* Cancelling makes nothing live.                                          *)
LEMMA CancellingIsSteady ==
  ASSUME IInv, NEW os, ExchangeCancels(os), UNCHANGED <<stored, lineage, armed>>
  PROVE  Steady /\ \A o \in Orders : o \in os => exch'[o] # "live"
<1>1. ExchangeMoves
  BY CancelMoves
<1>2. \A o \in Orders : exch'[o] = IF o \in os /\ exch[o] = "live" THEN "canceled" ELSE exch[o]
  BY DEF ExchangeCancels
<1> QED
  BY <1>1, <1>2 DEF Steady, stored, InTable

LEMMA CancelOnwardSteps ==
  ASSUME IInv, ChainInv, NEW t \in Threads,
         \/ \E o \in Orders : CallCancel(t, o)
         \/ CancelAccepted(t) \/ CancelLost(t) \/ CancelFails(t)
         \/ \E due \in SUBSET Active : TimeoutScan(t, due)
         \/ TimeoutMark(t) \/ SweepNext(t)
  PROVE  ChainInv'
<1> DEFINE f == pc[t]
<1>1. TypeOK /\ f \in Frame /\ FrameSound(f) /\ KnowledgeHolds(f)
  BY DEF IInv, TypeOK, NobodyClaimsFalseEnd, ChainInv
<1>2. ASSUME NEW o \in Orders, CallCancel(t, o) PROVE ChainInv'
  <2>1. Quiet
    BY <1>2 DEF CallCancel, Quiet
  <2> DEFINE by == IF InTable(o) THEN "call" ELSE "remote"
  <2>2. /\ pc'[t] = [Idle EXCEPT !.at = "cancelCall", !.ord = o, !.by = by]
        /\ \A u \in Threads \ {t} : pc'[u] = pc[u]
    BY <1>1, <1>2, OneThreadMoves DEF CallCancel
  <2>3. row' = row /\ (by # "remote" => InTable(o))
    BY <2>1 DEF Quiet, stored
  <2> HIDE DEF by
  <2>4. pc'[t].at = "cancelCall" /\ pc'[t].ord = o /\ pc'[t].by = by /\ pc'[t].todo = {}
    BY <2>2 DEF Idle
  <2>5. FrameSound(pc[t])' /\ BarsHold(pc[t])'
    BY <2>3, <2>4 DEF FrameSound, BarsHold, CreateSteps, ReplaceSteps, Writes, InTable
  <2> QED
    BY <2>1, <2>2, <2>4, <2>5, QuietIsSteady, SteadyStep DEF Writes
<1>3. ASSUME Steady, CancelRaises(t) PROVE ChainInv'
  <2>1. CASE Return(t)
    BY <1>3, <2>1, SteadyReturn
  <2>2. CASE Goto(t, "sweep")
    <3>1. SameCall(t) /\ pc'[t].at = "sweep"
      BY <1>1, <2>2, GoesOn
    <3> QED
      BY <1>3, <3>1, SteadyAdvance
  <2> QED
    BY <1>3, <2>1, <2>2 DEF CancelRaises
<1>4. CASE CancelFails(t)
  <2>1. Quiet
    BY <1>4 DEF CancelFails, Quiet
  <2> QED
    BY <1>3, <1>4, <2>1, QuietIsSteady DEF CancelFails
<1>5. CASE CancelAccepted(t) \/ CancelLost(t)
  <2>1. /\ ExchangeCancels({f.ord}) /\ UNCHANGED <<stored, lineage, armed>>
        /\ f.at = "cancelCall" /\ exch[f.ord] = "live"
    BY <1>5 DEF CancelAccepted, CancelLost, At, history
  <2>2. f.ord \in Orders
    BY <1>1, <2>1 DEF KnowledgeHolds, Steps
  <2>3. Steady /\ exch'[f.ord] # "live"
    BY <2>1, <2>2, CancellingIsSteady
  <2>4. \A o \in Orders : lineage[o] = lineage[f.ord] => exch'[o] # "live"
    BY <2>1, <2>2, <2>3 DEF Steady, ChainInv, ChainSound
  <2>5. CASE Goto(t, "cancelPersist")
    <3>1. SameCall(t) /\ pc'[t].at = "cancelPersist"
      BY <1>1, <2>5, GoesOn
    <3>2. Dead(lineage[pc[t].ord])'
      BY <2>1, <2>4, <3>1 DEF Dead, SameCall
    <3> QED
      BY <2>1, <2>3, <3>1, <3>2, SteadyAdvance
  <2>6. CASE Return(t)
    BY <2>3, <2>6, SteadyReturn
  <2> QED
    BY <1>3, <1>5, <2>3, <2>5, <2>6 DEF CancelAccepted, CancelLost
<1>6. ASSUME NEW due \in SUBSET Active, TimeoutScan(t, due) PROVE ChainInv'
  <2>1. Quiet
    BY <1>6 DEF TimeoutScan, Quiet
  <2>2. /\ pc'[t] = [Idle EXCEPT !.at = "sweep", !.by = "timeout", !.todo = due]
        /\ \A u \in Threads \ {t} : pc'[u] = pc[u]
    BY <1>1, <1>6, OneThreadMoves DEF TimeoutScan
  <2>3. pc'[t].at = "sweep" /\ pc'[t].todo = due
    BY <2>2 DEF Idle
  <2>4. \A o \in due : o \in Orders /\ InTable(o)
    BY DEF Active, InTable
  <2>5. "sweep" \in Plain
    BY DEF Plain, Steps, CreateSteps, ReplaceSteps
  <2> QED
    BY <2>1, <2>2, <2>3, <2>4, <2>5, QuietIsSteady, SteadyPlain
<1>7. CASE TimeoutMark(t)
  <2>1. f.at = "timeoutMark" /\ f.ord \in Orders /\ InTable(f.ord)
    BY <1>1, <1>7 DEF TimeoutMark, At, FrameSound, KnowledgeHolds, Steps
  <2>2. row \in [Orders -> RowStates] /\ row' = [row EXCEPT ![f.ord] = "timed_out"]
    BY <1>1, <1>7 DEF TypeOK, TimeoutMark, UpdateStatus
  <2>3. \A o \in Orders : InTable(o)' <=> InTable(o)
    BY <2>1, <2>2 DEF InTable
  <2>4. UNCHANGED <<parent, adopted, lineage, armed, exch>>
    BY <1>7 DEF TimeoutMark, UpdateStatus, history
  <2>5. Steady
    BY <1>1, <2>3, <2>4, NothingMoves DEF Steady
  <2>6. SameCall(t) /\ pc'[t].at = "sweep"
    BY <1>1, <1>7, GoesOn DEF TimeoutMark
  <2> QED
    BY <2>5, <2>6, SteadyAdvance
<1>8. CASE SweepNext(t)
  <2>1. Quiet
    BY <1>8 DEF SweepNext, Quiet
  <2>2. CASE Return(t)
    BY <2>1, <2>2, QuietIsSteady, SteadyReturn
  <2>3. ASSUME NEW o \in f.todo,
               Enter(t, [pc[t] EXCEPT !.at = "cancelCall", !.ord = o, !.todo = @ \ {o}])
        PROVE  ChainInv'
    <3>1. /\ pc'[t] = [pc[t] EXCEPT !.at = "cancelCall", !.ord = o, !.todo = @ \ {o}]
          /\ \A u \in Threads \ {t} : pc'[u] = pc[u]
      BY <1>1, <2>3, OneThreadMoves
    <3>2. pc'[t].at = "cancelCall" /\ pc'[t].ord = o /\ pc'[t].todo = f.todo \ {o}
      BY <1>1, <3>1 DEF Frame
    <3>3. row' = row /\ \A m \in f.todo : m \in Orders /\ InTable(m)
      BY <1>1, <2>1 DEF Quiet, stored, FrameSound, Frame
    <3>4. FrameSound(pc[t])' /\ BarsHold(pc[t])'
      BY <3>2, <3>3 DEF FrameSound, BarsHold, CreateSteps, ReplaceSteps, Writes, InTable
    <3> QED
      BY <2>1, <3>1, <3>2, <3>4, QuietIsSteady, SteadyStep DEF Writes
  <2> QED
    BY <1>8, <2>2, <2>3 DEF SweepNext
<1> QED
  BY <1>2, <1>4, <1>5, <1>6, <1>7, <1>8

LEMMA SweepOnwardSteps ==
  ASSUME IInv, ChainInv, NEW t \in Threads,
         \/ SweepExchange(t) \/ SweepFails(t) \/ SweepList(t) \/ CallFlatten(t)
         \/ CancelAllOperator(t)
  PROVE  ChainInv'
<1> DEFINE f == pc[t]
<1>1. TypeOK /\ f \in Frame /\ FrameSound(f)
  BY DEF IInv, TypeOK, ChainInv
<1>2. ASSUME Steady, \/ Return(t)
                     \/ \E step \in {"sweep", "sweepList"} : Goto(t, step)
      PROVE  ChainInv'
  <2>1. CASE Return(t)
    BY <1>2, <2>1, SteadyReturn
  <2>2. ASSUME NEW step \in {"sweep", "sweepList"}, Goto(t, step) PROVE ChainInv'
    <3>1. SameCall(t) /\ pc'[t].at = step
      BY <1>1, <2>2, GoesOn
    <3> QED
      BY <1>2, <3>1, SteadyAdvance
  <2> QED
    BY <1>2, <2>1, <2>2
<1>3. CASE SweepExchange(t)
  <2>1. ExchangeCancels(Orders) /\ UNCHANGED <<stored, lineage, armed>>
    BY <1>3 DEF SweepExchange
  <2> QED
    BY <1>2, <1>3, <2>1, CancellingIsSteady DEF SweepExchange, SweepRaises
<1>4. CASE SweepFails(t)
  <2>1. Quiet
    BY <1>4 DEF SweepFails, Quiet
  <2> QED
    BY <1>2, <1>4, <2>1, QuietIsSteady DEF SweepFails, SweepRaises
<1>5. CASE SweepList(t)
  <2> DEFINE todo == {o \in Active : f.ord \in {Service, TradeRoot(o)}}
  <2>1. Quiet
    BY <1>5 DEF SweepList, Quiet
  <2>2. /\ pc'[t] = [pc[t] EXCEPT !.at = "sweep", !.todo = todo]
        /\ \A u \in Threads \ {t} : pc'[u] = pc[u]
    BY <1>1, <1>5, OneThreadMoves DEF SweepList
  <2>3. \A o \in todo : o \in Orders /\ InTable(o)
    BY DEF Active, InTable
  <2> HIDE DEF todo
  <2>4. pc'[t].at = "sweep" /\ pc'[t].todo = todo
    BY <1>1, <2>2 DEF Frame
  <2>5. "sweep" \in Plain
    BY DEF Plain, Steps, CreateSteps, ReplaceSteps
  <2> QED
    BY <2>1, <2>2, <2>3, <2>4, <2>5, QuietIsSteady, SteadyPlain
<1>6. CASE CallFlatten(t)
  <2>1. Quiet
    BY <1>6 DEF CallFlatten, Quiet
  <2>2. \A u \in Threads \ {t} : pc'[u] = pc[u]
    BY <1>1, <1>6, OneThreadMoves DEF CallFlatten
  <2>3. \/ pc'[t] = [Idle EXCEPT !.at = "sweepExchange", !.by = "flatten"]
        \/ \E root \in Orders :
             pc'[t] = [Idle EXCEPT !.at = "sweepList", !.by = "flatten", !.ord = root]
    BY <1>1, <1>6, OneThreadMoves DEF CallFlatten
  <2>4. pc'[t].at \in {"sweepExchange", "sweepList"} /\ pc'[t].todo = {}
    BY <2>3 DEF Idle
  <2>5. {"sweepExchange", "sweepList"} \subseteq Plain
    BY DEF Plain, Steps, CreateSteps, ReplaceSteps
  <2> QED
    BY <2>1, <2>2, <2>4, <2>5, QuietIsSteady, SteadyPlain
<1>7. CASE CancelAllOperator(t)
  <2>1. ExchangeCancels(Orders) /\ UNCHANGED <<stored, lineage, armed, pc>>
    BY <1>7 DEF CancelAllOperator, history
  <2> QED
    BY <2>1, CancellingIsSteady, SteadyStays
<1> QED
  BY <1>3, <1>4, <1>5, <1>6, <1>7

(* Without the upserts of query_order and of the WebSocket sync            *)
LEMMA QueryOnwardSteps ==
  ASSUME IInv, ChainInv, ~PartialRecordsBind
  PROVE  /\ \A t \in Threads : QueryStep(t) => ChainInv'
         /\ \A o \in Orders : HandleOrderEvent(o) \/ ExchangeFills(o) => ChainInv'
<1>1. TypeOK
  BY DEF IInv
<1>2. ASSUME NEW t \in Threads, NEW o \in Orders, CallQuery(t, o) PROVE ChainInv'
  <2>1. Quiet
    BY <1>2 DEF CallQuery, Quiet
  <2> DEFINE st == Reported(exch[o])
             by == IF InTable(o) THEN "call" ELSE "remote"
  <2>2. /\ pc'[t] = [Idle EXCEPT !.at = "queryPersist", !.ord = o, !.st = st, !.by = by]
        /\ \A u \in Threads \ {t} : pc'[u] = pc[u]
    BY <1>1, <1>2, OneThreadMoves DEF CallQuery
  <2> HIDE DEF st, by
  <2>3. pc'[t].at = "queryPersist" /\ pc'[t].todo = {}
    BY <2>2 DEF Idle
  <2>4. "queryPersist" \in Plain
    BY DEF Plain, Steps, CreateSteps, ReplaceSteps
  <2> QED
    BY <2>1, <2>2, <2>3, <2>4, QuietIsSteady, SteadyPlain
<1>3. ASSUME NEW t \in Threads, QueryPersist(t) PROVE ChainInv'
  <2>1. Quiet
    BY <1>3 DEF QueryPersist, Quiet
  <2> QED
    BY <1>3, <2>1, QuietIsSteady, SteadyReturn DEF QueryPersist
<1>4. ASSUME NEW o \in Orders, HandleOrderEvent(o) PROVE ChainInv'
  <2>1. UNCHANGED <<stored, lineage, armed, exch, pc>>
    BY <1>4 DEF HandleOrderEvent, history
  <2>2. Steady
    BY <1>1, <2>1, NothingMoves DEF Steady, stored, InTable
  <2> QED
    BY <2>1, <2>2, SteadyStays
<1>5. ASSUME NEW o \in Orders, ExchangeFills(o) PROVE ChainInv'
  <2>1. /\ UNCHANGED <<stored, lineage, armed, pc>> /\ exch[o] = "live"
        /\ exch' = [exch EXCEPT ![o] = "filled"] /\ exch \in [Orders -> ExchStates]
    BY <1>1, <1>5 DEF ExchangeFills, history, TypeOK
  <2>2. ExchangeMoves
    BY <2>1 DEF ExchangeMoves, ExchStates, Ended
  <2>3. Steady
    BY <2>1, <2>2 DEF Steady, stored, InTable
  <2> QED
    BY <2>1, <2>3, SteadyStays
<1> QED
  BY <1>2, <1>3, <1>4, <1>5 DEF QueryStep

(* A new order at the exchange begins its own chain.                       *)
LEMMA PlaceStep ==
  ASSUME IInv, ChainInv, NEW t \in Threads, PlaceAccepted(t)
  PROVE  ChainInv'
<1> DEFINE f == pc[t]
           o == f.ord
<1>1. /\ TypeOK /\ f \in Frame /\ FrameSound(f) /\ f.at = "place"
      /\ exch \in [Orders -> ExchStates] /\ ChainSound /\ SwitchesNamed
  BY DEF IInv, TypeOK, ChainInv, PlaceAccepted, At
<1>2. o \in Roots /\ o \in Orders /\ exch[o] = "none" /\ exch' = [exch EXCEPT ![o] = "live"]
  BY <1>1 DEF FrameSound, CreateSteps, Orders, PlaceAccepted
<1>3. UNCHANGED <<row, parent, adopted, lineage, armed>>
  BY DEF PlaceAccepted, stored, history
<1>4. \A x \in Orders : exch'[x] = IF x = o THEN "live" ELSE exch[x]
  BY <1>1, <1>2
<1>5. ExchangeMoves
  BY <1>1, <1>2 DEF ExchangeMoves, ExchStates, Ended
<1>6. ASSUME NEW x \in Orders, exch[x] # "none" PROVE lineage[x] # o
  <2>1. CASE x \in Roots
    BY <1>1, <1>2, <1>6, <2>1 DEF ChainSound
  <2>2. CASE x \in Replacements
    BY <1>1, <1>2, <1>6, <2>2 DEF ChainSound
  <2> QED
    BY <2>1, <2>2 DEF Orders
<1>7. \A x \in Orders : Ended(x) /\ Dead(lineage[x]) => Ended(x)' /\ Dead(lineage[x])'
  <2> SUFFICES ASSUME NEW x \in Orders, Ended(x), Dead(lineage[x]), NEW y \in Orders,
                      lineage[y] = lineage[x]
               PROVE  exch'[y] # "live"
    BY <1>3, <1>5 DEF Dead, ExchangeMoves
  <2>1. lineage[x] # o /\ lineage[o] = o
    BY <1>1, <1>2, <1>6 DEF Ended, ChainSound
  <2> QED
    BY <1>4, <2>1 DEF Dead
<1>8. Onward
  BY <1>3, <1>5, <1>7 DEF Onward, InTable, Known
<1>9. adopted \subseteq Orders /\ o \notin Replacements
  BY <1>1, <1>2, OrderAssumption DEF TypeOK
<1>10. ChainSound'
  <2>1. KnownReplacements' = KnownReplacements
    BY <1>3 DEF KnownReplacements, Known, InTable
  <2>2. /\ \A x \in Roots : lineage'[x] = x /\ parent'[x] = Service
        /\ \A x \in Orders : parent'[x] # Service => x \in KnownReplacements'
        /\ \A n \in KnownReplacements' :
             parent'[n] \in Orders /\ Known(parent[n])' /\ lineage'[parent'[n]] = lineage'[n]
        /\ \A set \in SUBSET KnownReplacements' : set # {} => \E n \in set : parent'[n] \notin set
    BY <1>1, <1>3, <2>1 DEF ChainSound, Known, InTable
  <2>3. \A n \in Replacements : InTable(n)' => exch'[n] # "none"
    BY <1>1, <1>3, <1>4 DEF ChainSound, InTable, Orders
  <2>4. \A n \in Replacements :
          exch'[n] # "none" => /\ lineage'[n] \in Roots /\ Known(lineage[n])'
                               /\ exch'[lineage'[n]] # "none"
    <3>1. \A n \in Replacements : exch'[n] = exch[n]
      BY <1>4, <1>9 DEF Orders
    <3> QED
      BY <1>1, <1>3, <1>4, <3>1 DEF ChainSound, Known, InTable, Orders
  <2>5. \A x \in adopted' : InTable(x)' /\ Ended(x)' /\ Dead(lineage[x])'
    BY <1>1, <1>3, <1>7, <1>9 DEF ChainSound, InTable
  <2>6. \A m, n \in Orders :
          lineage'[m] = lineage'[n] /\ exch'[m] = "live" /\ exch'[n] = "live" => m = n
    <3>1. lineage[o] = o
      BY <1>1, <1>2 DEF ChainSound
    <3> QED
      BY <1>1, <1>3, <1>4, <1>6, <3>1 DEF ChainSound
  <2> QED
    BY <2>2, <2>3, <2>4, <2>5, <2>6 DEF ChainSound
<1>11. SwitchesNamed'
  BY <1>1, <1>3 DEF SwitchesNamed, Known, InTable
<1>12. PICK st : Enter(t, [pc[t] EXCEPT !.at = "placed", !.st = st])
  BY DEF PlaceAccepted
<1>13. SameCall(t) /\ pc'[t].at = "placed"
  BY <1>1, <1>12, GoesOn
<1>14. f.todo \subseteq Orders
  BY <1>1 DEF Frame
<1>15. FrameSound(pc[t])' /\ BarsHold(pc[t])' /\ ~Writes(pc'[t])
  BY <1>1, <1>2, <1>3, <1>13, <1>14
     DEF FrameSound, BarsHold, SameCall, CreateSteps, ReplaceSteps, Writes, InTable
<1>16. \A u \in Threads \ {t} : pc'[u] = pc[u] /\ (Writes(pc[u]) => ~Known(pc[u].new)')
  BY <1>3, <1>13 DEF SameCall, ChainInv, FrameSound, Known, InTable
<1> QED
  BY <1>8, <1>10, <1>11, <1>15, <1>16, ChainStep

(* A replacement takes the place of the one live order of its chain.       *)
LEMMA ModifyStep ==
  ASSUME IInv, ChainInv, NEW t \in Threads, ModifyAccepted(t) \/ ModifyLost(t)
  PROVE  ChainInv'
<1> DEFINE f == pc[t]
           o == f.ord
           n == f.new
<1>1. /\ TypeOK /\ f \in Frame /\ FrameSound(f) /\ f.at = "modify" /\ KnowledgeHolds(f)
      /\ exch \in [Orders -> ExchStates] /\ lineage \in [Orders -> Orders]
      /\ ChainSound /\ SwitchesNamed
  BY DEF IInv, TypeOK, NobodyClaimsFalseEnd, ChainInv, ModifyAccepted, ModifyLost, At
<1>2. o \in Orders /\ n \in Replacements /\ n \in Orders /\ InTable(o)
  BY <1>1 DEF FrameSound, ReplaceSteps, Orders
<1>3. /\ ExchangeModifies(o, n) /\ exch[o] = "live" /\ exch[n] = "none"
      /\ exch' = [exch EXCEPT ![o] = "canceled", ![n] = "live"]
      /\ lineage' = [lineage EXCEPT ![n] = lineage[o]]
      /\ UNCHANGED <<row, parent, adopted, armed>>
  BY DEF ModifyAccepted, ModifyLost, ExchangeModifies, stored
<1> HIDE DEF o, n
<1>4. o # n /\ n \notin Roots /\ ~InTable(n) /\ Known(o)
  BY <1>1, <1>2, <1>3, OrderAssumption DEF ChainSound, Ended, Known
<1>5. ExchangeMoves
  BY <1>2, <1>3, ModifyMoves
<1>6. \A x \in Orders : /\ exch'[x] = IF x = n THEN "live" ELSE IF x = o THEN "canceled" ELSE exch[x]
                        /\ lineage'[x] = IF x = n THEN lineage[o] ELSE lineage[x]
  BY <1>1, <1>2, <1>3, <1>4
<1>7. \A x \in Orders : Ended(x) /\ Dead(lineage[x]) => Ended(x)' /\ Dead(lineage[x])'
  <2> SUFFICES ASSUME NEW x \in Orders, Ended(x), Dead(lineage[x]), NEW y \in Orders,
                      lineage'[y] = lineage'[x]
               PROVE  exch'[y] # "live"
    BY <1>5 DEF Dead, ExchangeMoves
  <2>1. lineage'[x] = lineage[x] /\ lineage[x] # lineage[o]
    BY <1>2, <1>3, <1>6 DEF Ended, Dead
  <2> QED
    BY <1>2, <1>6, <2>1 DEF Dead
<1>8. Onward
  BY <1>3, <1>4, <1>5, <1>6, <1>7 DEF Onward, InTable, Known
<1>9. adopted \subseteq Orders
  BY <1>1 DEF TypeOK
<1>10. ChainSound'
  <2>1. KnownReplacements' = KnownReplacements /\ n \notin KnownReplacements
    BY <1>3, <1>4 DEF KnownReplacements, Known, InTable
  <2>2. /\ \A x \in Roots : lineage'[x] = x /\ parent'[x] = Service
        /\ \A x \in Orders : parent'[x] # Service => x \in KnownReplacements'
        /\ \A set \in SUBSET KnownReplacements' : set # {} => \E m \in set : parent'[m] \notin set
    BY <1>1, <1>3, <1>4, <1>6, <2>1 DEF ChainSound, Orders
  <2>3. \A m \in KnownReplacements' :
             parent'[m] \in Orders /\ Known(parent[m])' /\ lineage'[parent'[m]] = lineage'[m]
    <3> SUFFICES ASSUME NEW m \in KnownReplacements
                 PROVE  /\ parent[m] \in Orders /\ row'[parent[m]] # "absent"
                        /\ parent[m] \notin adopted' /\ lineage'[parent[m]] = lineage'[m]
      BY <1>3, <2>1 DEF Known, InTable
    <3>1. parent[m] \in Orders /\ Known(parent[m]) /\ lineage[parent[m]] = lineage[m]
      BY <1>1 DEF ChainSound
    <3>2. m # n /\ parent[m] # n /\ m \in Orders
      BY <1>4, <2>1, <3>1 DEF Known, KnownReplacements, Orders
    <3> QED
      BY <1>3, <1>6, <3>1, <3>2 DEF Known, InTable
  <2>4. \A m \in Replacements : InTable(m)' => exch'[m] # "none"
    BY <1>1, <1>3, <1>6 DEF ChainSound, InTable, Orders
  <2>5. \A m \in Replacements :
          exch'[m] # "none" => /\ lineage'[m] \in Roots /\ Known(lineage[m])'
                               /\ exch'[lineage'[m]] # "none"
    <3>1. lineage[o] \in Roots /\ Known(lineage[o]) /\ exch[lineage[o]] # "none"
      BY <1>1, <1>2, <1>3, <1>4 DEF ChainSound, Orders
    <3> SUFFICES ASSUME NEW m \in Replacements, exch'[m] # "none"
                 PROVE  /\ lineage'[m] \in Roots /\ row'[lineage'[m]] # "absent"
                        /\ lineage'[m] \notin adopted' /\ exch'[lineage'[m]] # "none"
      BY DEF Known, InTable
    <3>2. \A root \in Roots :
            /\ Known(root) => row'[root] # "absent" /\ root \notin adopted'
            /\ exch[root] # "none" => exch'[root] # "none"
      BY <1>3, <1>5 DEF Known, InTable, ExchangeMoves, Orders
    <3>3. CASE m = n
      <4>1. lineage'[m] = lineage[o]
        BY <1>2, <1>6, <3>3
      <4> QED
        BY <3>1, <3>2, <4>1
    <3>4. CASE m # n
      <4>1. exch[m] # "none" /\ lineage'[m] = lineage[m]
        BY <1>3, <1>6, <3>4 DEF Orders
      <4>2. lineage[m] \in Roots /\ Known(lineage[m]) /\ exch[lineage[m]] # "none"
        BY <1>1, <4>1 DEF ChainSound
      <4> QED
        BY <3>2, <4>1, <4>2
    <3> QED
      BY <3>3, <3>4
  <2>6. \A x \in adopted' : InTable(x)' /\ Ended(x)' /\ Dead(lineage[x])'
    BY <1>1, <1>3, <1>7, <1>9 DEF ChainSound, InTable
  <2>7. \A m, l \in Orders :
          lineage'[m] = lineage'[l] /\ exch'[m] = "live" /\ exch'[l] = "live" => m = l
    BY <1>1, <1>2, <1>3, <1>6 DEF ChainSound
  <2> QED
    BY <2>2, <2>3, <2>4, <2>5, <2>6, <2>7 DEF ChainSound
<1>11. SwitchesNamed'
  BY <1>1, <1>3 DEF SwitchesNamed, Known, InTable
<1>12. \A u \in Threads : Writes(pc[u]) => ~Known(pc[u].new) /\ pc[u].new # n
  BY <1>3 DEF ChainInv, FrameSound, Writes, IInv, NobodyClaimsFalseEnd, KnowledgeHolds
<1>13. ASSUME \A u \in Threads \ {t} : pc'[u] = pc[u], FrameSound(pc[t])', BarsHold(pc[t])',
              Writes(pc'[t]) => pc'[t].new = n
       PROVE  ChainInv'
  <2>1. \A u \in Threads \ {t} : Writes(pc[u]) => ~Known(pc[u].new)'
    BY <1>3, <1>12, <1>13 DEF Known, InTable
  <2> QED
    BY <1>8, <1>10, <1>11, <1>12, <1>13, <2>1, ChainStep
<1>14. CASE Return(t)
  <2>1. pc'[t] = Idle /\ \A u \in Threads \ {t} : pc'[u] = pc[u]
    BY <1>1, <1>14, OneThreadMoves DEF Return
  <2>2. pc'[t].at = "idle" /\ pc'[t].todo = {}
    BY <2>1 DEF Idle
  <2> QED
    BY <1>13, <2>1, <2>2 DEF FrameSound, BarsHold, CreateSteps, ReplaceSteps, Writes
<1>15. CASE Goto(t, "modified")
  <2>1. SameCall(t) /\ pc'[t].at = "modified"
    BY <1>1, <1>15, GoesOn
  <2>2. pc'[t].ord = o /\ pc'[t].new = n /\ pc'[t].todo = f.todo
    BY <2>1 DEF SameCall, o, n
  <2>3. lineage'[n] = lineage'[o]
    BY <1>2, <1>4, <1>6
  <2>4. \A x \in f.todo : InTable(x)
    BY <1>1 DEF FrameSound
  <2>5. FrameSound(pc[t])'
    BY <1>2, <1>3, <1>4, <2>1, <2>2, <2>3, <2>4
       DEF FrameSound, CreateSteps, ReplaceSteps, Writes, Known, InTable
  <2> QED
    BY <1>13, <2>1, <2>2, <2>5 DEF SameCall, BarsHold
<1> QED
  BY <1>14, <1>15 DEF ModifyAccepted, ModifyLost

(* The row of a root                                                       *)
LEMMA PersistStep ==
  ASSUME IInv, ChainInv, NEW t \in Threads, CreatePersist(t)
  PROVE  ChainInv'
<1> DEFINE f == pc[t]
           o == f.ord
<1>1. /\ TypeOK /\ f \in Frame /\ FrameSound(f) /\ f.at = "createPersist"
      /\ ChainSound /\ SwitchesNamed
  BY DEF IInv, TypeOK, ChainInv, CreatePersist, At
<1>2. o \in Roots /\ o \in Orders /\ o \notin Replacements /\ f.st # "absent"
  BY <1>1, OrderAssumption DEF FrameSound, CreateSteps, Orders
<1>3. UNCHANGED <<exch, lineage, armed>> /\ Return(t)
  BY DEF CreatePersist, Upsert, history
<1>4. ExchangeMoves
  BY <1>1, <1>3, NothingMoves
<1>5. CASE o \in adopted
  <2>1. Steady
    BY <1>3, <1>4, <1>5 DEF CreatePersist, Upsert, stored, Steady, InTable
  <2> QED
    BY <1>3, <2>1, SteadyReturn
<1>6. CASE o \notin adopted
  <2>1. /\ row' = [row EXCEPT ![o] = f.st] /\ row \in [Orders -> RowStates]
        /\ parent' = [parent EXCEPT ![o] = Service] /\ parent \in [Orders -> Scopes]
        /\ adopted' = adopted
    BY <1>1, <1>6 DEF CreatePersist, Upsert, TypeOK
  <2>2. parent' = parent
    <3>1. parent[o] = Service
      BY <1>1, <1>2 DEF ChainSound
    <3> QED
      BY <1>2, <2>1, <3>1
  <2>3. \A x \in Orders : row'[x] = IF x = o THEN f.st ELSE row[x]
    BY <1>2, <2>1
  <2> HIDE DEF o
  <2>4. \A x \in Orders : /\ InTable(x) => row'[x] # "absent"
                          /\ x # o => row'[x] = row[x]
    BY <1>2, <2>3 DEF InTable
  <2>5. Onward
    BY <1>3, <1>4, <2>1, <2>4 DEF Onward, InTable, Known, Dead
  <2>6. KnownReplacements' = KnownReplacements
    BY <1>2, <2>1, <2>4 DEF KnownReplacements, Known, InTable, Orders
  <2>7. ChainSound'
    <3>1. /\ \A x \in Roots : lineage'[x] = x /\ parent'[x] = Service
          /\ \A x \in Orders : parent'[x] # Service => x \in KnownReplacements'
          /\ \A set \in SUBSET KnownReplacements' : set # {} => \E m \in set : parent'[m] \notin set
      BY <1>1, <1>3, <2>2, <2>6 DEF ChainSound
    <3>2. \A m \in KnownReplacements' :
            parent'[m] \in Orders /\ Known(parent[m])' /\ lineage'[parent'[m]] = lineage'[m]
      BY <1>1, <1>3, <2>1, <2>2, <2>4, <2>6 DEF ChainSound, Known, InTable
    <3>3. \A m \in Replacements : InTable(m)' => exch'[m] # "none"
      BY <1>1, <1>2, <1>3, <2>4 DEF ChainSound, InTable, Orders
    <3>4. \A m \in Replacements :
            exch'[m] # "none" => /\ lineage'[m] \in Roots /\ Known(lineage[m])'
                                 /\ exch'[lineage'[m]] # "none"
      BY <1>1, <1>3, <2>1, <2>4 DEF ChainSound, Known, InTable, Orders
    <3>5. \A x \in adopted' : InTable(x)' /\ Ended(x)' /\ Dead(lineage[x])'
      <4>1. adopted \subseteq Orders
        BY <1>1 DEF TypeOK
      <4> QED
        BY <1>1, <1>3, <2>1, <2>4, <4>1 DEF ChainSound, InTable, Ended, Dead
    <3>6. \A m, n \in Orders :
            lineage'[m] = lineage'[n] /\ exch'[m] = "live" /\ exch'[n] = "live" => m = n
      BY <1>1, <1>3 DEF ChainSound
    <3> QED
      BY <3>1, <3>2, <3>3, <3>4, <3>5, <3>6 DEF ChainSound
  <2>8. SwitchesNamed'
    BY <1>1, <1>3, <2>1, <2>4 DEF SwitchesNamed, Known, InTable, Orders
  <2>9. pc'[t] = Idle /\ \A u \in Threads \ {t} : pc'[u] = pc[u]
    BY <1>1, <1>3, OneThreadMoves DEF Return
  <2>10. FrameSound(pc[t])' /\ BarsHold(pc[t])' /\ ~Writes(pc'[t])
    <3>1. pc'[t].at = "idle" /\ pc'[t].todo = {}
      BY <2>9 DEF Idle
    <3> QED
      BY <3>1 DEF FrameSound, BarsHold, CreateSteps, ReplaceSteps, Writes
  <2>11. \A u \in Threads : Writes(pc[u]) => ~Known(pc[u].new) /\ pc[u].new \in Replacements
    BY DEF ChainInv, FrameSound, Writes, ReplaceSteps
  <2>12. \A u \in Threads \ {t} : Writes(pc[u]) => ~Known(pc[u].new)'
    BY <1>2, <2>1, <2>4, <2>9, <2>11 DEF Known, InTable, Orders
  <2> QED
    BY <2>5, <2>7, <2>8, <2>9, <2>10, <2>12, ChainStep
<1> QED
  BY <1>5, <1>6

(* The row of a replacement hangs a new leaf on its parent's.              *)
LEMMA ReplaceNewStep ==
  ASSUME IInv, ChainInv, NEW t \in Threads, ReplaceNew(t)
  PROVE  ChainInv'
<1> DEFINE f == pc[t]
           o == f.ord
           n == f.new
<1>1. /\ TypeOK /\ f \in Frame /\ FrameSound(f) /\ f.at = "replaceNew" /\ KnowledgeHolds(f)
      /\ ChainSound /\ SwitchesNamed
  BY DEF IInv, TypeOK, NobodyClaimsFalseEnd, ChainInv, ReplaceNew, At
<1>2. /\ o \in Orders /\ n \in Replacements /\ n \in Orders /\ Known(o) /\ ~Known(n)
      /\ lineage[n] = lineage[o] /\ f.st # "absent" /\ exch[n] # "none"
  BY <1>1 DEF FrameSound, ReplaceSteps, Writes, Orders, KnowledgeHolds
<1>3. UNCHANGED <<exch, lineage, armed>> /\ Return(t)
  BY DEF ReplaceNew, Upsert, history
<1>4. ExchangeMoves
  BY <1>1, <1>3, NothingMoves
<1>5. CASE n \in adopted
  <2>1. Steady
    BY <1>3, <1>4, <1>5 DEF ReplaceNew, Upsert, stored, Steady, InTable
  <2> QED
    BY <1>3, <2>1, SteadyReturn
<1>6. CASE n \notin adopted
  <2>1. /\ row' = [row EXCEPT ![n] = f.st] /\ row \in [Orders -> RowStates]
        /\ parent' = [parent EXCEPT ![n] = o] /\ parent \in [Orders -> Scopes]
        /\ adopted' = adopted
    BY <1>1, <1>6 DEF ReplaceNew, Upsert, TypeOK
  <2>2. /\ \A x \in Orders : /\ x # n => row'[x] = row[x] /\ parent'[x] = parent[x]
                             /\ InTable(x) => row'[x] # "absent"
        /\ parent'[n] = o /\ row'[n] # "absent" /\ ~InTable(n) /\ o # n /\ n \notin Roots
    BY <1>2, <1>6, <2>1, OrderAssumption DEF InTable, Known
  <2> HIDE DEF o, n
  <2>3. Onward
    BY <1>2, <1>3, <1>4, <2>1, <2>2 DEF Onward, InTable, Known, Dead
  <2>4. KnownReplacements' = KnownReplacements \cup {n} /\ n \notin KnownReplacements
    BY <1>2, <1>6, <2>1, <2>2 DEF KnownReplacements, Known, InTable, Orders
  <2>5. \A m \in KnownReplacements : /\ m \in Orders /\ m # n /\ parent'[m] = parent[m]
                                     /\ parent[m] \in Orders /\ Known(parent[m])
                                     /\ parent[m] # n /\ lineage[parent[m]] = lineage[m]
    BY <1>1, <1>2, <2>2, <2>4 DEF ChainSound, KnownReplacements, Orders
  <2>6. ChainSound'
    <3>1. /\ \A x \in Roots : lineage'[x] = x /\ parent'[x] = Service
          /\ \A x \in Orders : parent'[x] # Service => x \in KnownReplacements'
      BY <1>1, <1>3, <2>2, <2>4 DEF ChainSound, Orders
    <3>2. \A m \in KnownReplacements' :
            parent'[m] \in Orders /\ Known(parent[m])' /\ lineage'[parent'[m]] = lineage'[m]
      <4> SUFFICES ASSUME NEW m \in KnownReplacements \cup {n}
                   PROVE  /\ parent'[m] \in Orders /\ row'[parent'[m]] # "absent"
                          /\ parent'[m] \notin adopted' /\ lineage[parent'[m]] = lineage[m]
        BY <1>3, <2>4 DEF Known, InTable
      <4>1. CASE m = n
        BY <1>2, <2>1, <2>2, <4>1 DEF Known, InTable
      <4>2. CASE m \in KnownReplacements
        BY <2>1, <2>2, <2>5, <4>2 DEF Known
      <4> QED
        BY <4>1, <4>2
    <3>3. \A set \in SUBSET KnownReplacements' : set # {} => \E m \in set : parent'[m] \notin set
      <4> SUFFICES ASSUME NEW set \in SUBSET (KnownReplacements \cup {n}), set # {}
                   PROVE  \E m \in set : parent'[m] \notin set
        BY <2>4
      <4> DEFINE rest == set \ {n}
      <4>1. CASE rest = {}
        BY <2>2, <4>1
      <4>2. CASE rest # {}
        <5>1. rest \in SUBSET KnownReplacements
          OBVIOUS
        <5> PICK m \in rest : parent[m] \notin rest
          BY <1>1, <4>2, <5>1 DEF ChainSound
        <5> QED
          BY <2>5, <5>1
      <4> QED
        BY <4>1, <4>2
    <3>4. \A m \in Replacements : InTable(m)' => exch'[m] # "none"
      BY <1>1, <1>2, <1>3, <2>2 DEF ChainSound, InTable, Orders
    <3>5. \A m \in Replacements :
            exch'[m] # "none" => /\ lineage'[m] \in Roots /\ Known(lineage[m])'
                                 /\ exch'[lineage'[m]] # "none"
      BY <1>1, <1>3, <2>1, <2>2 DEF ChainSound, Known, InTable, Orders
    <3>6. \A x \in adopted' : InTable(x)' /\ Ended(x)' /\ Dead(lineage[x])'
      <4>1. adopted \subseteq Orders
        BY <1>1 DEF TypeOK
      <4> QED
        BY <1>1, <1>3, <2>1, <2>2, <4>1 DEF ChainSound, InTable, Ended, Dead
    <3>7. \A l, m \in Orders :
            lineage'[l] = lineage'[m] /\ exch'[l] = "live" /\ exch'[m] = "live" => l = m
      BY <1>1, <1>3 DEF ChainSound
    <3> QED
      BY <3>1, <3>2, <3>3, <3>4, <3>5, <3>6, <3>7 DEF ChainSound
  <2>7. SwitchesNamed'
    BY <1>1, <1>3, <2>1, <2>2 DEF SwitchesNamed, Known, InTable, Orders
  <2>8. pc'[t] = Idle /\ \A u \in Threads \ {t} : pc'[u] = pc[u]
    BY <1>1, <1>3, OneThreadMoves DEF Return
  <2>9. FrameSound(pc[t])' /\ BarsHold(pc[t])' /\ ~Writes(pc'[t])
    <3>1. pc'[t].at = "idle" /\ pc'[t].todo = {}
      BY <2>8 DEF Idle
    <3> QED
      BY <3>1 DEF FrameSound, BarsHold, CreateSteps, ReplaceSteps, Writes
  <2>10. \A u \in Threads \ {t} :
           Writes(pc[u]) => ~Known(pc[u].new) /\ pc[u].new \in Orders /\ pc[u].new # n
    BY <1>1 DEF ChainInv, FrameSound, Writes, ReplaceSteps, n, Orders
  <2>11. \A u \in Threads \ {t} : Writes(pc[u]) => ~Known(pc[u].new)'
    BY <2>1, <2>2, <2>8, <2>10 DEF Known, InTable
  <2> QED
    BY <2>3, <2>6, <2>7, <2>8, <2>9, <2>11, ChainStep
<1> QED
  BY <1>5, <1>6

(* A row adopted by a cancel is of an order that ended, and its chain with *)
(* it.                                                                     *)
LEMMA AdoptStep ==
  ASSUME IInv, ChainInv, NEW t \in Threads, CancelPersist(t)
  PROVE  ChainInv'
<1> DEFINE f == pc[t]
           o == f.ord
<1>1. /\ TypeOK /\ f \in Frame /\ FrameSound(f) /\ f.at = "cancelPersist" /\ KnowledgeHolds(f)
      /\ ChainSound /\ SwitchesNamed
  BY DEF IInv, TypeOK, NobodyClaimsFalseEnd, ChainInv, CancelPersist, At
<1>2. o \in Orders /\ Ended(o) /\ Dead(lineage[o]) /\ exch[o] # "none"
  BY <1>1 DEF KnowledgeHolds, Steps, FrameSound, Ended
<1>3. UNCHANGED <<exch, lineage, armed>>
  BY DEF CancelPersist, history
<1>4. ExchangeMoves
  BY <1>1, <1>3, NothingMoves
<1>5. row \in [Orders -> RowStates]
  BY <1>1 DEF TypeOK
<1>6. CASE f.by # "remote"
  <2>1. InTable(o) /\ UpdateStatus(o, "canceled")
    BY <1>1, <1>6 DEF FrameSound, CancelPersist
  <2>2. Steady
    BY <1>2, <1>3, <1>4, <1>5, <2>1 DEF Steady, UpdateStatus, InTable
  <2>3. CASE Return(t)
    BY <2>2, <2>3, SteadyReturn
  <2>4. ASSUME \/ Goto(t, "sweep")
               \/ f.by = "timeout" /\ Goto(t, "timeoutMark")
        PROVE  ChainInv'
    <3>1. SameCall(t) /\ (pc'[t].at = "sweep" \/ (pc'[t].at = "timeoutMark" /\ f.by = "timeout"))
      BY <1>1, <2>4, GoesOn
    <3> QED
      BY <1>1, <2>2, <3>1, SteadyAdvance
  <2>5. f.by \in {"call", "safety", "flatten", "timeout"}
    BY <1>1, <1>6 DEF Frame, Purposes
  <2>6. \/ Return(t)
        \/ Goto(t, "sweep")
        \/ f.by = "timeout" /\ Goto(t, "timeoutMark")
    <3>1. CASE f.by = "call"
      BY <3>1 DEF CancelPersist
    <3>2. CASE f.by \in {"safety", "flatten"}
      BY <3>2 DEF CancelPersist
    <3>3. CASE f.by = "timeout"
      BY <3>3 DEF CancelPersist
    <3> QED
      BY <2>5, <3>1, <3>2, <3>3
  <2> QED
    BY <2>3, <2>4, <2>6
<1>7. CASE f.by = "remote" /\ InTable(o)
  <2>1. Return(t) /\ UNCHANGED stored
    BY <1>7 DEF CancelPersist, Adopt
  <2>2. Steady
    BY <1>3, <1>4, <2>1 DEF Steady, stored, InTable
  <2> QED
    BY <2>1, <2>2, SteadyReturn
<1>8. CASE f.by = "remote" /\ ~InTable(o)
  <2>1. /\ Return(t) /\ row' = [row EXCEPT ![o] = "canceled"]
        /\ adopted' = adopted \cup {o} /\ parent' = parent
    BY <1>8 DEF CancelPersist, Adopt
  <2>2. /\ \A x \in Orders : /\ x # o => row'[x] = row[x]
                             /\ InTable(x) => row'[x] # "absent"
        /\ row'[o] # "absent"
    BY <1>2, <1>5, <2>1 DEF InTable
  <2>3. \A x \in Orders : Known(x)' <=> Known(x)
    BY <1>8, <2>1, <2>2 DEF Known, InTable
  <2> HIDE DEF o
  <2>4. Onward
    BY <1>3, <1>4, <2>1, <2>2, <2>3 DEF Onward, InTable, Dead
  <2>5. KnownReplacements' = KnownReplacements
    BY <2>3 DEF KnownReplacements, Orders
  <2>6. ChainSound'
    <3>1. /\ \A x \in Roots : lineage'[x] = x /\ parent'[x] = Service
          /\ \A x \in Orders : parent'[x] # Service => x \in KnownReplacements'
          /\ \A set \in SUBSET KnownReplacements' : set # {} => \E m \in set : parent'[m] \notin set
      BY <1>1, <1>3, <2>1, <2>5 DEF ChainSound
    <3>2. \A m \in KnownReplacements' :
            parent'[m] \in Orders /\ Known(parent[m])' /\ lineage'[parent'[m]] = lineage'[m]
      <4> SUFFICES ASSUME NEW m \in KnownReplacements
                   PROVE  /\ parent[m] \in Orders /\ row'[parent[m]] # "absent"
                          /\ parent[m] \notin adopted' /\ lineage[parent[m]] = lineage[m]
        BY <1>3, <2>1, <2>5 DEF Known, InTable
      <4>1. parent[m] \in Orders /\ Known(parent[m]) /\ lineage[parent[m]] = lineage[m]
        BY <1>1 DEF ChainSound
      <4> QED
        BY <1>8, <2>1, <2>2, <4>1 DEF Known, InTable, o
    <3>3. \A m \in Replacements : InTable(m)' => exch'[m] # "none"
      BY <1>1, <1>2, <1>3, <2>2 DEF ChainSound, InTable, Orders
    <3>4. \A m \in Replacements :
            exch'[m] # "none" => /\ lineage'[m] \in Roots /\ Known(lineage[m])'
                                 /\ exch'[lineage'[m]] # "none"
      <4> SUFFICES ASSUME NEW m \in Replacements, exch[m] # "none"
                   PROVE  /\ lineage[m] \in Roots /\ row'[lineage[m]] # "absent"
                          /\ lineage[m] \notin adopted' /\ exch[lineage[m]] # "none"
        BY <1>3 DEF Known, InTable
      <4>1. /\ lineage[m] \in Roots /\ lineage[m] \in Orders /\ Known(lineage[m])
            /\ exch[lineage[m]] # "none"
        BY <1>1 DEF ChainSound, Orders
      <4> QED
        BY <1>8, <2>1, <2>2, <4>1 DEF Known, InTable, o
    <3>5. \A x \in adopted' : InTable(x)' /\ Ended(x)' /\ Dead(lineage[x])'
      <4>1. adopted \subseteq Orders
        BY <1>1 DEF TypeOK
      <4> QED
        BY <1>1, <1>2, <1>3, <2>1, <2>2, <4>1 DEF ChainSound, InTable, Ended, Dead
    <3>6. \A l, m \in Orders :
            lineage'[l] = lineage'[m] /\ exch'[l] = "live" /\ exch'[m] = "live" => l = m
      BY <1>1, <1>3 DEF ChainSound
    <3> QED
      BY <3>1, <3>2, <3>3, <3>4, <3>5, <3>6 DEF ChainSound
  <2>7. SwitchesNamed'
    <3> SUFFICES ASSUME NEW s \in armed
                 PROVE  \/ s = Service \/ s \in adopted'
                        \/ s \in Roots /\ row'[s] # "absent" /\ s \notin adopted'
      BY <1>3 DEF SwitchesNamed, Known, InTable
    <3> QED
      BY <1>1, <2>1, <2>2 DEF SwitchesNamed, Known, InTable, Orders
  <2>8. pc'[t] = Idle /\ \A u \in Threads \ {t} : pc'[u] = pc[u]
    BY <1>1, <2>1, OneThreadMoves DEF Return
  <2>9. FrameSound(pc[t])' /\ BarsHold(pc[t])' /\ ~Writes(pc'[t])
    <3>1. pc'[t].at = "idle" /\ pc'[t].todo = {}
      BY <2>8 DEF Idle
    <3> QED
      BY <3>1 DEF FrameSound, BarsHold, CreateSteps, ReplaceSteps, Writes
  <2>10. \A u \in Threads : Writes(pc[u]) => ~Known(pc[u].new) /\ pc[u].new \in Orders
    BY DEF ChainInv, FrameSound, Writes, ReplaceSteps, Orders
  <2>11. \A u \in Threads \ {t} : Writes(pc[u]) => ~Known(pc[u].new)'
    <3>1. \A x \in Orders : ~Known(x) => ~(row'[x] # "absent" /\ x \notin adopted')
      BY <2>3 DEF Known, InTable
    <3> QED
      BY <2>8, <2>10, <3>1 DEF Known, InTable
  <2> QED
    BY <2>4, <2>6, <2>7, <2>8, <2>9, <2>11, ChainStep
<1> QED
  BY <1>6, <1>7, <1>8

LEMMA SwitchChainSteps ==
  ASSUME IInv, ChainInv, NEW t \in Threads,
         \/ ArmService(t) \/ \E o \in Orders : ArmTrade(t, o)
         \/ \E s \in Scopes : ReleaseSwitch(t, s)
  PROVE  ChainInv'
<1>1. TypeOK /\ ChainSound /\ SwitchesNamed /\ ExchangeMoves
  <2>1. UNCHANGED exch
    BY DEF ArmService, ArmTrade, ReleaseSwitch
  <2> QED
    BY <2>1, NothingMoves DEF IInv, ChainInv
<1>2. UNCHANGED <<row, parent, adopted, exch, lineage>>
  BY DEF ArmService, ArmTrade, ReleaseSwitch, stored, history
<1>3. ChainSound'
  <2>1. KnownReplacements' = KnownReplacements
    BY <1>2 DEF KnownReplacements, Known, InTable
  <2> QED
    BY <1>1, <1>2, <2>1 DEF ChainSound, Known, InTable, Ended, Dead
<1>4. \A u \in Threads : Writes(pc[u]) => ~Known(pc[u].new)
  BY DEF ChainInv, FrameSound
<1>5. ASSUME armed \subseteq armed', SwitchesNamed', \A u \in Threads \ {t} : pc'[u] = pc[u],
             pc'[t].at \in Plain, pc'[t].todo = {}
      PROVE  ChainInv'
  <2>1. Onward
    BY <1>1, <1>2, <1>5 DEF Onward, InTable, Known, Dead, Ended
  <2>2. FrameSound(pc[t])' /\ BarsHold(pc[t])' /\ ~Writes(pc'[t])
    BY <1>5 DEF FrameSound, BarsHold, Plain, CreateSteps, ReplaceSteps, Writes
  <2>3. \A u \in Threads \ {t} : Writes(pc[u]) => ~Known(pc[u].new)'
    BY <1>2, <1>4, <1>5 DEF Known, InTable
  <2> QED
    BY <1>3, <1>5, <2>1, <2>2, <2>3, ChainStep
<1>6. {"sweepExchange", "sweepList"} \subseteq Plain
  BY DEF Plain, Steps, CreateSteps, ReplaceSteps
<1>7. CASE ArmService(t)
  <2>1. armed' = armed \cup {Service}
    BY <1>7 DEF ArmService
  <2>2. SwitchesNamed'
    BY <1>1, <1>2, <2>1 DEF SwitchesNamed, Known, InTable
  <2>3. /\ pc'[t] = [Idle EXCEPT !.at = "sweepExchange", !.by = "safety"]
        /\ \A u \in Threads \ {t} : pc'[u] = pc[u]
    BY <1>1, <1>7, OneThreadMoves DEF ArmService
  <2>4. pc'[t].at = "sweepExchange" /\ pc'[t].todo = {}
    BY <2>3 DEF Idle
  <2> QED
    BY <1>5, <1>6, <2>1, <2>2, <2>3, <2>4
<1>8. ASSUME NEW o \in Orders, ArmTrade(t, o) PROVE ChainInv'
  <2> DEFINE root == TradeRoot(o)
  <2>1. /\ armed' = armed \cup {root} /\ InTable(o)
        /\ Enter(t, [Idle EXCEPT !.at = "sweepList", !.by = "safety", !.ord = root])
    BY <1>8 DEF ArmTrade
  <2>2. root = IF Known(o) THEN lineage[o] ELSE o
    BY <1>1, RootOfChain
  <2> HIDE DEF root
  <2>3. (root \in Roots /\ Known(root)) \/ root \in adopted
    <3>1. CASE Known(o) /\ o \in Roots
      BY <1>1, <2>2, <3>1 DEF ChainSound
    <3>2. CASE Known(o) /\ o \in Replacements
      BY <1>1, <2>1, <2>2, <3>2 DEF ChainSound
    <3>3. CASE ~Known(o)
      BY <2>1, <2>2, <3>3 DEF Known
    <3> QED
      BY <3>1, <3>2, <3>3 DEF Orders
  <2>4. SwitchesNamed'
    BY <1>1, <1>2, <2>1, <2>3 DEF SwitchesNamed, Known, InTable
  <2>5. /\ pc'[t] = [Idle EXCEPT !.at = "sweepList", !.by = "safety", !.ord = root]
        /\ \A u \in Threads \ {t} : pc'[u] = pc[u]
    BY <1>1, <2>1, OneThreadMoves
  <2>6. pc'[t].at = "sweepList" /\ pc'[t].todo = {}
    BY <2>5 DEF Idle
  <2> QED
    BY <1>5, <1>6, <2>1, <2>4, <2>5, <2>6
<1>9. ASSUME NEW s \in Scopes, ReleaseSwitch(t, s) PROVE ChainInv'
  <2>1. armed' = armed \ {s}
    BY <1>9 DEF ReleaseSwitch
  <2>2. \A u \in Threads : pc'[u] = [pc[u] EXCEPT !.barred = @ \ {s}] /\ pc[u] \in Frame
    BY <1>1, <1>9 DEF ReleaseSwitch, TypeOK
  <2>3. \A u \in Threads :
          /\ pc'[u].at = pc[u].at /\ pc'[u].ord = pc[u].ord /\ pc'[u].new = pc[u].new
          /\ pc'[u].st = pc[u].st /\ pc'[u].todo = pc[u].todo /\ pc'[u].by = pc[u].by
          /\ pc'[u].barred = pc[u].barred \ {s}
    BY <2>2 DEF Frame
  <2>4. SwitchesNamed'
    BY <1>1, <1>2, <2>1 DEF SwitchesNamed, Known, InTable
  <2>5. ASSUME NEW u \in Threads PROVE FrameSound(pc[u])' /\ BarsHold(pc[u])'
    <3>1. FrameSound(pc[u]) /\ BarsHold(pc[u])
      BY DEF ChainInv
    <3>2. FrameSound(pc[u])'
      BY <1>2, <2>3, <3>1 DEF FrameSound, Writes, Known, InTable, Dead
    <3>3. BarsHold(pc[u])'
      BY <1>2, <2>1, <2>3, <3>1 DEF BarsHold, Ended
    <3> QED
      BY <3>2, <3>3
  <2>6. \A v, u \in Threads : Writes(pc'[v]) /\ Writes(pc'[u]) /\ pc'[v].new = pc'[u].new => v = u
    BY <2>3 DEF ChainInv, Writes
  <2> QED
    BY <1>3, <2>4, <2>5, <2>6 DEF ChainInv, Writes
<1> QED
  BY <1>7, <1>8, <1>9

LEMMA CrashChainStep ==
  ASSUME IInv, ChainInv, Crash
  PROVE  ChainInv'
<1>1. UNCHANGED <<row, parent, adopted, exch, lineage, armed>>
  BY DEF Crash, stored, history
<1>2. ChainSound' /\ SwitchesNamed'
  <2>1. Steady
    BY <1>1, NothingMoves DEF Steady, InTable, IInv
  <2> QED
    BY <2>1, SteadyIsOnward
<1>3. \A t \in Threads : pc'[t].at = "idle" /\ pc'[t].todo = {}
  BY DEF Crash, Idle
<1>4. \A t \in Threads : FrameSound(pc[t])' /\ BarsHold(pc[t])' /\ ~Writes(pc'[t])
  BY <1>3 DEF FrameSound, BarsHold, CreateSteps, ReplaceSteps, Writes
<1> QED
  BY <1>2, <1>4 DEF ChainInv, Writes

LEMMA StepKeepsChainInv ==
  ASSUME ~PartialRecordsBind, IInv, ChainInv, [Next]_vars
  PROVE  ChainInv'
<1>1. ASSUME NEW t \in Threads, CreateStep(t) PROVE ChainInv'
  BY <1>1, BarredCalls, GateStep, CreateCheckStep, CreateOnwardSteps, PlaceStep, PersistStep
     DEF CreateStep
<1>2. ASSUME NEW t \in Threads, ReplaceStep(t) PROVE ChainInv'
  BY <1>2, BarredCalls, ReplaceCheckStep, ReplaceOnwardSteps, ModifyStep, ReplaceNewStep
     DEF ReplaceStep
<1>3. ASSUME NEW t \in Threads, CancelStep(t) PROVE ChainInv'
  BY <1>3, CancelOnwardSteps, AdoptStep DEF CancelStep
<1>4. ASSUME NEW t \in Threads, SwitchStep(t) PROVE ChainInv'
  BY <1>4, SwitchChainSteps, SweepOnwardSteps, BarredCalls DEF SwitchStep
<1>5. ASSUME NEW t \in Threads, QueryStep(t) PROVE ChainInv'
  BY <1>5, QueryOnwardSteps
<1>6. ASSUME NEW o \in Orders, HandleOrderEvent(o) \/ ExchangeFills(o) PROVE ChainInv'
  BY <1>6, QueryOnwardSteps
<1>7. CASE Crash
  BY <1>7, CrashChainStep
<1>8. CASE UNCHANGED vars
  <2>1. Quiet /\ UNCHANGED pc
    BY <1>8 DEF vars, Quiet, stored, history
  <2> QED
    BY <2>1, QuietIsSteady, SteadyStays
<1> QED
  BY <1>1, <1>2, <1>3, <1>4, <1>5, <1>6, <1>7, <1>8 DEF Next, ThreadStep

(* A create or replace that began while a switch covering its order was    *)
(* armed places and modifies nothing until that switch is released: over   *)
(* any number of replacements, threads, crashes, releases and concurrent   *)
(* cancels the root that _trade_root_internal_order_id finds is the order  *)
(* the chain began with, or the chain has ended                            *)
(* (_assert_kill_switch_allows_submit, replace_order).  That the upserts   *)
(* of query_order and of the WebSocket sync fail, as they do, is needed: a *)
(* row they adopt of a live replacement would begin a chain of its own.    *)
THEOREM ArmedSwitchBlocks ==
  ASSUME ~PartialRecordsBind
  PROVE  Spec => []ArmedSwitchBlocksLaterCalls
<1>1. Init => ChainInv
  <2> SUFFICES ASSUME Init PROVE ChainInv
    OBVIOUS
  <2>1. KnownReplacements = {}
    BY DEF Init, KnownReplacements, Known, InTable, Orders
  <2>2. ChainSound /\ SwitchesNamed
    BY <2>1 DEF Init, ChainSound, SwitchesNamed, InTable, Orders
  <2>3. \A t \in Threads : pc[t].at = "idle" /\ pc[t].todo = {}
    BY DEF Init, Idle
  <2>4. \A t \in Threads : FrameSound(pc[t]) /\ BarsHold(pc[t]) /\ ~Writes(pc[t])
    BY <2>3 DEF FrameSound, BarsHold, CreateSteps, ReplaceSteps, Writes
  <2> QED
    BY <2>2, <2>4 DEF ChainInv
<1>2. ChainInv => ArmedSwitchBlocksLaterCalls
  BY DEF ChainInv, BarsHold, ArmedSwitchBlocksLaterCalls, At, Ended
<1>3. IInv /\ ChainInv /\ [Next]_vars => ChainInv'
  BY StepKeepsChainInv
<1> QED
  BY <1>1, <1>2, <1>3, InitIsTrue, StepKeepsTruth, PTL DEF Spec
=============================================================================
