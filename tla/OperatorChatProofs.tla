--------------------------- MODULE OperatorChatProofs ---------------------------
(***************************************************************************)
(* Proofs about OperatorChat: types and ReleasedIsCandidate for any number *)
(* of handlers; PendingActsOnce and AbortedIsNotExecuted when there is one *)
(* handler, as with long polling, however often it fails and is given the  *)
(* same updates again.  (With two handlers of the webhook they do not      *)
(* hold.)                                                                  *)
(***************************************************************************)
EXTENDS OperatorChat, TLAPS

Frame(n) == [at : 0 .. n, upTo : 0 .. n, step : Steps]
Row      == [kind : Kinds, of : Executions, open : BOOLEAN]

(* What a handler has in hand fits its step: f is its frame.               *)
Fits(f, box, rows) ==
  /\ f.step # "idle" => f.at \in 1 .. Len(box)
  /\ f.step = "insert" => box[f.at].name = "step1"
  /\ f.step \in {"consume", "post"} =>
       /\ box[f.at].name = "confirm"
       /\ box[f.at].of \in 1 .. Len(rows)
       /\ box[f.at].kind = "release" => rows[box[f.at].of].kind = "release"
  /\ f.step = "cancel" => /\ box[f.at].name = "abort"
                          /\ box[f.at].of \in 1 .. Len(rows)

HandlersFit == \A h \in Handlers : Fits(handler[h], inbox, pending)

(* q is p with elements at its end, or with rows closed.                   *)
Extends(p, q) ==
  /\ Len(p) <= Len(q)
  /\ \A i \in 1 .. Len(p) : q[i].kind = p[i].kind /\ q[i].of = p[i].of

-----------------------------------------------------------------------------
LEMMA Appended ==
  ASSUME NEW S, NEW q \in Seq(S), NEW x \in S
  PROVE  /\ Append(q, x) \in Seq(S) /\ Len(Append(q, x)) = Len(q) + 1 /\ Len(q) \in Nat
         /\ \A n \in 1 .. Len(q) : Append(q, x)[n] = q[n]
         /\ Append(q, x)[Len(q) + 1] = x
  OBVIOUS

LEMMA CommandKinds ==
  ASSUME NEW c \in Commands
  PROVE  /\ c.kind \in Kinds
         /\ c.name = "step1" => c.of \in Executions
         /\ c.name \in {"confirm", "abort"} => c.of \in Pendings
         /\ c.name \in {"step1", "confirm", "abort"}
  BY DEF Commands, Kinds

(* Closing a row.                                                          *)
LEMMA Closed ==
  ASSUME NEW rows \in Seq(Row), NEW p \in 1 .. Len(rows)
  PROVE  /\ [rows EXCEPT ![p].open = FALSE] \in Seq(Row)
         /\ Len([rows EXCEPT ![p].open = FALSE]) = Len(rows)
         /\ Extends(rows, [rows EXCEPT ![p].open = FALSE])
         /\ ~[rows EXCEPT ![p].open = FALSE][p].open
         /\ \A q \in 1 .. Len(rows) : q # p => [rows EXCEPT ![p].open = FALSE][q] = rows[q]
  <1> DEFINE new == [rows EXCEPT ![p].open = FALSE]
  <1>0. DOMAIN rows = 1 .. Len(rows) /\ Len(rows) \in Nat
    OBVIOUS
  <1>1. new = [i \in 1 .. Len(rows) |->
                 IF i = p THEN [rows[p] EXCEPT !.open = FALSE] ELSE rows[i]]
    BY <1>0
  <1>2. \A i \in 1 .. Len(rows) : rows[i] \in Row
    OBVIOUS
  <1>3. [rows[p] EXCEPT !.open = FALSE] \in Row
    BY <1>2 DEF Row
  <1>4. \A i \in 1 .. Len(rows) : new[i] \in Row
    BY <1>1, <1>2, <1>3
  <1>5. new \in Seq(Row) /\ Len(new) = Len(rows)
    <2>1. new \in [1 .. Len(rows) -> Row]
      BY <1>1, <1>4
    <2> HIDE DEF new
    <2> QED  BY <1>0, <2>1
  <1>6. /\ new[p].kind = rows[p].kind /\ new[p].of = rows[p].of /\ new[p].open = FALSE
        /\ \A i \in 1 .. Len(rows) : i # p => new[i] = rows[i]
    BY <1>1, <1>2 DEF Row
  <1> QED  BY <1>5, <1>6 DEF Extends

LEMMA FitsStays ==
  ASSUME NEW n \in Nat, NEW f \in Frame(n), NEW S, NEW box \in Seq(S), NEW box2 \in Seq(S),
         NEW rows \in Seq(Row), NEW rows2 \in Seq(Row), Fits(f, box, rows),
         Len(box) <= Len(box2), \A i \in 1 .. Len(box) : box2[i] = box[i],
         Extends(rows, rows2)
  PROVE  Fits(f, box2, rows2)
  BY DEF Fits, Extends, Frame

-----------------------------------------------------------------------------
(* Types *)

ChatType ==
  /\ mode \in Modes
  /\ inbox \in Seq(Commands) /\ Len(inbox) <= MaxUpdates
  /\ lastUpdate \in 0 .. Len(inbox) /\ served \subseteq 1 .. Len(inbox)

RowType ==
  /\ pending \in Seq(Row) /\ Len(pending) <= MaxPendings
  /\ expired \subseteq 1 .. Len(pending) /\ aborted \subseteq 1 .. Len(pending)

BrokerType ==
  /\ posted \in [Pendings -> 0 .. 2]
  /\ verdict \in [Executions -> {"none", "blocked", "shadow", "candidate"}]
  /\ released \subseteq Executions /\ repeated \subseteq Executions

HandlerType == handler \in [Handlers -> Frame(Len(inbox))]

Typing ==
  /\ ChatType /\ RowType /\ BrokerType /\ HandlerType
  /\ faults \in 0 .. MaxFaults

LEMMA TypingIsType == TypeOK <=> Typing
  <1>1. ASSUME NEW S, NEW q \in Seq(S) PROVE DOMAIN q = 1 .. Len(q)
    OBVIOUS
  <1>2. TypeOK => Typing
    BY <1>1 DEF TypeOK, Typing, ChatType, RowType, BrokerType, HandlerType, Frame, Row
  <1>3. Typing => TypeOK
    BY <1>1 DEF TypeOK, Typing, ChatType, RowType, BrokerType, HandlerType, Frame, Row
  <1> QED  BY <1>2, <1>3

LEMMA InitTyped == Init => Typing /\ HandlersFit
  <1> SUFFICES ASSUME Init PROVE Typing /\ HandlersFit
    OBVIOUS
  <1>1. <<>> \in Seq(Commands) /\ <<>> \in Seq(Row) /\ Len(<<>>) = 0
    OBVIOUS
  <1>2. ChatType /\ RowType /\ BrokerType /\ faults \in 0 .. MaxFaults
    BY <1>1, LimitAssumption DEF Init, ChatType, RowType, BrokerType
  <1>3. Idle \in Frame(0) /\ Idle.step = "idle"
    BY DEF Idle, Frame, Steps
  <1>4. HandlerType /\ HandlersFit
    BY <1>1, <1>3 DEF Init, HandlerType, HandlersFit, Fits
  <1> QED  BY <1>2, <1>4 DEF Typing

(* handler h goes on as f, the others stay.                                *)
Becomes(h, f) ==
  /\ f \in Frame(Len(inbox))
  /\ handler' = [handler EXCEPT ![h] = f]

LEMMA GotoBecomes ==
  ASSUME Typing, NEW h \in Handlers, NEW s \in Steps, Goto(h, s)
  PROVE  Becomes(h, [handler[h] EXCEPT !.step = s])
  BY DEF Typing, HandlerType, Frame, Goto, Becomes

(* Return leaves a frame that fits whatever the rows are.                  *)
LEMMA ReturnBecomes ==
  ASSUME Typing, HandlersFit, NEW h \in Handlers, handler[h].step # "idle", Return(h)
  PROVE  /\ ChatType' /\ inbox' = inbox
         /\ \E f \in Frame(Len(inbox)) :
              Becomes(h, f) /\ \A rows : Fits(f, inbox, rows)
  <1> DEFINE f == handler[h]
             g == IF f.at < f.upTo THEN [f EXCEPT !.at = @ + 1, !.step = "start"] ELSE Idle
  <1>1. f \in Frame(Len(inbox)) /\ f.at \in 1 .. Len(inbox) /\ Len(inbox) \in Nat
    BY DEF Typing, HandlerType, HandlersFit, Fits, ChatType
  <1>2. g \in Frame(Len(inbox))
    <2>1. CASE f.at < f.upTo
      <3>1. f.at + 1 \in 0 .. Len(inbox) /\ "start" \in Steps
        BY <1>1, <2>1 DEF Frame, Steps
      <3> QED  BY <1>1, <2>1, <3>1 DEF Frame
    <2>2. CASE ~(f.at < f.upTo)
      BY <1>1, <2>2 DEF Frame, Idle, Steps
    <2> QED  BY <2>1, <2>2
  <1>3. g.step = "idle" \/ (g.step = "start" /\ g.at \in 1 .. Len(inbox))
    BY <1>1 DEF Frame, Idle
  <1>4. \A rows : Fits(g, inbox, rows)
    BY <1>3 DEF Fits
  <1>5. handler' = [handler EXCEPT ![h] = g] /\ inbox' = inbox /\ mode' = mode
    BY DEF Return
  <1>6. lastUpdate' \in 0 .. Len(inbox) /\ served' \subseteq 1 .. Len(inbox)
    BY <1>1 DEF Return, StoredOffset, Frame, Typing, ChatType
  <1>7. ChatType'
    BY <1>5, <1>6 DEF Typing, ChatType
  <1> QED  BY <1>2, <1>4, <1>5, <1>7 DEF Becomes

LEMMA ReturnSteps ==
  ASSUME Typing, NEW h \in Handlers, Return(h)
  PROVE  handler'[h].step \in {"idle", "start"}
  <1> DEFINE f == handler[h]
  <1>1. f \in Frame(Len(inbox))
    BY DEF Typing, HandlerType
  <1>2. [f EXCEPT !.at = @ + 1, !.step = "start"].step = "start" /\ Idle.step = "idle"
    BY <1>1 DEF Frame, Idle
  <1>3. handler'[h] = IF f.at < f.upTo THEN [f EXCEPT !.at = @ + 1, !.step = "start"] ELSE Idle
    BY DEF Return, Typing, HandlerType
  <1> QED  BY <1>2, <1>3

(* A step of h keeps every frame fitting when its own does.                *)
LEMMA BecomesFits ==
  ASSUME Typing, HandlersFit, NEW h \in Handlers, NEW f, Becomes(h, f), inbox' = inbox,
         Fits(f, inbox, pending'), pending' \in Seq(Row), Extends(pending, pending')
  PROVE  HandlerType' /\ HandlersFit'
  <1>1. HandlerType'
    BY DEF Becomes, Typing, HandlerType
  <1>2. ASSUME NEW g \in Handlers PROVE Fits(handler'[g], inbox', pending')
    <2>1. CASE g = h
      BY <2>1 DEF Becomes, Typing, HandlerType
    <2>2. CASE g # h
      <3>1. handler'[g] = handler[g] /\ handler[g] \in Frame(Len(inbox))
        BY <2>2 DEF Becomes, Typing, HandlerType
      <3>2. Fits(handler[g], inbox, pending)
        BY DEF HandlersFit
      <3>3. inbox \in Seq(Commands) /\ Len(inbox) \in Nat /\ pending \in Seq(Row)
        BY DEF Typing, ChatType, RowType
      <3>4. Fits(handler[g], inbox, pending')
        BY <3>1, <3>2, <3>3, FitsStays
      <3> QED  BY <3>1, <3>4
    <2> QED  BY <2>1, <2>2
  <1> QED  BY <1>1, <1>2 DEF HandlersFit

LEMMA Unmoved == ASSUME NEW rows \in Seq(Row) PROVE Extends(rows, rows)
  BY DEF Extends

(* The steps of a handler, by what they do to the rows.                    *)
LEMMA CommandAt ==
  ASSUME Typing, HandlersFit, NEW h \in Handlers, handler[h].step # "idle"
  PROVE  Command(h) \in Commands /\ Command(h) = inbox[handler[h].at]
  BY DEF Typing, ChatType, HandlersFit, Fits, Command

LEMMA ReceiveTyped ==
  ASSUME Typing, HandlersFit, NEW h \in Handlers,
         Poll(h) \/ \E u \in DOMAIN inbox : Receive(h, u)
  PROVE  Typing' /\ HandlersFit'
  <1>1. inbox \in Seq(Commands) /\ DOMAIN inbox = 1 .. Len(inbox) /\ Len(inbox) \in Nat
    BY DEF Typing, ChatType
  <1>2. /\ \E f \in Frame(Len(inbox)) :
             Becomes(h, f) /\ f.step = "start" /\ f.at \in 1 .. Len(inbox)
        /\ UNCHANGED <<chatVars, rowVars, brokerVars, faults>>
    <2>1. CASE Poll(h)
      <3>1. [at |-> lastUpdate + 1, upTo |-> Len(inbox), step |-> "start"] \in Frame(Len(inbox))
        BY <1>1, <2>1 DEF Poll, Typing, ChatType, Frame, Steps
      <3>2. lastUpdate + 1 \in 1 .. Len(inbox)
        BY <1>1, <2>1 DEF Poll, Typing, ChatType
      <3>3. Becomes(h, [at |-> lastUpdate + 1, upTo |-> Len(inbox), step |-> "start"])
        BY <2>1, <3>1 DEF Poll, Becomes
      <3> QED  BY <2>1, <3>1, <3>2, <3>3 DEF Poll
    <2>2. CASE \E u \in DOMAIN inbox : Receive(h, u)
      <3>1. PICK u \in 1 .. Len(inbox) : Receive(h, u)
        BY <1>1, <2>2
      <3>2. [at |-> u, upTo |-> u, step |-> "start"] \in Frame(Len(inbox))
        BY <1>1, <3>1 DEF Frame, Steps
      <3> QED  BY <3>1, <3>2 DEF Receive, Becomes
    <2> QED  BY <2>1, <2>2
  <1>3. PICK f \in Frame(Len(inbox)) :
          Becomes(h, f) /\ f.step = "start" /\ f.at \in 1 .. Len(inbox)
    BY <1>2
  <1>4. UNCHANGED <<inbox, pending>> /\ pending \in Seq(Row)
    BY <1>2 DEF chatVars, rowVars, Typing, RowType
  <1>5. HandlerType' /\ HandlersFit'
    BY <1>3, <1>4, BecomesFits, Unmoved DEF Fits
  <1> QED  BY <1>2, <1>5 DEF Typing, ChatType, RowType, BrokerType, chatVars, rowVars, brokerVars

(* Steps that end in Return and leave the rows.                            *)
LEMMA ReturnTyped ==
  ASSUME Typing, HandlersFit, NEW h \in Handlers, handler[h].step # "idle", Return(h),
         UNCHANGED <<rowVars, brokerVars>>, faults' \in 0 .. MaxFaults
  PROVE  Typing' /\ HandlersFit'
  <1>1. PICK f \in Frame(Len(inbox)) : Becomes(h, f) /\ \A rows : Fits(f, inbox, rows)
    BY ReturnBecomes
  <1>2. ChatType' /\ inbox' = inbox
    BY ReturnBecomes
  <1>3. UNCHANGED pending /\ pending \in Seq(Row)
    BY DEF rowVars, Typing, RowType
  <1>4. HandlerType' /\ HandlersFit'
    BY <1>1, <1>2, <1>3, BecomesFits, Unmoved
  <1> QED  BY <1>2, <1>4 DEF Typing, RowType, BrokerType, rowVars, brokerVars

(* Steps that go on within an update.                                      *)
LEMMA GotoTyped ==
  ASSUME Typing, HandlersFit, NEW h \in Handlers, handler[h].step # "idle",
         NEW s \in Steps, Goto(h, s), UNCHANGED chatVars,
         Fits([handler[h] EXCEPT !.step = s], inbox, pending'),
         RowType', BrokerType', Extends(pending, pending'), faults' \in 0 .. MaxFaults
  PROVE  Typing' /\ HandlersFit'
  <1>1. Becomes(h, [handler[h] EXCEPT !.step = s])
    BY GotoBecomes
  <1>2. inbox' = inbox /\ pending' \in Seq(Row)
    BY DEF chatVars, RowType
  <1>3. HandlerType' /\ HandlersFit'
    BY <1>1, <1>2, BecomesFits
  <1> QED  BY <1>3 DEF Typing, ChatType, chatVars

(* The frame of h at its next step.                                        *)
LEMMA NextFrame ==
  ASSUME Typing, HandlersFit, NEW h \in Handlers, handler[h].step # "idle", NEW s \in Steps
  PROVE  /\ [handler[h] EXCEPT !.step = s].step = s
         /\ [handler[h] EXCEPT !.step = s].at = handler[h].at
         /\ handler[h].at \in 1 .. Len(inbox)
  BY DEF Typing, HandlerType, Frame, HandlersFit, Fits

LEMMA RowsStay ==
  ASSUME Typing, UNCHANGED rowVars
  PROVE  RowType' /\ Extends(pending, pending') /\ pending' = pending
  BY Unmoved DEF Typing, RowType, rowVars

LEMMA BrokerStays ==
  ASSUME Typing, UNCHANGED brokerVars PROVE BrokerType'
  BY DEF Typing, BrokerType, brokerVars

LEMMA LookTyped ==
  ASSUME Typing, HandlersFit, NEW h \in Handlers, StepOne(h) \/ Confirm(h) \/ Abort(h)
  PROVE  Typing' /\ HandlersFit'
  <1>1. /\ handler[h].step = "start" /\ UNCHANGED <<rowVars, brokerVars>>
        /\ DOMAIN pending = 1 .. Len(pending)
    BY DEF StepOne, Confirm, Abort, At, Typing, RowType
  <1>2. RowType' /\ Extends(pending, pending') /\ pending' = pending /\ BrokerType'
    BY <1>1, RowsStay, BrokerStays
  <1>3. faults' \in 0 .. MaxFaults
    <2>1. faults' = faults \/ Fault
      BY DEF StepOne, Confirm, Abort
    <2> QED  BY <2>1, LimitAssumption DEF Typing, Fault
  <1>4. CASE Return(h)
    BY <1>1, <1>3, <1>4, ReturnTyped
  <1>5. ASSUME NEW s \in Steps, Goto(h, s), UNCHANGED chatVars,
               Fits([handler[h] EXCEPT !.step = s], inbox, pending)
        PROVE  Typing' /\ HandlersFit'
    BY <1>1, <1>2, <1>3, <1>5, GotoTyped
  <1>6. CASE StepOne(h)
    <2>1. CASE Goto(h, "insert") /\ UNCHANGED chatVars
      <3>1. Fits([handler[h] EXCEPT !.step = "insert"], inbox, pending) /\ "insert" \in Steps
        BY <1>1, <1>6, NextFrame DEF StepOne, Command, Fits, Steps
      <3> QED  BY <1>5, <2>1, <3>1
    <2> QED  BY <1>4, <1>6, <2>1 DEF StepOne
  <1>7. CASE Confirm(h)
    <2>1. Fits([handler[h] EXCEPT !.step = "consume"], inbox, pending) /\ "consume" \in Steps
      BY <1>1, <1>7, NextFrame DEF Confirm, Open, Command, Fits, Steps
    <2> QED  BY <1>5, <1>7, <2>1 DEF Confirm
  <1>8. CASE Abort(h)
    <2>1. Fits([handler[h] EXCEPT !.step = "cancel"], inbox, pending) /\ "cancel" \in Steps
      BY <1>1, <1>8, NextFrame DEF Abort, Open, Command, Fits, Steps
    <2> QED  BY <1>5, <1>8, <2>1 DEF Abort
  <1> QED  BY <1>6, <1>7, <1>8

LEMMA InsertTyped ==
  ASSUME Typing, HandlersFit, NEW h \in Handlers, InsertPending(h)
  PROVE  Typing' /\ HandlersFit'
  <1>1. /\ handler[h].step = "insert"
        /\ Command(h) \in Commands /\ Command(h).name = "step1"
    BY CommandAt DEF InsertPending, At, HandlersFit, Fits
  <1> DEFINE row == [kind |-> Command(h).kind, of |-> Command(h).of, open |-> TRUE]
  <1>2. row \in Row
    BY <1>1, CommandKinds DEF Row
  <1>3. pending' = Append(pending, row) /\ pending \in Seq(Row) /\ Len(pending) < MaxPendings
    BY DEF InsertPending, Typing, RowType
  <1> HIDE DEF row
  <1>4. /\ pending' \in Seq(Row) /\ Len(pending') = Len(pending) + 1 /\ Len(pending) \in Nat
        /\ Extends(pending, pending')
    BY <1>2, <1>3, Appended DEF Extends
  <1>5. RowType'
    BY <1>3, <1>4, LimitAssumption DEF InsertPending, Typing, RowType
  <1>6. BrokerType' /\ faults' \in 0 .. MaxFaults /\ UNCHANGED chatVars /\ Goto(h, "report")
    BY BrokerStays DEF InsertPending, Typing
  <1>7. Fits([handler[h] EXCEPT !.step = "report"], inbox, pending') /\ "report" \in Steps
    BY <1>1, NextFrame DEF Fits, Steps
  <1> QED  BY <1>1, <1>4, <1>5, <1>6, <1>7, GotoTyped

LEMMA CloseTyped ==
  ASSUME Typing, HandlersFit, NEW h \in Handlers,
         ConfirmExpired(h) \/ Consume(h) \/ Cancel(h)
  PROVE  /\ Typing' /\ HandlersFit'
         /\ Command(h).of \in 1 .. Len(pending)
         /\ pending' = [pending EXCEPT ![Command(h).of].open = FALSE]
  <1>1. /\ handler[h].step \in {"start", "consume", "cancel"}
        /\ Command(h).of \in 1 .. Len(pending)
        /\ handler[h].step = "consume" =>
             /\ Command(h).name = "confirm"
             /\ Command(h).kind = "release" => pending[Command(h).of].kind = "release"
    BY CommandAt DEF ConfirmExpired, Consume, Cancel, At, HandlersFit, Fits, Open, Typing, RowType
  <1>2. pending' = [pending EXCEPT ![Command(h).of].open = FALSE] /\ pending \in Seq(Row)
    BY DEF ConfirmExpired, Consume, ConsumeRow, Cancel, Typing, RowType
  <1>3. pending' \in Seq(Row) /\ Len(pending') = Len(pending) /\ Extends(pending, pending')
    BY <1>1, <1>2, Closed
  <1>4. RowType' /\ BrokerType' /\ faults' \in 0 .. MaxFaults /\ UNCHANGED chatVars
    BY <1>1, <1>3, BrokerStays DEF ConfirmExpired, Consume, Cancel, Typing, RowType
  <1>5. ASSUME NEW s \in Steps, Goto(h, s), Fits([handler[h] EXCEPT !.step = s], inbox, pending')
        PROVE  Typing' /\ HandlersFit'
    BY <1>1, <1>3, <1>4, <1>5, GotoTyped
  <1>6. CASE ConfirmExpired(h) \/ Cancel(h)
    <2>1. Fits([handler[h] EXCEPT !.step = "report"], inbox, pending') /\ "report" \in Steps
      BY <1>1, NextFrame DEF Fits, Steps
    <2> QED  BY <1>1, <1>2, <1>5, <1>6, <2>1 DEF ConfirmExpired, Cancel
  <1>7. CASE Consume(h)
    <2>1. handler[h].step = "consume"
      BY <1>7 DEF Consume, At
    <2>2. Fits([handler[h] EXCEPT !.step = "post"], inbox, pending') /\ "post" \in Steps
      BY <1>1, <1>3, <2>1, NextFrame DEF Fits, Steps, Command, Extends
    <2> QED  BY <1>1, <1>2, <1>5, <1>7, <2>2 DEF Consume
  <1> QED  BY <1>6, <1>7

LEMMA PostTyped ==
  ASSUME Typing, HandlersFit, NEW h \in Handlers, Post(h)
  PROVE  Typing' /\ HandlersFit'
  <1>1. handler[h].step = "post" /\ UNCHANGED <<chatVars, rowVars>> /\ Goto(h, "report")
    BY DEF Post, At
  <1>2. Command(h).of \in 1 .. Len(pending) /\ Command(h).of \in Pendings
    BY <1>1, CommandAt, CommandKinds DEF HandlersFit, Fits
  <1>3. pending[Command(h).of] \in Row
    BY <1>2 DEF Typing, RowType
  <1>4. BrokerType'
    <2>1. CASE UNCHANGED brokerVars
      BY <2>1, BrokerStays
    <2>2. CASE Executes(h, Command(h).of)
      <3>1. pending[Command(h).of].of \in Executions
        BY <1>3 DEF Row
      <3>2. posted' \in [Pendings -> 0 .. 2]
        BY <1>2, <2>2 DEF Executes, Typing, BrokerType
      <3> QED  BY <2>2, <3>1, <3>2 DEF Executes, Typing, BrokerType
    <2> QED  BY <2>1, <2>2 DEF Post
  <1>5. faults' \in 0 .. MaxFaults
    BY LimitAssumption DEF Post, Fault, Typing
  <1>6. Fits([handler[h] EXCEPT !.step = "report"], inbox, pending') /\ "report" \in Steps
    BY <1>1, NextFrame DEF Fits, Steps
  <1> QED  BY <1>1, <1>4, <1>5, <1>6, RowsStay, GotoTyped

LEMMA FailTyped ==
  ASSUME Typing, HandlersFit, NEW h \in Handlers, HandlerFails(h)
  PROVE  Typing' /\ HandlersFit'
  <1>1. UNCHANGED <<inbox, pending>> /\ pending \in Seq(Row) /\ Len(inbox) \in Nat
    BY DEF HandlerFails, chatVars, rowVars, Typing, RowType, ChatType
  <1>2. Becomes(h, Idle) /\ Fits(Idle, inbox, pending')
    BY <1>1 DEF HandlerFails, Becomes, Idle, Frame, Steps, Fits
  <1>3. HandlerType' /\ HandlersFit'
    BY <1>1, <1>2, BecomesFits, Unmoved
  <1>4. ChatType' /\ RowType' /\ BrokerType' /\ faults' \in 0 .. MaxFaults
    BY LimitAssumption DEF HandlerFails, Fault, Typing, ChatType, RowType, BrokerType, chatVars,
       rowVars, brokerVars
  <1> QED  BY <1>3, <1>4 DEF Typing

LEMMA HandleTyped ==
  ASSUME Typing, HandlersFit, NEW h \in Handlers, Handle(h)
  PROVE  Typing' /\ HandlersFit'
  <1>1. CASE Refuse(h) \/ Reject(h) \/ Report(h)
    <2>1. /\ handler[h].step # "idle" /\ Return(h)
          /\ UNCHANGED <<rowVars, brokerVars, faults>>
      BY <1>1 DEF Refuse, Reject, Report, At
    <2>2. faults' \in 0 .. MaxFaults
      BY <2>1 DEF Typing
    <2> QED  BY <2>1, <2>2, ReturnTyped
  <1> QED  BY <1>1, ReceiveTyped, LookTyped, InsertTyped, CloseTyped, PostTyped DEF Handle

LEMMA OutsideTyped ==
  ASSUME Typing, HandlersFit,
         \/ \E c \in Commands : Send(c)
         \/ \E p \in Pendings : Expire(p)
         \/ \E e \in Executions : Decide(e)
  PROVE  Typing' /\ HandlersFit'
  <1>1. CASE \E c \in Commands : Send(c)
    <2>1. PICK c \in Commands : Send(c)
      BY <1>1
    <2>2. /\ inbox' = Append(inbox, c) /\ inbox \in Seq(Commands) /\ Len(inbox) < MaxUpdates
          /\ UNCHANGED <<handler, pending>> /\ pending \in Seq(Row)
      BY <2>1 DEF Send, rowVars, Typing, ChatType, RowType
    <2>3. /\ inbox' \in Seq(Commands) /\ Len(inbox') = Len(inbox) + 1 /\ Len(inbox) \in Nat
          /\ \A n \in 1 .. Len(inbox) : inbox'[n] = inbox[n]
      BY <2>2, Appended
    <2>4. ChatType'
      BY <2>1, <2>2, <2>3, LimitAssumption DEF Send, Typing, ChatType
    <2>5. HandlerType'
      BY <2>2, <2>3 DEF Typing, HandlerType, Frame
    <2>6. ASSUME NEW h \in Handlers PROVE Fits(handler'[h], inbox', pending')
      <3>1. handler[h] \in Frame(Len(inbox)) /\ Fits(handler[h], inbox, pending)
        BY DEF Typing, HandlerType, HandlersFit
      <3>2. Fits(handler[h], inbox', pending)
        BY <2>2, <2>3, <3>1 DEF Fits, Frame
      <3> QED  BY <2>2, <3>2
    <2>7. RowType' /\ BrokerType' /\ faults' \in 0 .. MaxFaults
      BY <2>1 DEF Send, Typing, RowType, BrokerType, rowVars, brokerVars
    <2> QED  BY <2>4, <2>5, <2>6, <2>7 DEF Typing, HandlersFit
  <1>2. CASE \E p \in Pendings : Expire(p)
    <2>1. DOMAIN pending = 1 .. Len(pending)
      BY DEF Typing, RowType
    <2>2. RowType'
      BY <1>2, <2>1 DEF Expire, Typing, RowType
    <2> QED  BY <1>2, <2>2 DEF Expire, Typing, HandlersFit, ChatType, BrokerType, HandlerType,
             chatVars, brokerVars
  <1>3. CASE \E e \in Executions : Decide(e)
    <2>1. BrokerType'
      BY <1>3 DEF Decide, Typing, BrokerType
    <2> QED  BY <1>3, <2>1 DEF Decide, Typing, HandlersFit, ChatType, RowType, HandlerType,
             chatVars, rowVars
  <1> QED  BY <1>1, <1>2, <1>3

LEMMA StepTyped ==
  ASSUME Typing, HandlersFit, [Next]_vars
  PROVE  Typing' /\ HandlersFit'
  <1>1. CASE UNCHANGED vars
    BY <1>1 DEF vars, chatVars, rowVars, brokerVars, Typing, ChatType, RowType, BrokerType,
       HandlerType, HandlersFit
  <1> QED  BY <1>1, HandleTyped, FailTyped, OutsideTyped DEF Next

(* Types: every variable keeps to its set.                                 *)
THEOREM Typed == Spec => []TypeOK
  <1>1. Typing /\ HandlersFit /\ [Next]_vars => (Typing /\ HandlersFit)'
    BY StepTyped
  <1>2. Typing => TypeOK
    BY TypingIsType
  <1> QED  BY <1>1, <1>2, InitTyped, PTL DEF Spec

-----------------------------------------------------------------------------
(* ReleasedIsCandidate *)

(* What step1 has asked for is still so when the row is written, and for   *)
(* as long as there is the row.                                            *)
RowsAreCandidates ==
  \A p \in 1 .. Len(pending) :
    pending[p].kind = "release" => verdict[pending[p].of] = "candidate"

InsertsAreCandidates ==
  \A h \in Handlers :
    handler[h].step = "insert" /\ Command(h).kind = "release"
      => verdict[Command(h).of] = "candidate"

CInv ==
  Typing /\ HandlersFit /\ RowsAreCandidates /\ InsertsAreCandidates /\ ReleasedIsCandidate

LEMMA VerdictsStay ==
  ASSUME Typing, [Next]_vars, NEW e \in Executions, verdict[e] = "candidate"
  PROVE  verdict'[e] = "candidate"
  <1>1. CASE \E d \in Executions : Decide(d)
    BY <1>1 DEF Decide, Typing, BrokerType
  <1>2. verdict' = verdict \/ \E d \in Executions : Decide(d)
    BY DEF Next, Handle, Poll, Receive, StepOne, InsertPending, Refuse, Reject, ConfirmExpired,
       Confirm, Consume, Post, Executes, Abort, Cancel, Report, HandlerFails, Send, Expire,
       vars, brokerVars
  <1> QED  BY <1>1, <1>2

LEMMA CandidateStep ==
  ASSUME CInv, [Next]_vars
  PROVE  RowsAreCandidates' /\ InsertsAreCandidates' /\ ReleasedIsCandidate'
  <1> USE DEF CInv
  <1> DEFINE Sound(e) == verdict[e] = "candidate"
  <1>1. \A e \in Executions : Sound(e) => verdict'[e] = "candidate"
    BY VerdictsStay
  <1>2. Typing' /\ HandlersFit'
    BY StepTyped
  <1>3. ASSUME NEW p \in 1 .. Len(pending'), pending'[p].kind = "release"
        PROVE  verdict'[pending'[p].of] = "candidate"
    <2>1. pending'[p].of \in Executions
      <3>1. pending' \in Seq(Row)
        BY <1>2 DEF Typing, RowType
      <3>2. pending'[p] \in Row
        BY <1>3, <3>1
      <3> QED  BY <3>2 DEF Row
    <2>2. Sound(pending'[p].of)
      <3>1. CASE \E h \in Handlers : InsertPending(h)
        <4>1. PICK h \in Handlers : InsertPending(h)
          BY <3>1
        <4>2. handler[h].step = "insert" /\ Command(h) \in Commands
          BY <4>1, CommandAt DEF InsertPending, At
        <4> DEFINE row == [kind |-> Command(h).kind, of |-> Command(h).of, open |-> TRUE]
        <4>3. row.kind = Command(h).kind /\ row.of = Command(h).of
          OBVIOUS
        <4>4. row \in Row
          <5>1. Command(h).name = "step1"
            BY <4>2 DEF HandlersFit, Fits, Command
          <5> QED  BY <4>2, <5>1, CommandKinds DEF Row
        <4>5. pending' = Append(pending, row) /\ pending \in Seq(Row)
          BY <4>1 DEF InsertPending, Typing, RowType
        <4> HIDE DEF row
        <4>6. pending'[p] = row \/ (p \in 1 .. Len(pending) /\ pending'[p] = pending[p])
          BY <4>4, <4>5, Appended
        <4> QED  BY <1>3, <4>2, <4>3, <4>6 DEF RowsAreCandidates, InsertsAreCandidates
      <3>2. CASE \E h \in Handlers : ConfirmExpired(h) \/ Consume(h) \/ Cancel(h)
        <4>1. PICK h \in Handlers : ConfirmExpired(h) \/ Consume(h) \/ Cancel(h)
          BY <3>2
        <4>2. /\ Command(h).of \in 1 .. Len(pending) /\ pending \in Seq(Row)
              /\ pending' = [pending EXCEPT ![Command(h).of].open = FALSE]
          BY <4>1, CloseTyped DEF Typing, RowType
        <4>3. Len(pending') = Len(pending) /\ Extends(pending, pending')
          BY <4>2, Closed
        <4> QED  BY <1>3, <4>3 DEF RowsAreCandidates, Extends
      <3>3. CASE UNCHANGED pending
        BY <1>3, <3>3 DEF RowsAreCandidates
      <3>4. \/ UNCHANGED pending
            \/ \E h \in Handlers : InsertPending(h)
            \/ \E h \in Handlers : ConfirmExpired(h) \/ Consume(h) \/ Cancel(h)
        BY DEF Next, Handle, Poll, Receive, StepOne, Refuse, Reject, Confirm, Post, Abort,
           Report, HandlerFails, Send, Expire, Decide, vars, rowVars
      <3> QED  BY <3>1, <3>2, <3>3, <3>4
    <2> QED  BY <1>1, <2>1, <2>2
  <1>4. ASSUME NEW h \in Handlers, handler'[h].step = "insert", Command(h)'.kind = "release"
        PROVE  verdict'[Command(h)'.of] = "candidate"
    <2>1. Command(h)' \in Commands /\ Command(h)'.of \in Executions
      <3>1. handler'[h].at \in 1 .. Len(inbox') /\ inbox'[handler'[h].at].name = "step1"
        BY <1>2, <1>4 DEF HandlersFit, Fits
      <3> QED  BY <1>2, <3>1, CommandKinds DEF Typing, ChatType, Command
    <2>2. Command(h)' = Command(h) /\ Sound(Command(h).of)
      <3>1. CASE StepOne(h)
        <4>1. Goto(h, "insert") /\ UNCHANGED chatVars
          <5>1. CASE Return(h)
            BY <1>4, <5>1, ReturnSteps
          <5> QED  BY <3>1, <5>1 DEF StepOne
        <4>2. Command(h)' = Command(h)
          BY <4>1 DEF Goto, Command, chatVars, Typing, HandlerType, Frame
        <4>3. handler[h].step = "start" /\ ~Return(h)
          BY <1>4, <3>1, ReturnSteps DEF StepOne, At
        <4> QED  BY <1>4, <3>1, <4>2, <4>3 DEF StepOne, Eligible
      <3>2. CASE UNCHANGED <<handler, inbox>>
        BY <1>4, <3>2 DEF InsertsAreCandidates, Command
      <3>3. CASE \E c \in Commands : Send(c)
        <4>1. PICK c \in Commands : Send(c)
          BY <3>3
        <4>2. /\ UNCHANGED handler /\ handler[h].at \in 1 .. Len(inbox)
              /\ inbox' = Append(inbox, c) /\ inbox \in Seq(Commands)
          BY <1>4, <4>1 DEF Send, HandlersFit, Fits, Typing, ChatType
        <4>3. Command(h)' = Command(h)
          BY <4>2, Appended DEF Command
        <4> QED  BY <1>4, <4>2, <4>3 DEF InsertsAreCandidates
      <3>4. CASE \E g \in Handlers : Handle(g) \/ HandlerFails(g)
        <4>1. PICK g \in Handlers : Handle(g) \/ HandlerFails(g)
          BY <3>4
        <4>2. UNCHANGED inbox
          BY <4>1 DEF Handle, Poll, Receive, StepOne, InsertPending, Refuse, Reject,
             ConfirmExpired, Confirm, Consume, Post, Abort, Cancel, Report, HandlerFails,
             Return, chatVars
        <4>3. CASE g # h
          <5>1. handler'[h] = handler[h]
            BY <4>1, <4>3 DEF Handle, Poll, Receive, StepOne, InsertPending, Refuse, Reject,
               ConfirmExpired, Confirm, Consume, Post, Abort, Cancel, Report, HandlerFails,
               Return, Goto, Typing, HandlerType
          <5> QED  BY <1>4, <4>2, <5>1 DEF InsertsAreCandidates, Command
        <4>4. CASE g = h /\ ~StepOne(h)
          <5>1. handler'[h].step # "insert"
            <6>1. CASE Poll(h) \/ (\E u \in DOMAIN inbox : Receive(h, u)) \/ HandlerFails(h)
              BY <6>1 DEF Poll, Receive, HandlerFails, Idle, Typing, HandlerType
            <6>2. CASE Refuse(h) \/ Reject(h) \/ Report(h)
              BY <6>2, ReturnSteps DEF Refuse, Reject, Report
            <6>3. CASE \/ InsertPending(h) \/ ConfirmExpired(h) \/ Confirm(h) \/ Consume(h)
                       \/ Post(h) \/ Abort(h) \/ Cancel(h)
              BY <6>3 DEF InsertPending, ConfirmExpired, Confirm, Consume, Post, Abort, Cancel,
                 Goto, Typing, HandlerType, Frame
            <6> QED  BY <4>1, <4>4, <6>1, <6>2, <6>3 DEF Handle
          <5> QED  BY <1>4, <5>1
        <4> QED  BY <3>1, <4>3, <4>4
      <3>5. \/ UNCHANGED <<handler, inbox>> \/ \E c \in Commands : Send(c)
            \/ \E g \in Handlers : Handle(g) \/ HandlerFails(g)
        BY DEF Next, Expire, Decide, vars, chatVars
      <3> QED  BY <3>2, <3>3, <3>4, <3>5
    <2> QED  BY <1>1, <2>1, <2>2
  <1>5. ASSUME NEW e \in released' PROVE verdict'[e] = "candidate"
    <2>1. e \in Executions /\ Sound(e)
      <3>1. CASE e \in released
        BY <3>1 DEF ReleasedIsCandidate, Typing, BrokerType
      <3>2. CASE e \notin released
        <4>1. PICK h \in Handlers : Post(h) /\ Executes(h, Command(h).of)
                                    /\ Command(h).kind = pending[Command(h).of].kind
          BY <1>5, <3>2 DEF Next, Handle, Poll, Receive, StepOne, InsertPending, Refuse, Reject,
             ConfirmExpired, Confirm, Consume, Post, Abort, Cancel, Report, HandlerFails, Send,
             Expire, Decide, vars, brokerVars
        <4>2. Command(h).of \in 1 .. Len(pending)
          BY <4>1 DEF Post, At, HandlersFit, Fits, Command
        <4>3. Command(h).kind = "release" /\ e = pending[Command(h).of].of
          BY <1>5, <3>2, <4>1 DEF Executes
        <4>4. pending[Command(h).of] \in Row
          BY <4>2 DEF Typing, RowType
        <4> QED  BY <4>1, <4>2, <4>3, <4>4 DEF RowsAreCandidates, Row
      <3> QED  BY <3>1, <3>2
    <2> QED  BY <1>1, <2>1
  <1>6. RowsAreCandidates'
    BY <1>3 DEF RowsAreCandidates
  <1>7. InsertsAreCandidates'
    BY <1>4 DEF InsertsAreCandidates
  <1>8. ReleasedIsCandidate'
    BY <1>5 DEF ReleasedIsCandidate
  <1> QED  BY <1>6, <1>7, <1>8

(* What the chat releases is a live candidate: ReleasedIsCandidate, for    *)
(* any number of handlers.                                                 *)
THEOREM ReleasedAreCandidates == Spec => []ReleasedIsCandidate
  <1>1. Init => CInv
    <2> SUFFICES ASSUME Init PROVE CInv
      OBVIOUS
    <2>1. Len(pending) = 0 /\ released = {} /\ \A h \in Handlers : handler[h].step = "idle"
      BY DEF Init, Idle
    <2> QED  BY <2>1, InitTyped
             DEF CInv, RowsAreCandidates, InsertsAreCandidates, ReleasedIsCandidate
  <1>2. CInv /\ [Next]_vars => CInv'
    BY CandidateStep, StepTyped DEF CInv
  <1>3. CInv => ReleasedIsCandidate
    BY DEF CInv
  <1> QED  BY <1>1, <1>2, <1>3, PTL DEF Spec

-----------------------------------------------------------------------------
(* PendingActsOnce and AbortedIsNotExecuted, one handler                   *)

OneHandler == \A g, h \in Handlers : g = h

(* A row nobody has acted on.                                              *)
Untouched(p) == posted[p] = 0 /\ p \notin aborted

OpenIsUntouched ==
  \A p \in Pendings : p \notin 1 .. Len(pending) \/ pending[p].open => Untouched(p)

(* What the handler has looked up is still so.                             *)
LookupHolds ==
  \A h \in Handlers :
    LET p == Command(h).of
    IN /\ handler[h].step \in {"consume", "cancel"} => pending[p].open
       /\ handler[h].step = "post" => ~pending[p].open /\ Untouched(p)

OInv ==
  /\ Typing /\ HandlersFit
  /\ OpenIsUntouched /\ LookupHolds /\ PendingActsOnce /\ AbortedIsNotExecuted

(* Steps that leave rows and posts alone.                                  *)
LEMMA LookStep ==
  ASSUME OneHandler, OInv, NEW h \in Handlers, UNCHANGED <<inbox, pending, aborted, posted>>,
         \/ handler'[h].step \in {"idle", "start", "report", "insert"}
         \/ Confirm(h) \/ Abort(h)
  PROVE  OpenIsUntouched' /\ LookupHolds' /\ PendingActsOnce' /\ AbortedIsNotExecuted'
  <1>1. OpenIsUntouched' /\ PendingActsOnce' /\ AbortedIsNotExecuted'
    BY DEF OInv, OpenIsUntouched, Untouched, PendingActsOnce, AbortedIsNotExecuted
  <1>2. CASE handler'[h].step \in {"idle", "start", "report", "insert"}
    <2>1. \A g \in Handlers : handler'[g].step \notin {"consume", "cancel", "post"}
      BY <1>2 DEF OneHandler
    <2> QED  BY <1>1, <2>1 DEF LookupHolds
  <1>3. CASE Confirm(h) \/ Abort(h)
    <2>1. pending[Command(h).of].open
      BY <1>3 DEF Confirm, Abort, Open
    <2>2. handler'[h].at = handler[h].at /\ handler'[h].step \in {"consume", "cancel"}
      BY <1>3 DEF Confirm, Abort, Goto, OInv, Typing, HandlerType, Frame
    <2>3. Command(h)' = Command(h)
      BY <2>2 DEF Command
    <2>4. \A g \in Handlers : g = h
      BY DEF OneHandler
    <2>5. handler'[h].step # "post" /\ pending'[Command(h)'.of].open
      BY <2>1, <2>2, <2>3
    <2> QED  BY <1>1, <2>4, <2>5 DEF LookupHolds
  <1> QED  BY <1>1, <1>2, <1>3

LEMMA InsertStep ==
  ASSUME OneHandler, OInv, NEW h \in Handlers, InsertPending(h)
  PROVE  OpenIsUntouched' /\ LookupHolds' /\ PendingActsOnce' /\ AbortedIsNotExecuted'
  <1>1. UNCHANGED <<aborted, posted>> /\ handler'[h].step = "report"
    BY DEF InsertPending, Goto, brokerVars, OInv, Typing, HandlerType, Frame
  <1>2. PICK row : pending' = Append(pending, row)
    BY DEF InsertPending
  <1>3. /\ Len(pending') = Len(pending) + 1 /\ Len(pending) \in Nat
        /\ \A p \in 1 .. Len(pending) : pending'[p] = pending[p]
    BY <1>2 DEF OInv, Typing, RowType
  <1>4. OpenIsUntouched'
    BY <1>1, <1>3 DEF OInv, OpenIsUntouched, Untouched
  <1> QED  BY <1>1, <1>4 DEF OneHandler, LookupHolds, OInv, PendingActsOnce, AbortedIsNotExecuted

LEMMA CloseStep ==
  ASSUME OneHandler, OInv, NEW h \in Handlers,
         ConfirmExpired(h) \/ Consume(h) \/ Cancel(h)
  PROVE  OpenIsUntouched' /\ LookupHolds' /\ PendingActsOnce' /\ AbortedIsNotExecuted'
  <1> DEFINE p == Command(h).of
  <1>1. /\ p \in 1 .. Len(pending) /\ pending' = [pending EXCEPT ![p].open = FALSE]
        /\ pending \in Seq(Row) /\ posted' = posted
    BY CloseTyped DEF OInv, Typing, RowType, ConfirmExpired, Consume, Cancel, brokerVars
  <1>2. /\ Len(pending') = Len(pending) /\ ~pending'[p].open
        /\ \A q \in 1 .. Len(pending) : q # p => pending'[q] = pending[q]
    BY <1>1, Closed
  <1>3. p \in Pendings
    BY <1>1, LimitAssumption DEF OInv, Typing, RowType, Pendings
  <1>4. aborted' = aborted \/ (Cancel(h) /\ aborted' = aborted \cup {p})
    BY DEF ConfirmExpired, Consume, Cancel
  <1>5. Untouched(p)
    <2>1. pending[p].open
      BY DEF ConfirmExpired, Consume, Cancel, Open, At, OInv, LookupHolds
    <2> QED  BY <1>3, <2>1 DEF OInv, OpenIsUntouched
  <1>6. OpenIsUntouched'
    BY <1>1, <1>2, <1>4 DEF OInv, OpenIsUntouched, Untouched
  <1>7. LookupHolds'
    <2>1. CASE Consume(h)
      <3>1. Command(h)' = Command(h) /\ UNCHANGED aborted /\ handler'[h].step = "post"
        BY <2>1 DEF Consume, Goto, Command, chatVars, OInv, Typing, HandlerType, Frame
      <3> QED  BY <1>1, <1>2, <1>5, <3>1 DEF LookupHolds, OneHandler, Untouched
    <2>2. CASE ConfirmExpired(h) \/ Cancel(h)
      <3>1. handler'[h].step = "report"
        BY <2>2 DEF ConfirmExpired, Cancel, Goto, OInv, Typing, HandlerType, Frame
      <3> QED  BY <3>1 DEF LookupHolds, OneHandler
    <2> QED  BY <2>1, <2>2
  <1>8. PendingActsOnce' /\ AbortedIsNotExecuted'
    BY <1>1, <1>4, <1>5 DEF OInv, PendingActsOnce, AbortedIsNotExecuted, Untouched
  <1> QED  BY <1>6, <1>7, <1>8

LEMMA PostStep ==
  ASSUME OneHandler, OInv, NEW h \in Handlers, Post(h)
  PROVE  OpenIsUntouched' /\ LookupHolds' /\ PendingActsOnce' /\ AbortedIsNotExecuted'
  <1> DEFINE p == Command(h).of
  <1>1. handler[h].step = "post" /\ UNCHANGED <<pending, aborted>>
    BY DEF Post, At, rowVars
  <1>2. ~pending[p].open /\ Untouched(p) /\ p \in 1 .. Len(pending) /\ p \in Pendings
    BY <1>1, CommandAt, CommandKinds DEF OInv, LookupHolds, HandlersFit, Fits, Command
  <1>3. posted' = posted \/ posted' = [posted EXCEPT ![p] = 1]
    BY <1>2 DEF Post, Executes, brokerVars, Untouched
  <1>4. /\ posted \in [Pendings -> 0 .. 2] /\ posted'[p] <= 1
        /\ \A q \in Pendings : q # p => posted'[q] = posted[q]
    BY <1>2, <1>3 DEF OInv, Typing, BrokerType, PendingActsOnce
  <1>5. handler'[h].step = "report"
    BY DEF Post, Goto, OInv, Typing, HandlerType, Frame
  <1>6. OpenIsUntouched'
    BY <1>1, <1>2, <1>4 DEF OInv, OpenIsUntouched, Untouched
  <1>7. LookupHolds'
    BY <1>5 DEF LookupHolds, OneHandler
  <1>8. PendingActsOnce' /\ AbortedIsNotExecuted'
    <2>1. aborted \subseteq Pendings
      BY LimitAssumption DEF OInv, Typing, RowType, Pendings
    <2> QED  BY <1>1, <1>2, <1>4, <2>1
             DEF OInv, PendingActsOnce, AbortedIsNotExecuted, Untouched
  <1> QED  BY <1>6, <1>7, <1>8

LEMMA OnceStep ==
  ASSUME OneHandler, OInv, [Next]_vars
  PROVE  OInv'
  <1>1. Typing' /\ HandlersFit'
    BY StepTyped DEF OInv
  <1> SUFFICES OpenIsUntouched' /\ LookupHolds' /\ PendingActsOnce' /\ AbortedIsNotExecuted'
    BY <1>1 DEF OInv
  <1>2. ASSUME NEW h \in Handlers, Handle(h) \/ HandlerFails(h)
        PROVE  OpenIsUntouched' /\ LookupHolds' /\ PendingActsOnce' /\ AbortedIsNotExecuted'
    <2>1. CASE Poll(h) \/ (\E u \in DOMAIN inbox : Receive(h, u)) \/ HandlerFails(h)
      <3>1. handler'[h].step \in {"idle", "start"}
        BY <2>1 DEF Poll, Receive, HandlerFails, Idle, OInv, Typing, HandlerType
      <3> QED  BY <2>1, <3>1, LookStep
               DEF Poll, Receive, HandlerFails, chatVars, rowVars, brokerVars
    <2>2. CASE Refuse(h) \/ Reject(h) \/ Report(h) \/ StepOne(h)
      <3>1. CASE Return(h)
        BY <2>2, <3>1, LookStep, ReturnSteps
        DEF Refuse, Reject, Report, StepOne, Return, rowVars, brokerVars, OInv
      <3>2. CASE StepOne(h) /\ Goto(h, "insert") /\ UNCHANGED chatVars
        <4>1. handler'[h].step = "insert"
          BY <3>2 DEF Goto, OInv, Typing, HandlerType, Frame
        <4> QED  BY <3>2, <4>1, LookStep DEF StepOne, chatVars, rowVars, brokerVars
      <3> QED  BY <2>2, <3>1, <3>2 DEF Refuse, Reject, Report, StepOne
    <2>3. CASE Confirm(h) \/ Abort(h)
      BY <2>3, LookStep DEF Confirm, Abort, chatVars, rowVars, brokerVars
    <2> QED  BY <1>2, <2>1, <2>2, <2>3, InsertStep, CloseStep, PostStep DEF Handle
  <1>3. CASE \E c \in Commands : Send(c)
    <2>1. PICK c \in Commands : Send(c)
      BY <1>3
    <2>2. /\ inbox' = Append(inbox, c) /\ inbox \in Seq(Commands)
          /\ UNCHANGED <<handler, pending, aborted, posted>>
      BY <2>1 DEF Send, rowVars, brokerVars, OInv, Typing, ChatType
    <2>3. ASSUME NEW h \in Handlers, handler[h].step # "idle" PROVE Command(h)' = Command(h)
      BY <2>2, <2>3, Appended DEF OInv, HandlersFit, Fits, Command
    <2> QED  BY <2>2, <2>3 DEF OInv, OpenIsUntouched, LookupHolds, Untouched, PendingActsOnce,
             AbortedIsNotExecuted
  <1>4. CASE UNCHANGED <<handler, inbox, pending, aborted, posted>>
    BY <1>4 DEF OInv, OpenIsUntouched, LookupHolds, Untouched, PendingActsOnce,
       AbortedIsNotExecuted, Command
  <1>5. \/ \E h \in Handlers : Handle(h) \/ HandlerFails(h)
        \/ \E c \in Commands : Send(c)
        \/ UNCHANGED <<handler, inbox, pending, aborted, posted>>
    BY DEF Next, Expire, Decide, vars, chatVars, rowVars, brokerVars
  <1> QED  BY <1>2, <1>3, <1>4, <1>5

LEMMA OnceInit == Init => OInv
  <1> SUFFICES ASSUME Init PROVE OInv
    OBVIOUS
  <1>1. /\ \A h \in Handlers : handler[h].step = "idle"
        /\ \A p \in Pendings : posted[p] = 0
        /\ aborted = {}
    BY DEF Init, Idle
  <1> QED  BY <1>1, InitTyped DEF OInv, OpenIsUntouched, LookupHolds, Untouched,
           PendingActsOnce, AbortedIsNotExecuted

(* One handler executes a pending row at most once, however often it fails *)
(* between two calls and is given the same update again: PendingActsOnce.  *)
THEOREM ActsOnce == ASSUME OneHandler PROVE Spec => []PendingActsOnce
  <1>1. OInv /\ [Next]_vars => OInv'
    BY OnceStep
  <1>2. OInv => PendingActsOnce
    BY DEF OInv
  <1> QED  BY <1>1, <1>2, OnceInit, PTL DEF Spec

(* Nor does it execute what it has reported as cancelled:                  *)
(* AbortedIsNotExecuted.                                                   *)
THEOREM AbortHolds == ASSUME OneHandler PROVE Spec => []AbortedIsNotExecuted
  <1>1. OInv /\ [Next]_vars => OInv'
    BY OnceStep
  <1>2. OInv => AbortedIsNotExecuted
    BY DEF OInv
  <1> QED  BY <1>1, <1>2, OnceInit, PTL DEF Spec
=============================================================================
