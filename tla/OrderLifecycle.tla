---------------------------- MODULE OrderLifecycle ----------------------------
(***************************************************************************)
(* One order from create_order to its end, as live-broker's order service, *)
(* the Bitget REST API, the private WebSocket and Postgres see it.         *)
(*                                                                         *)
(* Handlers run on FastAPI's thread pool, concurrently with the worker     *)
(* thread; none of them takes a lock.  A REST call and every database      *)
(* transaction is a step of its own.  A handler works on what it read at   *)
(* its start (identity, existing) and writes it back with the new status.  *)
(*                                                                         *)
(* An order stands for its client_oid, which is a function of its internal *)
(* id.  The gates that read nothing modelled here (latch, prepaid budget,  *)
(* governance, preflight, runtime gates) are one nondeterministic refusal; *)
(* the latch itself is modelled in SafetyLog.                              *)
(***************************************************************************)
EXTENDS Naturals, Sequences

CONSTANTS
  Roots,              (* internal ids create_order is called with          *)
  Replacements,       (* new_internal_order_ids of replace_order           *)
  Service,            (* scope of the service kill switch                  *)
  Handlers,           (* request threads                                   *)
  Worker,             (* the worker thread                                 *)
  Exempt,             (* reduce-only orders the kill switch lets pass      *)
                      (* (risk_force_reduce_only_on_alert)                 *)
  ActionLogFK,        (* migration 430: an order action needs its order    *)
  PartialRecordsBind, (* the upserts of query_order and of the WebSocket   *)
                      (* sync, which leave three columns out, reach the    *)
                      (* table; psycopg raises "query parameter missing"   *)
  Controls,           (* what the operators use, of the kill switches of a *)
                      (* "service" and a "trade" and "flatten": a bound    *)
  MayCrash,           (* the process may be killed and restarted           *)
  WebSocket           (* the private connection: it delivers every message *)
                      (* ("reliable"), loses some ("lossy") or is "down"   *)

Orders  == Roots \cup Replacements
Threads == Handlers \cup {Worker}
Scopes  == Orders \cup {Service}       \* a trade scope is named by its root

ASSUME OrderAssumption   == Roots \cap Replacements = {} /\ Exempt \subseteq Orders
ASSUME ServiceAssumption == Service \notin Orders
ASSUME ControlAssumption  == Controls \subseteq {"service", "trade", "flatten"}
ASSUME FlagAssumption    ==
  /\ {ActionLogFK, PartialRecordsBind, MayCrash} \subseteq BOOLEAN
  /\ WebSocket \in {"reliable", "lossy", "down"}

VARIABLES
  row,      (* live.orders.status, or "absent"                             *)
  parent,   (* parent_internal_order_id; Service when there is none        *)
  adopted,  (* orders whose row the WebSocket sync, or a cancel or query   *)
            (* by client_oid, created under an internal id of its own      *)
  exch,     (* the order at Bitget                                         *)
  wsq,      (* per order: messages pushed and not yet handled              *)
  armed,    (* scopes whose kill switch is active                          *)
  pc,       (* per thread: what its handler does next                      *)
  lineage,  (* history: the order a replacement chain really began with    *)
  early,    (* history: submissions past their check when the service      *)
            (* switch was armed                                            *)
  swept     (* history: the exchange has confirmed the cancel-all of the   *)
            (* service switch that is armed now                            *)

stored  == <<row, parent, adopted>>
history == <<lineage, early, swept>>
vars    == <<row, parent, adopted, exch, wsq, armed, pc, lineage, early, swept>>

ClosedByBroker == {"canceled", "timed_out", "replaced"}
Terminal       == ClosedByBroker \cup {"filled", "error"}
RowStates      == {"absent", "open"} \cup Terminal
ExchStates     == {"none", "live", "filled", "canceled"}

Steps ==
  {"idle",
   "createGate", "createCheck", "place", "placed", "createRecover", "createPersist",
   "replaceCheck", "modify", "modified", "replaceOld", "replaceNew",
   "cancelCall", "cancelPersist", "timeoutMark",
   "sweepExchange", "sweepList", "sweep", "queryPersist"}

Purposes == {"call", "remote", "safety", "flatten", "timeout"}

(* ord, new: the order the handler works on and its replacement; st: the   *)
(* status it is going to write; todo: the orders a sweep still has to      *)
(* cancel; by: on whose behalf the handler runs, "remote" being a call     *)
(* whose order had no row when it began; barred: history, the armed        *)
(* switches that cover ord since the call began.                           *)
Frame ==
  [at : Steps, ord : Scopes, new : Scopes, st : RowStates, todo : SUBSET Orders,
   by : Purposes, barred : SUBSET Scopes]

Idle ==
  [at |-> "idle", ord |-> Service, new |-> Service, st |-> "absent", todo |-> {},
   by |-> "call", barred |-> {}]

TypeOK ==
  /\ row \in [Orders -> RowStates]
  /\ parent \in [Orders -> Scopes]
  /\ adopted \subseteq Orders
  /\ exch \in [Orders -> ExchStates]
  /\ wsq \in [Orders -> Seq(ExchStates)]
  /\ armed \subseteq Scopes
  /\ pc \in [Threads -> Frame]
  /\ lineage \in [Orders -> Orders]
  /\ early \subseteq Orders
  /\ swept \in BOOLEAN

Init ==
  /\ row = [o \in Orders |-> "absent"]
  /\ parent = [o \in Orders |-> Service]
  /\ adopted = {}
  /\ exch = [o \in Orders |-> "none"]
  /\ wsq = [o \in Orders |-> <<>>]
  /\ armed = {}
  /\ pc = [t \in Threads |-> Idle]
  /\ lineage = [o \in Orders |-> o]
  /\ early = {}
  /\ swept = FALSE

-----------------------------------------------------------------------------
At(t, step)   == pc[t].at = step
Goto(t, step) == pc' = [pc EXCEPT ![t].at = step]
Enter(t, f)   == pc' = [pc EXCEPT ![t] = f]
Return(t)     == Enter(t, Idle)

InTable(o) == row[o] # "absent"
Known(o)   == InTable(o) /\ o \notin adopted       \* by its own internal id
Active     == {o \in Orders : row[o] \notin Terminal \cup {"absent"}}

(* Wrong variant: the order's own id names its trade switch.               *)
TradeRootWithoutChain(o) == o

(* _trade_root_internal_order_id: up the parents as long as there are rows *)
TradeRoot(o) ==
  LET up[x \in Orders] == IF InTable(x) /\ parent[x] # Service THEN up[parent[x]] ELSE x
  IN  up[o]

(* Wrong variant: only the trade scope is compared.                        *)
MatchingTradeOnly(o) == {s \in armed : s = TradeRoot(o)}

(* _matching_kill_switches_for_order *)
Matching(o) == {s \in armed : s = Service \/ s = TradeRoot(o)}

(* The armed switches an observer of the exchange would say cover o.       *)
Covering(o) == {s \in armed : s = Service \/ (s \in Orders /\ lineage[s] = lineage[o])}

(* _assert_kill_switch_allows_submit *)
KillSwitchAllows(o) == Matching(o) = {} \/ o \in Exempt

(* record_order_action inserts a row that references the order.            *)
ActionRecorded(o) == ActionLogFK => Known(o)

(* Wrong variant: the exchange's own word is stored.                       *)
ReportedVerbatim(x) == x

(* Order status as the detail endpoint and the WebSocket report it.        *)
Reported(x) == IF x = "live" THEN "open" ELSE x

LossChoices == CASE WebSocket = "reliable" -> {{}}
                 [] WebSocket = "lossy"    -> SUBSET Orders
                 [] WebSocket = "down"     -> {Orders}

(* The exchange pushes each change of an order to the private WebSocket;   *)
(* without a connection the message is lost.                               *)
Push ==
  \E lost \in LossChoices :
    wsq' = [o \in Orders |-> IF exch'[o] # exch[o] /\ o \notin lost
                              THEN Append(wsq[o], exch'[o]) ELSE wsq[o]]

(* upsert_order under the internal id of the order: an adopted row already *)
(* holds the client_oid, which is UNIQUE, and the insert raises.           *)
Upsert(t, o, st, p) ==
  IF o \in adopted
    THEN Return(t) /\ UNCHANGED stored
    ELSE /\ row' = [row EXCEPT ![o] = st]
         /\ parent' = [parent EXCEPT ![o] = p]
         /\ UNCHANGED adopted
         /\ Return(t)

(* A row for an order the broker knows only from the exchange, under an    *)
(* internal id made up for it; client_oid is UNIQUE.                       *)
Adopt(o, st) ==
  IF InTable(o) THEN UNCHANGED stored
  ELSE /\ row' = [row EXCEPT ![o] = st]
       /\ adopted' = adopted \cup {o}
       /\ UNCHANGED parent

(* An update of a row the handler has read: parent and id stay as read.    *)
UpdateStatus(o, st) ==
  /\ row' = [row EXCEPT ![o] = st]
  /\ UNCHANGED <<parent, adopted>>

-----------------------------------------------------------------------------
(* create_order *)

CallCreate(t, o) ==
  /\ At(t, "idle")
  /\ Enter(t, [Idle EXCEPT !.at = "createGate", !.ord = o, !.barred = Covering(o)])
  /\ UNCHANGED <<stored, exch, wsq, armed, history>>

(* A known internal id is answered as idempotent.                          *)
CreateGate(t) ==
  /\ At(t, "createGate")
  /\ IF Known(pc[t].ord) THEN Return(t) ELSE Goto(t, "createCheck")
  /\ UNCHANGED <<stored, exch, wsq, armed, history>>

CreateRefused(t) ==
  /\ pc[t].at \in {"createGate", "createCheck"}
  /\ Return(t)
  /\ UNCHANGED <<stored, exch, wsq, armed, history>>

CreateCheck(t) ==
  /\ At(t, "createCheck")
  /\ IF KillSwitchAllows(pc[t].ord) THEN Goto(t, "place") ELSE Return(t)
  /\ UNCHANGED <<stored, exch, wsq, armed, history>>

(* place_order is accepted; its answer arrives, or a transport error is    *)
(* all the broker sees, or the client's own retry meets the order it has   *)
(* already placed and is told "duplicate".                                 *)
PlaceAccepted(t) ==
  /\ At(t, "place")
  /\ exch[pc[t].ord] = "none"
  /\ exch' = [exch EXCEPT ![pc[t].ord] = "live"]
  /\ Push
  /\ \E outcome \in {"open", "error", "absent"} :
       Enter(t, [pc[t] EXCEPT !.at = "placed", !.st = outcome])
  /\ UNCHANGED <<stored, armed, history>>

PlaceRejected(t) ==
  /\ At(t, "place")
  /\ Enter(t, [pc[t] EXCEPT !.at = "placed", !.st = "error"])
  /\ UNCHANGED <<stored, exch, wsq, armed, history>>

PlaceDuplicate(t) ==
  /\ At(t, "place")
  /\ exch[pc[t].ord] # "none"
  /\ Enter(t, [pc[t] EXCEPT !.at = "placed", !.st = "absent"])
  /\ UNCHANGED <<stored, exch, wsq, armed, history>>

(* A gate between the journal entry and the request refuses, or the global *)
(* halt raises (no BitgetRestError): nothing is sent, no row is written.   *)
PlaceHalted(t) ==
  /\ At(t, "place")
  /\ Return(t)
  /\ UNCHANGED <<stored, exch, wsq, armed, history>>

(* _call_private records the action, after success and after failure.      *)
PlaceRecorded(t) ==
  /\ At(t, "placed")
  /\ IF ~ActionRecorded(pc[t].ord) THEN Return(t)
     ELSE Goto(t, IF pc[t].st = "absent" THEN "createRecover" ELSE "createPersist")
  /\ UNCHANGED <<stored, exch, wsq, armed, history>>

(* Duplicate: the local row, else the detail from the exchange, else the   *)
(* safety latch is armed (SafetyLog) and the order becomes an error.       *)
CreateRecover(t) ==
  /\ At(t, "createRecover")
  /\ \/ InTable(pc[t].ord) /\ Return(t)
     \/ /\ ~InTable(pc[t].ord)
        /\ \/ Enter(t, [pc[t] EXCEPT !.at = "createPersist",
                                     !.st = Reported(exch[pc[t].ord])])
           \/ Enter(t, [pc[t] EXCEPT !.at = "createPersist", !.st = "error"])
           \/ Return(t)                            \* the detail query raises
  /\ UNCHANGED <<stored, exch, wsq, armed, history>>

(* The acknowledgement has no order id: the detail query gives id and      *)
(* status, or raises.                                                      *)
CreateDetail(t) ==
  /\ At(t, "createPersist") /\ pc[t].st = "open"
  /\ \/ Enter(t, [pc[t] EXCEPT !.st = Reported(exch[pc[t].ord])])
     \/ Return(t)
  /\ UNCHANGED <<stored, exch, wsq, armed, history>>

CreatePersist(t) ==
  /\ At(t, "createPersist")
  /\ Upsert(t, pc[t].ord, pc[t].st, Service)
  /\ UNCHANGED <<exch, wsq, armed, history>>

-----------------------------------------------------------------------------
(* replace_order: modify with a new client_oid cancels the old order and   *)
(* places the new one.  The status of the existing row is not looked at.   *)

CallReplace(t, o, n) ==
  /\ At(t, "idle")
  /\ InTable(o)
  /\ n \in Exempt <=> o \in Exempt                     \* reduce_only is inherited
  /\ Enter(t, [Idle EXCEPT !.at = "replaceCheck", !.ord = o, !.new = n,
                           !.barred = Covering(o)])
  /\ UNCHANGED <<stored, exch, wsq, armed, history>>

ReplaceRefused(t) ==
  /\ At(t, "replaceCheck")
  /\ Return(t)
  /\ UNCHANGED <<stored, exch, wsq, armed, history>>

ReplaceCheck(t) ==
  /\ At(t, "replaceCheck")
  /\ IF KillSwitchAllows(pc[t].ord) /\ ~Known(pc[t].new)
       THEN Goto(t, "modify") ELSE Return(t)
  /\ UNCHANGED <<stored, exch, wsq, armed, history>>

ExchangeModifies(o, n) ==
  /\ exch[o] = "live" /\ exch[n] = "none"
  /\ exch' = [exch EXCEPT ![o] = "canceled", ![n] = "live"]
  /\ lineage' = [lineage EXCEPT ![n] = lineage[o]]
  /\ Push
  /\ UNCHANGED <<early, swept>>

ModifyAccepted(t) ==
  /\ At(t, "modify")
  /\ ExchangeModifies(pc[t].ord, pc[t].new)
  /\ Goto(t, "modified")
  /\ UNCHANGED <<stored, armed>>

(* The answer is lost: the error is recorded and raised, no row changes.   *)
ModifyLost(t) ==
  /\ At(t, "modify")
  /\ ExchangeModifies(pc[t].ord, pc[t].new)
  /\ Return(t)
  /\ UNCHANGED <<stored, armed>>

(* Wrong variant: the failure of modify_order is swallowed.                *)
ModifyFailsButGoesOn(t) ==
  /\ At(t, "modify")
  /\ Enter(t, [pc[t] EXCEPT !.at = "replaceOld", !.st = "open"])
  /\ UNCHANGED <<stored, exch, wsq, armed, history>>

ModifyFails(t) ==
  /\ At(t, "modify")
  /\ Return(t)
  /\ UNCHANGED <<stored, exch, wsq, armed, history>>

(* The action is recorded under the new id, whose row does not exist yet;  *)
(* then the detail of the new order is queried, and may be missing.        *)
ReplaceRecorded(t) ==
  /\ At(t, "modified")
  /\ \/ /\ ActionRecorded(pc[t].new)
        /\ \E st \in {"open", Reported(exch[pc[t].new])} :
             Enter(t, [pc[t] EXCEPT !.at = "replaceOld", !.st = st])
     \/ Return(t)                   \* the insert or the detail query raises
  /\ UNCHANGED <<stored, exch, wsq, armed, history>>

ReplaceOld(t) ==
  /\ At(t, "replaceOld")
  /\ UpdateStatus(pc[t].ord, "replaced")
  /\ Goto(t, "replaceNew")
  /\ UNCHANGED <<exch, wsq, armed, history>>

ReplaceNew(t) ==
  /\ At(t, "replaceNew")
  /\ Upsert(t, pc[t].new, pc[t].st, pc[t].ord)
  /\ UNCHANGED <<exch, wsq, armed, history>>

-----------------------------------------------------------------------------
(* cancel_order, for an operator, a safety sweep or a timeout.  An order   *)
(* without a row is named by its client_oid or exchange id.                *)

CallCancel(t, o) ==
  /\ At(t, "idle")
  /\ Enter(t, [Idle EXCEPT !.at = "cancelCall", !.ord = o,
                           !.by = IF InTable(o) THEN "call" ELSE "remote"])
  /\ UNCHANGED <<stored, exch, wsq, armed, history>>

(* cancel_order raises: a sweep catches it and goes on with the next order *)
CancelRaises(t) ==
  IF pc[t].by \in {"call", "remote"} THEN Return(t) ELSE Goto(t, "sweep")

(* The action of a call for an order without a row names no order at all.  *)
CallRecorded(t) == pc[t].by = "remote" => ~ActionLogFK

ExchangeCancels(os) ==
  exch' = [o \in Orders |-> IF o \in os /\ exch[o] = "live" THEN "canceled" ELSE exch[o]]

CancelAccepted(t) ==
  /\ At(t, "cancelCall")
  /\ exch[pc[t].ord] = "live"
  /\ ExchangeCancels({pc[t].ord})
  /\ Push
  /\ IF CallRecorded(t) THEN Goto(t, "cancelPersist") ELSE Return(t)
  /\ UNCHANGED <<stored, armed, history>>

CancelLost(t) ==
  /\ At(t, "cancelCall")
  /\ exch[pc[t].ord] = "live"
  /\ ExchangeCancels({pc[t].ord})
  /\ Push
  /\ CancelRaises(t)
  /\ UNCHANGED <<stored, armed, history>>

(* Wrong variant: the failure of the REST call is swallowed.               *)
CancelFailsButGoesOn(t) ==
  /\ At(t, "cancelCall")
  /\ Goto(t, "cancelPersist")
  /\ UNCHANGED <<stored, exch, wsq, armed, history>>

(* Not open any more, a transport error, or the global halt.               *)
CancelFails(t) ==
  /\ At(t, "cancelCall")
  /\ CancelRaises(t)
  /\ UNCHANGED <<stored, exch, wsq, armed, history>>

CancelPersist(t) ==
  /\ At(t, "cancelPersist")
  /\ IF pc[t].by = "remote" THEN Adopt(pc[t].ord, "canceled")
     ELSE UpdateStatus(pc[t].ord, "canceled")
  /\ CASE pc[t].by \in {"call", "remote"}    -> Return(t)
       [] pc[t].by \in {"safety", "flatten"} -> Goto(t, "sweep")
       [] pc[t].by = "timeout"               -> Goto(t, "timeoutMark")
  /\ UNCHANGED <<exch, wsq, armed, history>>

(* run_order_timeouts: the active rows that are old enough, one by one     *)
TimeoutScan(t, due) ==
  /\ At(t, "idle")
  /\ due # {}
  /\ Enter(t, [Idle EXCEPT !.at = "sweep", !.by = "timeout", !.todo = due])
  /\ UNCHANGED <<stored, exch, wsq, armed, history>>

TimeoutMark(t) ==
  /\ At(t, "timeoutMark")
  /\ UpdateStatus(pc[t].ord, "timed_out")
  /\ Goto(t, "sweep")
  /\ UNCHANGED <<exch, wsq, armed, history>>

SweepNext(t) ==
  /\ At(t, "sweep")
  /\ IF pc[t].todo = {} THEN Return(t)
     ELSE \E o \in pc[t].todo :
            Enter(t, [pc[t] EXCEPT !.at = "cancelCall", !.ord = o, !.todo = @ \ {o}])
  /\ UNCHANGED <<stored, exch, wsq, armed, history>>

-----------------------------------------------------------------------------
(* Kill switches *)

Submitting == {pc[t].ord : t \in {u \in Threads : pc[u].at = "place"}}
         \cup {pc[t].new : t \in {u \in Threads : pc[u].at = "modify"}}

ArmService(t) ==
  /\ At(t, "idle")
  /\ "service" \in Controls /\ Service \notin armed
  /\ armed' = armed \cup {Service}
  /\ early' = Submitting
  /\ Enter(t, [Idle EXCEPT !.at = "sweepExchange", !.by = "safety"])
  /\ UNCHANGED <<stored, exch, wsq, lineage, swept>>

(* A trade switch needs a row and is keyed by the root of its chain.       *)
ArmTrade(t, o) ==
  /\ At(t, "idle")
  /\ "trade" \in Controls /\ InTable(o)
  /\ \E root \in Orders \ armed :
       /\ root = TradeRoot(o)
       /\ armed' = armed \cup {root}
       /\ Enter(t, [Idle EXCEPT !.at = "sweepList", !.by = "safety", !.ord = root])
  /\ UNCHANGED <<stored, exch, wsq, history>>

ReleaseSwitch(t, s) ==
  /\ At(t, "idle")
  /\ s \in armed
  /\ armed' = armed \ {s}
  /\ pc' = [u \in Threads |-> [pc[u] EXCEPT !.barred = @ \ {s}]]
  /\ early' = IF s = Service THEN {} ELSE early
  /\ swept' = (swept /\ s # Service)
  /\ UNCHANGED <<stored, exch, wsq, lineage>>

(* _cancel_all_orders_for_scope: one call cancels everything at Bitget,    *)
(* its action is recorded under a fresh uuid, then the rows are cancelled  *)
(* one by one, an error of one of them being audited and skipped.  When    *)
(* the first call raises, emergency_flatten goes on to its closing order.  *)
SweepRaises(t) == IF pc[t].by = "flatten" THEN Goto(t, "sweep") ELSE Return(t)

SweepExchange(t) ==
  /\ At(t, "sweepExchange")
  /\ ExchangeCancels(Orders)
  /\ Push
  /\ swept' = (swept \/ Service \in armed)
  /\ IF ActionLogFK THEN SweepRaises(t) ELSE Goto(t, "sweepList")
  /\ UNCHANGED <<stored, armed, lineage, early>>

SweepFails(t) ==
  /\ At(t, "sweepExchange")
  /\ SweepRaises(t)
  /\ UNCHANGED <<stored, exch, wsq, armed, history>>

SweepList(t) ==
  /\ At(t, "sweepList")
  /\ Enter(t, [pc[t] EXCEPT !.at = "sweep",
        !.todo = {o \in Active : pc[t].ord \in {Service, TradeRoot(o)}}])
  /\ UNCHANGED <<stored, exch, wsq, armed, history>>

(* emergency_flatten sweeps the account or the chain of one trade, then    *)
(* closes the position, if there is one, with create_reduce_only_order.    *)
CallFlatten(t) ==
  /\ At(t, "idle") /\ "flatten" \in Controls
  /\ \/ Enter(t, [Idle EXCEPT !.at = "sweepExchange", !.by = "flatten"])
     \/ \E o, root \in Orders :
          /\ InTable(o) /\ root = TradeRoot(o)
          /\ Enter(t, [Idle EXCEPT !.at = "sweepList", !.by = "flatten", !.ord = root])
  /\ UNCHANGED <<stored, exch, wsq, armed, history>>

FlattenCloses(t, o) ==
  /\ At(t, "sweep") /\ pc[t].by = "flatten" /\ pc[t].todo = {}
  /\ row[o] = "absent"                                    \* a fresh uuid
  /\ Enter(t, [Idle EXCEPT !.at = "createGate", !.ord = o, !.barred = Covering(o)])
  /\ UNCHANGED <<stored, exch, wsq, armed, history>>

(* cancel_all_orders_operator: the action "cancel_all" is not among those  *)
(* the CHECK of live.order_actions admits, so its insert raises and the    *)
(* local part that follows is never reached.                               *)
CancelAllOperator(t) ==
  /\ At(t, "idle")
  /\ ExchangeCancels(Orders)
  /\ Push
  /\ UNCHANGED <<stored, armed, pc, history>>

-----------------------------------------------------------------------------
(* query_order reads the remote detail and writes it into the row it read  *)
(* before, or into a new one.  An unknown order raises "not found".        *)

CallQuery(t, o) ==
  /\ At(t, "idle")
  /\ exch[o] # "none"
  /\ Enter(t, [Idle EXCEPT !.at = "queryPersist", !.ord = o, !.st = Reported(exch[o]),
                           !.by = IF InTable(o) THEN "call" ELSE "remote"])
  /\ UNCHANGED <<stored, exch, wsq, armed, history>>

QueryPersist(t) ==
  /\ At(t, "queryPersist")
  /\ IF ~PartialRecordsBind \/ ~CallRecorded(t) THEN UNCHANGED stored
     ELSE IF pc[t].by = "remote" THEN Adopt(pc[t].ord, pc[t].st)
     ELSE UpdateStatus(pc[t].ord, pc[t].st)
  /\ Return(t)
  /\ UNCHANGED <<exch, wsq, armed, history>>

(* The worker takes an order message off its queue: the row is found by    *)
(* order id or client_oid and its status overwritten; an unknown order     *)
(* gets a row with a derived internal id.                                  *)
HandleOrderEvent(o) ==
  /\ At(Worker, "idle")
  /\ wsq[o] # <<>>
  /\ wsq' = [wsq EXCEPT ![o] = Tail(@)]
  /\ IF ~PartialRecordsBind THEN UNCHANGED stored
     ELSE /\ row' = [row EXCEPT ![o] = Reported(Head(wsq[o]))]
          /\ adopted' = IF InTable(o) THEN adopted ELSE adopted \cup {o}
          /\ UNCHANGED parent
  /\ UNCHANGED <<exch, armed, pc, history>>

(* External: a live order is filled.                                       *)
ExchangeFills(o) ==
  /\ exch[o] = "live"
  /\ exch' = [exch EXCEPT ![o] = "filled"]
  /\ Push
  /\ UNCHANGED <<stored, armed, pc, history>>

(* The process dies: handlers and queued messages are gone, tables stay.   *)
Crash ==
  /\ MayCrash
  /\ pc' = [t \in Threads |-> Idle]
  /\ wsq' = [o \in Orders |-> <<>>]
  /\ UNCHANGED <<stored, exch, armed, history>>

-----------------------------------------------------------------------------
CreateStep(t) ==
  \/ \E o \in Roots : CallCreate(t, o)
  \/ CreateGate(t) \/ CreateRefused(t) \/ CreateCheck(t)
  \/ PlaceAccepted(t) \/ PlaceRejected(t) \/ PlaceDuplicate(t) \/ PlaceHalted(t)
  \/ PlaceRecorded(t) \/ CreateRecover(t) \/ CreateDetail(t) \/ CreatePersist(t)

ReplaceStep(t) ==
  \/ \E o \in Orders, n \in Replacements : CallReplace(t, o, n)
  \/ ReplaceRefused(t) \/ ReplaceCheck(t)
  \/ ModifyAccepted(t) \/ ModifyLost(t) \/ ModifyFails(t)
  \/ ReplaceRecorded(t) \/ ReplaceOld(t) \/ ReplaceNew(t)

CancelStep(t) ==
  \/ \E o \in Orders : CallCancel(t, o)
  \/ CancelAccepted(t) \/ CancelLost(t) \/ CancelFails(t) \/ CancelPersist(t)
  \/ \E due \in SUBSET Active : TimeoutScan(t, due)
  \/ TimeoutMark(t) \/ SweepNext(t)

SwitchStep(t) ==
  \/ ArmService(t) \/ \E o \in Orders : ArmTrade(t, o)
  \/ \E s \in Scopes : ReleaseSwitch(t, s)
  \/ SweepExchange(t) \/ SweepFails(t) \/ SweepList(t)
  \/ CallFlatten(t) \/ \E o \in Roots : FlattenCloses(t, o)
  \/ CancelAllOperator(t)

QueryStep(t) == (\E o \in Orders : CallQuery(t, o)) \/ QueryPersist(t)

ThreadStep(t) ==
  CreateStep(t) \/ ReplaceStep(t) \/ CancelStep(t) \/ SwitchStep(t) \/ QueryStep(t)

Next ==
  \/ \E t \in Threads : ThreadStep(t)
  \/ \E o \in Orders : HandleOrderEvent(o) \/ ExchangeFills(o)
  \/ Crash

Spec == Init /\ [][Next]_vars

-----------------------------------------------------------------------------
(* A row the broker has closed, or been told is filled, stands for an      *)
(* order that no longer trades: no late answer, stale read, retry or       *)
(* delayed message lets list_active_orders drop a live order as canceled,  *)
(* replaced, timed out or filled (cancel_order, replace_order,             *)
(* _mark_order_as_timed_out, query_order, _upsert_order_from_ws_item).     *)
ClosedRowIsClosedAtExchange ==
  \A o \in Orders : row[o] \in ClosedByBroker \cup {"filled"} => exch[o] # "live"

Ended(o) == exch[o] \in {"filled", "canceled"}

Closed == ClosedByBroker \cup {"filled"}

(* What a handler with frame f knows of the exchange, and is going to      *)
(* write, is still so, however long ago it was told.                       *)
KnowledgeHolds(f) ==
  /\ f.at \in Steps \ {"idle", "sweepExchange", "sweepList", "sweep"} => f.ord \in Orders
  /\ f.at \in {"replaceCheck", "modify", "modified", "replaceOld", "replaceNew"}
       => f.new \in Orders
  /\ f.at = "placed" => f.st \in {"open", "error", "absent"}
  /\ f.at \in {"placed", "createPersist"} /\ f.st \in {"open", "absent"}
       => exch[f.ord] # "none"
  /\ f.at = "createRecover" => exch[f.ord] # "none"
  /\ f.at \in {"modified", "replaceOld", "replaceNew"} => exch[f.new] # "none"
  /\ f.at \in {"modified", "replaceOld", "cancelPersist", "timeoutMark"} => Ended(f.ord)
  /\ f.at \in {"createPersist", "queryPersist"} /\ f.st \in Closed => Ended(f.ord)
  /\ f.at \in {"replaceOld", "replaceNew"} /\ f.st \in Closed => Ended(f.new)

(* No handler, row or undelivered message claims an end of an order that   *)
(* has not ended (cancel_order, replace_order, _create_order, query_order, *)
(* _upsert_order_from_ws_item): ClosedRowIsClosedAtExchange, made          *)
(* inductive.                                                              *)
NobodyClaimsFalseEnd ==
  /\ \A o \in Orders : row[o] \in Closed => Ended(o)
  /\ \A t \in Threads : KnowledgeHolds(pc[t])
  /\ \A o \in Orders : \A i \in DOMAIN wsq[o] :
       /\ wsq[o][i] # "none"
       /\ wsq[o][i] # "live" => Ended(o)

(* A create or replace that began while a kill switch covering its order   *)
(* was armed does not place an order at the exchange, nor replace a live   *)
(* one, before that switch is released, even if the order is the n-th      *)
(* replacement of the one the trade switch was armed for                   *)
(* (_trade_root_internal_order_id).                                        *)
ArmedSwitchBlocksLaterCalls ==
  \A t \in Threads :
    /\ At(t, "place") \/ (At(t, "modify") /\ exch[pc[t].ord] = "live")
    /\ pc[t].ord \notin Exempt
    => pc[t].barred = {}

(* Once Bitget has confirmed the cancel-all of an armed service switch,    *)
(* only an order whose call was past its kill-switch check when the switch *)
(* was armed can be live (arm_kill_switch, _assert_kill_switch_allows_submit). *)
SweptServiceLeavesOnlyEarlyOrders ==
  swept => \A o \in Orders : exch[o] = "live" => o \in early \cup Exempt

(* What a create or replace in progress has been told is at the exchange.  *)
Acknowledged(t) ==
  \/ pc[t].at \in {"placed", "createPersist"} /\ pc[t].st = "open"
  \/ pc[t].at \in {"modified", "replaceOld", "replaceNew"}

Submitted(t) == IF pc[t].new = Service THEN pc[t].ord ELSE pc[t].new

(* "live.orders + live.order_actions bilden das lokale Order-Journal fuer  *)
(* Submission, Cancel, Replace und Query": a call that was told its order  *)
(* is at the exchange does not end without a row for it (_create_order,    *)
(* replace_order, _call_private).                                          *)
AcknowledgedOrderIsJournalled ==
  [][ \A t \in Threads :
        Acknowledged(t) /\ pc'[t].at = "idle" => row'[Submitted(t)] # "absent" ]_vars

(* "Cancel/Replace darf keine Duplikatorder erzeugen und muss den          *)
(* lokalen/exchange State konsistent halten": a replace_order that ends    *)
(* leaves no live order at the exchange that the broker has no row for.    *)
ReplaceLeavesNoUnknownOrder ==
  [][ \A t \in Threads :
        /\ pc[t].at \in {"modify", "modified", "replaceOld", "replaceNew"}
        /\ pc'[t].at = "idle"
        => (exch'[pc[t].new] = "live" => row'[pc[t].new] # "absent") ]_vars

-----------------------------------------------------------------------------
(* Fairness.  A handler that has begun ends, the worker keeps coming back  *)
(* to run_order_timeouts and to its queue, every row becomes older than    *)
(* live_order_timeout_sec, and the exchange does not refuse the cancel of  *)
(* a live order for ever.                                                  *)

Progress(t)    == pc[t].at # "idle" /\ ThreadStep(t)
ScanAll        == TimeoutScan(Worker, Active)
CancelOf(o)    == pc[Worker].ord = o /\ CancelAccepted(Worker)

Fairness ==
  /\ \A t \in Threads : WF_vars(Progress(t))
  /\ SF_vars(ScanAll)
  /\ \A o \in Orders : SF_vars(CancelOf(o)) /\ SF_vars(HandleOrderEvent(o))

FairSpec == Spec /\ Fairness

(* The timeout path reaches every live order whose row is active: it does  *)
(* not stay at the exchange for ever, unless a concurrent attempt at the   *)
(* same create writes "error" over its row (run_order_timeouts).           *)
ActiveLiveOrderIsCancelled ==
  \A o \in Orders :
    exch[o] = "live" /\ row[o] = "open" ~> exch[o] # "live" \/ row[o] = "error"

(* "LIVE_ORDER_TIMEOUT_SEC erzwingt einen echten Timeout-Cancel-Pfad fuer  *)
(* haengende Live-Orders": no order the broker has a row for hangs at the  *)
(* exchange for ever.                                                      *)
HangingOrderIsCancelled ==
  \A o \in Orders : exch[o] = "live" /\ InTable(o) ~> exch[o] # "live"

(* "Dort persistiert ExchangeStateSyncService Order-Lifecycle-Updates": a  *)
(* fill the WebSocket reports ends the life of the active row.             *)
FilledRowLeavesActive ==
  \A o \in Orders : exch[o] = "filled" /\ row[o] = "open" ~> row[o] # "open"
=============================================================================
