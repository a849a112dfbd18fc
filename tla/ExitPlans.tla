------------------------------- MODULE ExitPlans -------------------------------
(***************************************************************************)
(* live.exit_plans: the stop and take-profit plans live-broker keeps per   *)
(* trade (the root order of a replacement chain) and carries out itself.   *)
(*                                                                         *)
(* Requests (create, replace and cancel of the entry order) and the worker *)
(* write the same rows without a lock.  The worker lists the plans once    *)
(* per tick and then works through its copies: an upsert writes a whole    *)
(* copy back.  The position it sees is the latest snapshot in the table.   *)
(*                                                                         *)
(* The trades of the model share one symbol and one side, and so one       *)
(* position; plans of different symbols or sides do not meet.  Prices are  *)
(* abstracted to what evaluate_exit_plan decides from them: how many       *)
(* take-profit targets are reached, or that the plan closes in full (stop, *)
(* runner trail, time stop).  A plan of n units has n targets of one unit. *)
(***************************************************************************)
EXTENDS Naturals, Sequences, FiniteSets, Functions

CONSTANTS
  Trades,        (* root orders with a stop or a target                    *)
  Priced,        (* trades whose request names a price (limit orders, or   *)
                 (* an entry_price in the signal)                          *)
  Size,          (* units of an entry order, and number of targets         *)
  PartialFills,  (* entries may be filled in parts                         *)
  MaxReplaces,   (* replacements of one entry order: a bound               *)
  Cancels,       (* entries may be cancelled                               *)
  Failures,      (* what may go wrong: "submit", "hook", "build", "market" *)
                 (* or "crash"                                             *)
  MaxFailures    (* how often in a behaviour: a bound                      *)

ASSUME TradeAssumption == Priced \subseteq Trades
ASSUME SizeAssumption  == {Size, MaxReplaces, MaxFailures} \subseteq Nat /\ Size > 0
ASSUME KindAssumption  ==
  /\ {PartialFills, Cancels} \subseteq BOOLEAN
  /\ Failures \subseteq {"submit", "hook", "build", "market", "crash"}

VARIABLES
  plan,      (* per trade: its row in live.exit_plans                      *)
  request,   (* per trade: what the request thread does next               *)
  entry,     (* per trade: the entry order at Bitget and what it lacks     *)
  exits,     (* per trade: units of exit orders not executed yet           *)
  position,  (* units held at Bitget                                       *)
  feed,      (* positions Bitget has pushed and the worker not yet handled *)
  snapshot,  (* quantity in the latest positions snapshot                  *)
  price,     (* targets the price has reached, or Stop                     *)
  worker,    (* the worker thread: its copies of plans, and the one in hand*)
  builds,    (* per trade: how often a request came to write its plan      *)
  taken,     (* history: <<trade, build, target>> with an exit submitted   *)
  failures   (* how many failures there have been                          *)

tables == <<plan, snapshot>>
bitget == <<entry, exits, position, feed, price>>
vars   == <<plan, request, entry, exits, position, feed, snapshot, price, worker, builds,
            taken, failures>>

Targets == 1..Size
Stop    == Size + 1
Alive   == {"pending", "active", "closing"}
Ended   == {"closed", "cancelled", "invalid"}

(* build tells one request's plan from the next (stop, targets, sizes are  *)
(* new); left is remaining_qty, hit is hit_tp_indices.                     *)
Plan ==
  [state : {"none"} \cup Alive \cup Ended, build : Nat, size : Nat, left : Nat,
   hit : SUBSET Targets]

NoPlan == [state |-> "none", build |-> 0, size |-> 0, left |-> 0, hit |-> {}]

(* An exit action: the units it closes and the target it takes, 0 for a    *)
(* close in full.                                                          *)
Action == [qty : Nat, target : 0..Size]

NoWork ==
  [at |-> "idle", todo |-> {}, trade |-> {}, copy |-> NoPlan, seen |-> 0,
   actions |-> <<>>, left |-> 0]

TypeOK ==
  /\ plan \in [Trades -> Plan]
  /\ request \in [Trades -> [at : {"idle", "persist", "replaced", "canceled", "discard"},
                             copy : Plan]]
  /\ entry \in [Trades -> [state : {"none", "working", "done"}, open : 0..Size]]
  /\ exits \in [Trades -> Nat]
  /\ {position, snapshot} \subseteq Nat
  /\ feed \in Seq(Nat)
  /\ price \in 0..Stop
  /\ worker.at \in {"idle", "next", "close", "finalize", "evaluate", "submit", "store"}
  /\ worker.todo \subseteq Trades \X Plan
  /\ worker.trade \subseteq Trades /\ Cardinality(worker.trade) <= 1
  /\ worker.copy \in Plan
  /\ worker.actions \in Seq(Action)
  /\ {worker.seen, worker.left} \subseteq Nat
  /\ builds \in [Trades -> 0..(MaxReplaces + 1)]
  /\ taken \subseteq Trades \X Nat \X Targets
  /\ failures \in 0..MaxFailures

Init ==
  /\ plan = [r \in Trades |-> NoPlan]
  /\ request = [r \in Trades |-> [at |-> "idle", copy |-> NoPlan]]
  /\ entry = [r \in Trades |-> [state |-> "none", open |-> 0]]
  /\ exits = [r \in Trades |-> 0]
  /\ position = 0 /\ snapshot = 0 /\ feed = <<>>
  /\ price = 0
  /\ worker = NoWork
  /\ builds = [r \in Trades |-> 0]
  /\ taken = {}
  /\ failures = 0

-----------------------------------------------------------------------------
Least(m, n) == IF m < n THEN m ELSE n

Fails(kind) ==
  /\ kind \in Failures /\ failures < MaxFailures
  /\ failures' = failures + 1

Request(r, at) == request' = [request EXCEPT ![r].at = at]

(* Wrong variant: the plan is monitored before there is a position.        *)
BuiltActive(r) ==
  [state |-> "active", build |-> builds[r] + 1, size |-> Size, left |-> Size, hit |-> {}]

(* A price is known from the request, or from the context of the old row,  *)
(* where a plan that was activated once keeps its entry price.             *)
HasPrice(r) == r \in Priced \/ plan[r].state \in {"active", "closing", "closed"}

(* _build_plan_record of a request: with a price it is "active" at once,   *)
(* whether or not the entry has been filled.                               *)
Built(r) ==
  [state |-> IF HasPrice(r) THEN "active" ELSE "pending", build |-> builds[r] + 1,
   size |-> Size, left |-> Size, hit |-> {}]

(* create_order: the preview is built before the order is sent, the plan   *)
(* persisted after it is acknowledged.                                     *)
CreateAccepted(r) ==
  /\ entry[r].state = "none"
  /\ entry' = [entry EXCEPT ![r] = [state |-> "working", open |-> Size]]
  /\ Request(r, "persist")
  /\ UNCHANGED <<tables, exits, position, feed, price, worker, builds, taken, failures>>

(* persist_order_exit_plan *)
PersistPlan(r) ==
  /\ request[r].at = "persist"
  /\ plan' = [plan EXCEPT ![r] = Built(r)]
  /\ builds' = [builds EXCEPT ![r] = @ + 1]
  /\ Request(r, "idle")
  /\ UNCHANGED <<bitget, snapshot, worker, taken, failures>>

(* replace_order: the new order has the full size again; units filled so   *)
(* far stay in the position.                                               *)
ReplaceAccepted(r) ==
  /\ request[r].at = "idle"
  /\ entry[r].state = "working" /\ builds[r] <= MaxReplaces
  /\ entry' = [entry EXCEPT ![r].open = Size]
  /\ Request(r, "replaced")
  /\ UNCHANGED <<tables, exits, position, feed, price, worker, builds, taken, failures>>

(* on_order_replaced builds the plan anew, whatever state the old one is   *)
(* in; of the old row it needs only that there is one, or new presets.     *)
OnOrderReplaced(r) ==
  /\ request[r].at = "replaced"
  /\ \/ plan' = [plan EXCEPT ![r] = Built(r)]
     \/ plan[r].state = "none" /\ UNCHANGED plan
  /\ builds' = [builds EXCEPT ![r] = @ + 1]
  /\ Request(r, "idle")
  /\ UNCHANGED <<bitget, snapshot, worker, taken, failures>>

(* cancel_order, for an operator, a sweep or a timeout *)
CancelAccepted(r) ==
  /\ Cancels /\ request[r].at = "idle"
  /\ entry[r].state = "working"
  /\ entry' = [entry EXCEPT ![r] = [state |-> "done", open |-> 0]]
  /\ Request(r, "canceled")
  /\ UNCHANGED <<tables, exits, position, feed, price, worker, builds, taken, failures>>

(* on_order_canceled reads the plan: only a pending one is discarded.      *)
OnOrderCanceled(r) ==
  /\ request[r].at = "canceled"
  /\ request' = [request EXCEPT
       ![r] = [at |-> IF plan[r].state = "pending" THEN "discard" ELSE "idle",
               copy |-> IF plan[r].state = "pending" THEN plan[r] ELSE NoPlan]]
  /\ UNCHANGED <<tables, bitget, worker, builds, taken, failures>>

DiscardPlan(r) ==
  /\ request[r].at = "discard"
  /\ plan' = [plan EXCEPT ![r] = [request[r].copy EXCEPT !.state = "cancelled"]]
  /\ request' = [request EXCEPT ![r] = [at |-> "idle", copy |-> NoPlan]]
  /\ UNCHANGED <<bitget, snapshot, worker, builds, taken, failures>>

(* The request raises between the exchange's answer and the plan.          *)
HookFails(r) ==
  /\ request[r].at # "idle"
  /\ Fails("hook")
  /\ request' = [request EXCEPT ![r] = [at |-> "idle", copy |-> NoPlan]]
  /\ UNCHANGED <<tables, bitget, worker, builds, taken>>

-----------------------------------------------------------------------------
(* run_once *)

(* Wrong variant: plans still pending are not looked at.                   *)
ListedWithoutPending == {r \in Trades : plan[r].state \in {"active", "closing"}}

(* Wrong variant: plans that have ended are looked at again.               *)
ListedWithEnded == {r \in Trades : plan[r].state # "none"}

(* list_active_exit_plans *)
Listed == {r \in Trades : plan[r].state \in Alive}

ListPlans ==
  /\ worker.at = "idle"
  /\ worker' = [NoWork EXCEPT !.at = "next", !.todo = {<<r, plan[r]>> : r \in Listed}]
  /\ UNCHANGED <<tables, bitget, request, builds, taken, failures>>

NextPlan == worker' = [NoWork EXCEPT !.at = "next", !.todo = worker.todo]

TickEnds ==
  /\ worker.at = "next" /\ worker.todo = {}
  /\ worker' = NoWork
  /\ UNCHANGED <<tables, bitget, request, builds, taken, failures>>

(* One plan of the list: read the position, then decide by the state of    *)
(* the copy.  Nothing is done for a closing plan that still has one.       *)
LookAt(r, copy) ==
  /\ worker.at = "next"
  /\ <<r, copy>> \in worker.todo
  /\ LET step == CASE copy.state \in {"closing", "active"} /\ snapshot = 0 -> "close"
                   [] copy.state = "pending" /\ snapshot > 0               -> "finalize"
                   [] copy.state \notin {"closing", "pending"} /\ snapshot > 0 -> "evaluate"
                   [] OTHER                                                -> "next"
         rest == worker.todo \ {<<r, copy>>}
     IN  worker' = IF step = "next" THEN [NoWork EXCEPT !.at = "next", !.todo = rest]
                   ELSE [NoWork EXCEPT !.at = step, !.todo = rest, !.trade = {r},
                                       !.copy = copy, !.seen = snapshot]
  /\ UNCHANGED <<tables, bitget, request, builds, taken, failures>>

Writes(r, at) == worker.at = at /\ worker.trade = {r}

(* _close_plan *)
ClosePlan(r) ==
  /\ Writes(r, "close")
  /\ plan' = [plan EXCEPT ![r] = [worker.copy EXCEPT !.state = "closed", !.left = 0]]
  /\ NextPlan
  /\ UNCHANGED <<bitget, request, snapshot, builds, taken, failures>>

(* _finalize_pending_plan: size and price come from the position.          *)
FinalizePlan(r) ==
  /\ Writes(r, "finalize")
  /\ plan' = [plan EXCEPT ![r] = [worker.copy EXCEPT !.state = "active",
                                    !.size = worker.seen, !.left = worker.seen]]
  /\ NextPlan
  /\ UNCHANGED <<bitget, request, snapshot, builds, taken, failures>>

(* The plan does not validate against the position, or the snapshot has no *)
(* entry price and the plan stays pending.                                 *)
FinalizeFails(r) ==
  /\ Writes(r, "finalize")
  /\ Fails("build")
  /\ \/ plan' = [plan EXCEPT ![r] = [worker.copy EXCEPT !.state = "invalid"]]
     \/ plan' = [plan EXCEPT ![r] = [worker.copy EXCEPT !.size = worker.seen,
                                                         !.left = worker.seen]]
  /\ NextPlan
  /\ UNCHANGED <<bitget, request, snapshot, builds, taken>>

(* Wrong variant: what earlier exits have taken is not subtracted.         *)
PositionOnly(copy, seen) == seen

(* min(position, remaining_qty) in _evaluate_active_plan *)
CurrentQty(copy, seen) == IF copy.left > 0 THEN Least(seen, copy.left) ELSE seen

(* evaluate_exit_plan: a close in full, or the reached targets not yet     *)
(* hit, in order, as long as units remain.                                 *)
Decision(copy, qty) ==
  IF price = Stop THEN <<[qty |-> qty, target |-> 0]>>
  ELSE LET open  == {i \in 1..price : i \notin copy.hit /\ i <= copy.size}
           rank(i) == Cardinality({j \in open : j <= i})
           due   == {i \in open : rank(i) <= qty}
       IN  [n \in 1..Cardinality(due) |->
              [qty |-> 1, target |-> CHOOSE i \in due : rank(i) = n]]

(* Without an exit the copy is written back all the same; if the runner or *)
(* the break-even stop has moved, remaining_qty becomes the quantity of    *)
(* this evaluation.                                                        *)
EvaluatePlan(r) ==
  /\ Writes(r, "evaluate")
  /\ LET qty == CurrentQty(worker.copy, worker.seen)
     IN  IF Decision(worker.copy, qty) = <<>>
           THEN /\ \E left \in {worker.copy.left, qty} :
                     plan' = [plan EXCEPT ![r] = [worker.copy EXCEPT !.left = left]]
                /\ NextPlan
           ELSE /\ worker' = [worker EXCEPT !.at = "submit", !.left = qty,
                                !.actions = Decision(worker.copy, qty)]
                /\ UNCHANGED plan
  /\ UNCHANGED <<bitget, request, snapshot, builds, taken, failures>>

(* No mark price, or the market query raises: nothing is stored.           *)
MarketFails(r) ==
  /\ Writes(r, "evaluate")
  /\ Fails("market")
  /\ NextPlan
  /\ UNCHANGED <<tables, bitget, request, builds, taken>>

(* Wrong variant: the target an exit has been submitted for is not marked. *)
NotMarked(copy, action) == copy.hit

(* Wrong variant: the index stored is one too high.                        *)
MarkedNext(copy, action) ==
  IF action.target = 0 THEN copy.hit ELSE copy.hit \cup {action.target + 1}

(* The hits of updated_tp_plan: marked by evaluate_exit_plan, stored with  *)
(* the rest of the plan after the last submission.                         *)
Marked(copy, action) ==
  IF action.target = 0 THEN copy.hit ELSE copy.hit \cup {action.target}

(* create_reduce_only_order of the next action; "closing" when nothing     *)
(* remains or the close is in full.                                        *)
SubmitExit(r) ==
  /\ Writes(r, "submit")
  /\ LET action == Head(worker.actions)
         left   == IF action.qty > worker.left THEN 0 ELSE worker.left - action.qty
         ends   == action.target = 0 \/ left = 0
     IN  /\ exits' = [exits EXCEPT ![r] = @ + action.qty]
         /\ taken' = IF action.target = 0 THEN taken
                     ELSE taken \cup {<<r, worker.copy.build, action.target>>}
         /\ worker' = [worker EXCEPT
              !.at = IF Len(worker.actions) = 1 THEN "store" ELSE "submit",
              !.actions = Tail(@), !.left = left,
              !.copy.state = IF ends THEN "closing" ELSE @,
              !.copy.hit = Marked(worker.copy, action)]
  /\ UNCHANGED <<tables, request, entry, position, feed, price, builds, failures>>

(* It raises: run_once audits the failure and goes on with the next plan;  *)
(* what was submitted before is not stored.                                *)
SubmitFails(r) ==
  /\ Writes(r, "submit")
  /\ Fails("submit")
  /\ NextPlan
  /\ UNCHANGED <<tables, bitget, request, builds, taken>>

StorePlan(r) ==
  /\ Writes(r, "store")
  /\ plan' = [plan EXCEPT ![r] = [worker.copy EXCEPT !.left = worker.left]]
  /\ NextPlan
  /\ UNCHANGED <<bitget, request, snapshot, builds, taken, failures>>

(* Between ticks the worker handles a pushed position or catches up by     *)
(* REST.                                                                   *)
HandlePosition ==
  /\ worker.at = "idle" /\ feed # <<>>
  /\ snapshot' = Head(feed)
  /\ feed' = Tail(feed)
  /\ UNCHANGED <<plan, request, entry, exits, position, price, worker, builds, taken, failures>>

RestCatchup ==
  /\ worker.at = "idle" /\ snapshot # position
  /\ snapshot' = position
  /\ UNCHANGED <<plan, bitget, request, worker, builds, taken, failures>>

-----------------------------------------------------------------------------
(* External: fills at Bitget; the position is pushed.  A market exit is    *)
(* executed as a whole and reduce-only never turns the position.           *)

EntryFills(r, q) ==
  /\ entry[r].state = "working"
  /\ q \in 1..entry[r].open
  /\ PartialFills \/ q = entry[r].open
  /\ entry' = [entry EXCEPT ![r] =
       IF q = entry[r].open THEN [state |-> "done", open |-> 0]
       ELSE [state |-> "working", open |-> @.open - q]]
  /\ position' = position + q
  /\ feed' = Append(feed, position')
  /\ UNCHANGED <<tables, request, exits, price, worker, builds, taken, failures>>

ExitExecutes(r) ==
  /\ exits[r] > 0
  /\ exits' = [exits EXCEPT ![r] = 0]
  /\ position' = IF exits[r] > position THEN 0 ELSE position - exits[r]
  /\ feed' = IF position' = position THEN feed ELSE Append(feed, position')
  /\ UNCHANGED <<tables, request, entry, price, worker, builds, taken, failures>>

PriceMoves ==
  /\ price' \in 0..Stop \ {price}
  /\ UNCHANGED <<tables, request, entry, exits, position, feed, worker, builds, taken, failures>>

Crash ==
  /\ Fails("crash")
  /\ request' = [r \in Trades |-> [at |-> "idle", copy |-> NoPlan]]
  /\ worker' = NoWork
  /\ feed' = <<>>
  /\ UNCHANGED <<tables, entry, exits, position, price, builds, taken>>

-----------------------------------------------------------------------------
RequestStep(r) ==
  \/ CreateAccepted(r) \/ PersistPlan(r)
  \/ ReplaceAccepted(r) \/ OnOrderReplaced(r)
  \/ CancelAccepted(r) \/ OnOrderCanceled(r) \/ DiscardPlan(r)
  \/ HookFails(r)

WorkerStep ==
  \/ ListPlans \/ TickEnds
  \/ \E r \in Trades, copy \in {w[2] : w \in worker.todo} : LookAt(r, copy)
  \/ \E r \in Trades :
       \/ ClosePlan(r) \/ FinalizePlan(r) \/ FinalizeFails(r)
       \/ EvaluatePlan(r) \/ MarketFails(r)
       \/ SubmitExit(r) \/ SubmitFails(r) \/ StorePlan(r)

Next ==
  \/ \E r \in Trades : RequestStep(r) \/ ExitExecutes(r)
  \/ \E r \in Trades, q \in 1..Size : EntryFills(r, q)
  \/ WorkerStep
  \/ HandlePosition \/ RestCatchup
  \/ PriceMoves
  \/ Crash

Spec == Init /\ [][Next]_vars

-----------------------------------------------------------------------------
(* "Exit-Orders duerfen Position nicht ueberschreiten": the exit orders    *)
(* that are not executed yet never add up to more than the position, even  *)
(* if the snapshot they were sized by is old (_evaluate_active_plan).      *)
ExitsWithinPosition == FoldFunction(+, 0, exits) <= position

(* Each target of a plan is taken once: a stale snapshot, a stale copy or  *)
(* the write of another thread does not make the worker take it again      *)
(* (_evaluate_active_plan, evaluate_exit_plan).                            *)
TargetTakenOnce ==
  [][ \A r \in Trades :
        Writes(r, "submit") /\ exits' # exits
        => <<r, worker.copy.build, Head(worker.actions).target>> \notin taken ]_vars

(* A plan closed as "position_flattened" has no position: it was not       *)
(* closed because the position had not been opened yet (run_once).         *)
ClosedPlanMeansFlat == \A r \in Trades : plan[r].state = "closed" => position = 0

(* A plan that was closed or found invalid is monitored again only after a *)
(* replacement has rebuilt it, whatever copies are still on their way      *)
(* (_close_plan, _finalize_pending_plan, on_order_replaced).               *)
EndedPlanIsNotRevived ==
  [][ \A r \in Trades :
        plan[r].state \in {"closed", "invalid"} /\ plan'[r].state \in Alive
        => plan'[r].build > plan[r].build ]_vars

(* "Replace aktualisiert denselben Root-Trade-Exit-Plan": no later write   *)
(* takes the plan back to the one before the replacement.                  *)
ReplacedPlanStays == [][ \A r \in Trades : plan'[r].build >= plan[r].build ]_vars

(* "ein Cancel verwirft Pending-Plaene nur dann, wenn noch keine offene    *)
(* Position aktiv ist" (on_order_canceled).                                *)
CancelKeepsPlanOfPosition ==
  [][ \A r \in Trades : DiscardPlan(r) => position = 0 ]_vars

(* Fairness.  The worker loops, pushed positions are handled, positions a  *)
(* crash has lost are caught up (a start of the worker and every connect   *)
(* of the WebSocket queue a catch-up), market exits are executed, requests *)
(* end.                                                                    *)
Fairness ==
  /\ WF_vars(WorkerStep) /\ SF_vars(HandlePosition) /\ SF_vars(RestCatchup)
  /\ \A r \in Trades :
       /\ WF_vars(ExitExecutes(r))
       /\ WF_vars(request[r].at # "idle" /\ RequestStep(r))

FairSpec == Spec /\ Fairness

(* "Der Worker wertet aktive Exit-Plaene pro Reconcile-Takt gegen aktuelle *)
(* Marktpreise aus": a position whose trade has a plan is closed if the    *)
(* price is at its stop for good, whatever fails and restarts, unless the  *)
(* plan is found invalid.                                                  *)
PositionIsExitedAtStop ==
  \A r \in Trades :
    position > 0 /\ plan[r].state # "none" /\ [](price = Stop)
      ~> position = 0 \/ plan[r].state = "invalid"
=============================================================================
