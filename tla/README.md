# A verification project for the live-trading core

This directory holds TLA+ specifications of the part of the system that moves real
money: `services/live-broker`, which decides signals, sends orders to Bitget, keeps their
journal in Postgres, watches and closes positions, and carries the switches that stop all
of it; and of `services/alert-engine`, over which operators hear of it and release it.
`tlc` checks the modules on small instances; `tlapm` checks proofs that hold for
every size.  Paths below are relative to the repository; `LB` stands for
`services/live-broker/src/live_broker`, `AE` for `services/alert-engine/src/alert_engine`.

    tlc -workers 2 -config OrderLifecycleSafety.cfg MCOrderLifecycle
    tlapm OrderLifecycleProofs.tla

## 1. The system

Fifteen or so services share a Postgres database and a Redis instance.  Market data is
collected, turned into features and structure, scored into signals; signals are executed
on paper by paper-broker and for real by live-broker; the gateway, a dashboard, alerting
and monitoring sit around them.  Inside live-broker one FastAPI process runs request
handlers on a thread pool, one worker thread, one thread for the private WebSocket, one
for the safety oracle and one for the Redis subscription.  None of the services takes a
lock across a database transaction or an exchange call, so the interleavings are real.

| component | state it keeps | operations | what is hard | what makes it correct |
|---|---|---|---|---|
| kill switches and safety latch (`LB/orders/service.py`, `LB/persistence/repo.py`) | append-only `live.kill_switch_events`, `live.audit_trails`; a position is read off the newest row | arm, release, emergency flatten, reconcile, refused submits | check and append are separate transactions; every audit of a category counts | concurrent calls look atomic; only failures arm the latch; it holds until released |
| order service (`LB/orders/service.py`) | `live.orders`, `live.order_actions`, and the orders at Bitget | create, reduce-only create, replace, cancel, query, cancel-all, timeouts | lost answers, duplicates after the client's retry, crashes, two handlers on one row, delayed messages | a closed row is closed at the exchange; an armed switch stops later calls; every hanging order is cancelled; nothing live without a row |
| private WebSocket sync (`LB/private_ws/sync.py`) | the same rows, `live.fills`, `live.exchange_snapshots` | order, fill, position and account messages | lost, late and reordered against REST | never writes an end that has not happened |
| exit plans (`LB/exits/service.py`) | `live.exit_plans` | built, replaced and discarded by requests; activated, evaluated and closed by the worker | stale copies, stale snapshots, several submissions before one store | exits stay within the position, a target is taken once, a position has its plan, a stop closes it |
| global halt latch (`LB/global_halt_latch.py`) | a Redis key, a flag per process | set, publish, subscribe, force | publish/subscribe forgets; key and messages race | processes agree, a halt reaches all, a forced halt holds |
| reconcile (`LB/reconcile`) | `live.reconcile_snapshots`, positions | drift of orders and positions, catch-up by REST | two sources of truth that move while they are compared | a real drift is found and arms the latch |
| worker (`LB/worker.py`) | consumer-group positions in Redis | reconcile tick, WebSocket queue, signal streams | order of decide, store, dead-letter and acknowledge under crashes; pending messages are never read again | what is acknowledged has a decision or lies in the DLQ; every signal is answered while nothing fails |
| execution service (`LB/execution`) | `live.execution_decisions`, `live.execution_operator_releases`, a Redis key per shadow match | decision, operator release, governance gate of an opening order | a signal delivered twice; the key expires between decision and order; survival mode | an execution is decided once, a candidate was matched on paper, an order is opened only for a released candidate |
| paper-broker | accounts, positions, contracts | open, partial close, liquidation, funding | order of ticks against orders | margin is conserved |
| event bus (`shared_py.eventbus`) | Redis streams and consumer groups | publish, consume, acknowledge, dead-letter | only new messages (`>`) are read, so a crash leaves messages pending for good | as the worker's and the alert-engine's |
| exit engine (`shared_py.exit_engine`) | the JSON of a plan: stop, targets hit, runner, deadline, flags | build, evaluate, break even, trail | seven rules on one state, each for two sides; a plan that is not stored after its exits | protection only tightens, what counts as hit was sold, an armed runner keeps a profit, long and short agree |
| alert-engine: operator chat (`AE/telegram`, `AE/api/routes_webhook.py`) | `alert.telegram_operator_pending`, `alert.bot_state` | step1, confirm, abort of a release or a flatten, over long polling or webhook | Telegram delivers an update again until it is acknowledged; the pending row is read, consumed and executed in three calls | a row acts once, never after its abort, only candidates are released, no command is lost |
| alert-engine: outbox (`AE/worker`, `AE/storage`) | `alert.alert_outbox`, `alert.dedupe_keys`, a sliding window per chat | event to rows, claim, send, requeue, replay | consumer, replay and sender interleave; an accepted message whose row is not marked | one row per chat and key, no message twice without a failure, every event announced |
| api-gateway | manual-action tokens, payments | mint, consume, settle | replay | a token is consumed once |
| audit-ledger | a hash chain | append, verify | concurrent appenders | one chain |
| market-stream | order book, candles | resync, gap fill | gaps and checksums | no gap survives |
| the rest (features, structure, drawing, signal, learning, LLM, news, on-chain, monitor, dashboard, Rust crates) | tables of derived data | transforms | little shared control | numeric |

A signal crosses most of them: the signal-engine publishes it, the paper-broker opens it on
paper and sets its match key, the live-broker's worker decides it, the alert-engine tells the
operator, the operator releases it over the chat or the gateway, the order service opens
it, and exit plans, kill switches and the halt latch take it from there.  `SignalExecution`,
`OperatorChat`, `OrderLifecycle` and `ExitPlans` are the links of that chain.

The components call each other directly inside live-broker (the order service calls the
exit service from create, replace and cancel; the worker calls the order, reconcile and
exit services in turn), and through Postgres rows and Redis streams everywhere else.

## 2. Modules

| module | models | state and actions |
|---|---|---|
| `KillSwitches` | abstract: one atomic switch per scope, as an operator expects of `/kill-switch/arm` and `/release` | `armed`, `asked` |
| `SafetyLog` | the two append-only tables as the handlers read and append them, step by step; refines `KillSwitches` | `killEvents`, `latchAudit`, `pc`; one action per transaction of `arm_kill_switch`, `release_kill_switch`, `emergency_flatten`, `release_safety_latch`, `_assert_safety_latch_allows_submit`, reconcile |
| `OrderLifecycle` | orders from `create_order` to their end: rows, the exchange, the WebSocket queue, switches and their sweeps | `row`, `parent`, `adopted`, `exch`, `wsq`, `armed`, `pc`; each REST call and each transaction of each handler is an action |
| `ExitPlans` | the plans of trades, their requests and the worker's tick | `plan`, `request`, `worker`, `snapshot` against `entry`, `exits`, `position`, `feed`, `price` |
| `ExitEngine` | `build_live_exit_plans`, `evaluate_exit_plan` and what `_evaluate_active_plan` does with a decision: one position, with prices | `terms` (what no evaluation changes), `plan` (what it does), `position`, `late`; `Tick` evaluates, sells and stores, `TickFails` sells a part and stores nothing; `Evaluated` is the decision, in the order of `EXIT_EVALUATION_ORDER_DE` |
| `GlobalHaltLatch` | the Redis key, its callers, and the flag of each process | `key`, `caller`, `stage`, `inbox`, `halted` |
| `ReleaseProtocol` | abstract: what the live-broker promises about an opening order: decided once, released after, opened last | `verdict`, `released`, `opened` |
| `SignalExecution` | from a `signal_created` event to an opening order: the worker's loop over the stream, `evaluate_intent`, the release, the governance gate; refines `ReleaseProtocol` | `stream`, `next`, `head`, `pending`, `deadLetters`, `pc`, `found` (worker); `decision`, `released`, `opened` (database); `proof`, `redis`, `latch`, `survival`, `paperOpened` (around it).  `Consume` to `GiveUp` are the steps of `LiveBrokerWorker.run_forever`, `Open` and `OpenHalts` are `_assert_live_open_governance` |
| `OperatorChat` | two-step operator commands, delivered by Telegram and executed at the live-broker | `inbox`, `lastUpdate`, `served` (delivery); `handler`; `pending`, `expired`; `verdict`, `released` (live-broker).  Each database and HTTP call of `dispatch_operator_command` is an action |
| `AlertOutbox` | events of the bus and replays become outbox rows, rows become messages | `stream`, `next`, `head`, `unacked`, `job`, `taken` (consumer and replay); `rows`; `sender`, `hits`, `calls` (sender); `muted`, `running`.  One action per transaction and per call of Telegram |
| `SafetyLogProofs`, `OrderLifecycleProofs`, `GlobalHaltLatchProofs`, `SignalExecutionProofs`, `OperatorChatProofs`, `AlertOutboxProofs`, `ExitEngineProofs`, `ExitPlansProofs` | theorems and their proofs | |
| `MC...` | model values and symmetry for TLC | |

Each module is a state machine of the handlers' steps: a handler that reads, calls the
exchange and writes is three actions, and what it read is in its frame (`pc`, `request`,
`worker`) until it writes it back.  Names follow the source.  Definitions called *wrong
variant* are plausible bugs of the definition after them; no specification uses them.
They show that a property would notice.

`SignalExecution`, `OperatorChat` and `AlertOutbox` need no MC module: their configurations
give sets of model values and numbers to the constants.

### What is abstracted

* **SafetyLog.**  A row's timestamp order is the order of the inserts.  What
  `emergency_flatten` does at the exchange is in `OrderLifecycle`.
* **OrderLifecycle.**  An order is its `client_oid`, a function of the internal id.  The
  gates in front of the exchange (sizes, governance, shadow match, prepaid budget, latch,
  global halt) are one nondeterministic refusal.  Account-wide switches behave like the
  service switch and are folded into it.  `list_active_orders` has no limit of 200 rows.
  An operator may name an order the broker has no row for; it is then known by its
  `client_oid` alone, and a cancel or query of it writes a row under a made-up id.
  `emergency_flatten` sweeps and then either stops or submits one closing order through
  the same path as `create_order`; the position it reads is not modelled.
  `adopted` marks rows that were created under a made-up id, by that or by the WebSocket sync.
  The sync's look-up of the row and its upsert are one step, and the fills it records are left out.
  Five constants choose what the code is run against.  `ActionLogFK` is migration 430:
  with its foreign key a create's action is refused because the order's row comes later, so
  that no create ever gets its row; `OrderLifecycleJournal` shows this, and the others use `FALSE`, the
  schema before that migration, to see the rest of the behaviour.  `PartialRecordsBind`
  is `FALSE` as the code is: the records of `query_order` and of the sync lack three named
  parameters and psycopg refuses them; `OrderLifecycleFilled` shows that, and `TRUE` is the behaviour the
  code intends, which is where delayed messages matter.  `WebSocket` and `MayCrash`
  choose which failures a run looks at, `Controls` which switches its operators use.
* **ExitPlans.**  The trades share one symbol and one side, and so one position.  A plan of
  `n` units has `n` targets of one unit.  A price is what `evaluate_exit_plan` decides from
  it: how many targets are reached, or that the plan closes in full; it moves freely.  An
  update of the runner or the break-even stop is the nondeterministic choice in
  `EvaluatePlan`.  A trade has one request in flight, exits are market orders that are
  executed as a whole, and reduce-only keeps them from turning the position.  A replacement's
  look-up of the old plan and its upsert are one step: of the old row it takes over the context, not the state.
* **ExitEngine.**  Prices are whole ticks, quantities percentages of the quantity the plan
  was built with.  An exit is executed at once, the position is the plan's alone, and a tick
  reads, decides and stores without anything in between: stale copies and snapshots, shared
  positions and requests are the subject of `ExitPlans`.  The flag
  `force_emergency_close` is set between ticks; nothing in the repository sets it, only
  `docs/exit_engine_unified.md` describes it.  One that is set while a tick runs is overwritten by
  the worker's copy, so `OrderedCloseHappens` promises nothing for it.  `SettingAssumption` asks that the three take
  percentages of the settings add up to the whole, as their defaults do, so that the
  profiles' weights are the percentages.  `breaches` is a history: the stored evaluations in
  a row beyond the runner's line.  `early_scale` asks for a runner that is armed by the first
  target (index 0), and `evaluate_exit_plan` reads 0 as "not given" and takes 1; the model does
  as the code does, and `ArmedRunnerKeepsProfit` shows what depends on it.
* **GlobalHaltLatch.**  Each process has one calling thread.  That redis-py subscribes
  again after a silent timeout, or raises, is the choice in `LoseConnection`.
* **SignalExecution.**  A signal is its execution id if it carries one (`Prebound`), else its
  message gets one.  The checks of `_decide` and the divergence assessment are one
  nondeterministic refusal; what is kept of them is what another component can change under
  the worker's feet: the safety latch, survival mode (which caps the leverage at 1, and the
  table's `CHECK` then refuses the row), the shadow match, and the execution mode.  The
  constants `Binding`, `ReleaseRequired` and `MatchRequired` are the three settings that
  switch the gates.  The three look-ups of the governance gate and the submit are one step (`Open`): a
  decision or release that has been found does not go away, and of the match key, which may, `paperOpened` remembers
  that it was there.  `paperOpened` is a history: it remembers what the key `proof` forgets
  when it expires.
* **OperatorChat.**  The operator knows a row's code from the reply; a wrong code, token or
  chat is `Reject`.  A step1 whose question to the live-broker fails ends without a row.  `/release_abort` and `/emerg_abort` behave alike.  Replies raise nothing and are left out.  With
  long polling there is one handler, the telegram thread; with the webhook there is one per
  request, and Telegram repeats a request that has not been answered.
* **AlertOutbox.**  An event raises one alert or none (those are left out), a message is one
  chunk, `simulated` counts as `sent`.  `Limit` (15) and `Batch` are constants.  The history
  `window` counts the lives of a dedupe key, `calls` what Telegram answered.  The tries of one send are one refusal if all fail; an
  accepted try whose answer is lost is followed by another or by a requeue.  The
  sliding window of the limiter empties at once, when its last hit leaves it.

## 3. Runs

A *pass* run finishes without error; a *violation* run states what the repository's
documentation says and finds a behaviour of the code that contradicts it.

| run (cfg) | shows | bounds |
|---|---|---|
| `SafetyLogControls` | `SwitchesLinearizable`: the log implements `KillSwitches!SwitchSpec`; `LatchArmsOnlyOnFailure`; types | 2 threads, 3 scopes (service, account, trade), 3 events, 4 audits |
| `SafetyLogLatchHeld` | *violation* of `LatchHeldUntilRelease`: one refused order lifts the latch | 3 threads, 7 audits |
| `OrderLifecycleSafety` | `ClosedRowIsClosedAtExchange`, `SweptServiceLeavesOnlyEarlyOrders`, `NobodyClaimsFalseEnd`, types | order + replacement, request thread + worker, service switch, cancels and queries of orders with and without a row, WebSocket messages written late, crashes that lose messages and handlers |
| `OrderLifecycleChain` | `ArmedSwitchBlocksLaterCalls` over a chain of two replacements: no later call places an order or replaces a live one | trade switch and `emergency_flatten` |
| `OrderLifecycleTimeouts` | liveness `ActiveLiveOrderIsCancelled` | one order, request thread + worker, lossy WebSocket |
| `ExitPlansSizes` | `ExitsWithinPosition`, `TargetTakenOnce`, types | one trade, 3 units filled in parts, cancel, no failures |
| `ExitPlansMarket` | `ClosedPlanMeansFlat`, `EndedPlanIsNotRevived`, liveness `PositionIsExitedAtStop` | market entry of 2 units, a replacement, a cancel, two failures of any kind: a submission, a hook, a build, a market query, a crash |
| `ExitEngine` | `StopIsEvenAfterTarget`, `ArmedRunnerKeepsProfit`, `HitsAreSold`, `WickIsConfirmed`, `SidesMirror`, `ProtectionOnlyTightens`, liveness `OrderedCloseHappens`, types | both sides, all seven exit profiles, with and without stop, targets and deadline; 11 prices from 15 to 45 around an entry at 30 with a stop 6 and a goal 15 away, mark and fill independent; 2 ticks whose plan is lost |
| `GlobalHaltAgree` | `HeardIsLast`, types | 2 processes, 1 operator, 3 calls, 1 failure |
| `SignalExecution` | refinement `KeepsProtocol` (implements `ReleaseProtocol`), `AckedIsAnswered`, `OpenedIsProven`, `CandidateWasMatched`, liveness `SignalIsAnswered`, types | 2 signals, one with its own execution id, 2 messages (two signals, or one signal twice), all three execution modes, all gates on, 1 crash or failure of Redis or the database |
| `OperatorChat` | `PendingActsOnce`, `AbortedIsNotExecuted`, `ReleasedIsCandidate`, liveness `CommandIsHandled`, types | 1 execution, 1 handler, long polling or webhook, 3 commands, 2 pending rows, 1 crash or failed call |
| `AlertOutbox` | `OneRowPerKey`, `DeliveredOnce`, liveness `EventIsAnnounced`, types | 1 chat, 1 key besides alerts without, 2 events or replays, 2 attempts, one send per minute, 1 mute, stop, crash or failed call |

Further configurations state a property that some document gives and that TLC also
finds violated; they show the same mechanisms from another side, and are kept for whoever
repairs the code (each then becomes a passing run).

| cfg | property | what the document says | what TLC finds |
|---|---|---|---|
| `OrderLifecycleHanging` | `HangingOrderIsCancelled` | `services/live-broker/README.md:126`, the timeout cancels hanging live orders | a create whose answer is lost ends in status `error`, which the timeout scan never looks at again |
| `OrderLifecycleFilled` | `FilledRowLeavesActive` | `services/live-broker/README.md:91`, order updates are applied to the rows | the record of a WebSocket update lacks parameters of its SQL statement, so a filled order stays active until its timeout |
| `OrderLifecycleJournal` | `AcknowledgedOrderIsJournalled` | `services/live-broker/README.md:96`, orders and actions are journalled | with the foreign key of migration 430 the action is refused after the exchange has accepted the order, and no row is written |
| `OrderLifecycleReplace` | `ReplaceLeavesNoUnknownOrder` | `docs/production_10_10/order_lifecycle_exit_emergency_safety.md:20` | the answer to modify-order is lost and the new order has no row |
| `ExitPlansPriced` | `ClosedPlanMeansFlat` | `services/live-broker/README.md:113`, the worker evaluates active plans | a plan built with a price is active before its entry order fills; the worker finds no position and closes it, and the position opened later has no plan |
| `ExitPlansResubmit` | `ExitsWithinPosition` | the same document, line 25, exits do not exceed the position | a later exit of the tick fails, the first is not stored and is submitted again |
| `ExitPlansShared` | `ExitsWithinPosition` | line 25 | each of two trades on one symbol and side takes the whole position |
| `ExitPlansReplace` | `ReplacedPlanStays` | `services/live-broker/README.md:110`, a replacement updates the plan | the worker's copy of the old plan is written over the new one |
| `ExitPlansCancel` | `CancelKeepsPlanOfPosition` | `services/live-broker/README.md:111` | an entry is cancelled before the worker has seen its partial fill, and the plan of an open position is discarded |
| `GlobalHaltReach` | `HaltReachesEveryProcess` | `LB/global_halt_latch.py:171`, all broker processes update the latch | without any failure, a halt set between a starting process's GET and its SUBSCRIBE never reaches it |
| `GlobalHaltForced` | `ForcedHaltHolds` | `LB/global_halt_latch.py:163` | an older release, read late, lifts a newer forced halt |
| `OperatorChatRepeat` | `ReleaseIsFirst` | `docs/alert_engine.md:60`, the chat releases only what has no release yet | two pending rows of one execution are both confirmed: only step1 asks whether a release exists |
| `OperatorChatWebhook` | `PendingActsOnce` | `AE/telegram/operator_actions.py:236`, a row that is closed is refused | two requests of the webhook carry the same update; both find the row open before either consumes it, and confirm does not look at what `mark_consumed` returns |
| `AlertOutboxEnds` | `EveryRowEnds` | `docs/alert_engine.md:44`, no row is lost without a final state | the process stops or dies with claimed rows, which stay in state `sending`: only `pending` rows are claimed |
| `AlertOutboxTries` | `FailedWasTried` | `docs/alert_engine.md:44`, requeue until the attempts are used up, then `failed` | a claim that the rate limiter sends back has counted as an attempt, so a row fails with fewer sends than the setting allows |

Two more pass and widen a run above: `OrderLifecycleReduceOnly`
(`ArmedSwitchBlocksLaterCalls` with a reduce-only order that the switch lets through) and
`ExitPlansTargets` (`TargetTakenOnce` with a replacement that rewrites the plan under the worker's
stale copies, a cancel, and a hook, build or market query that fails).

**Why the bounds are enough to be interesting.**  Every race here is between two threads,
the worker and a request (or two requests); two threads and an order with its
replacement let every pair of steps meet.  The chain run has three orders because a trade
switch climbs a chain, and a chain of two has a middle.  Three kill-switch events let a
release and an arm happen between another thread's check and its append; four audits
let a second failure, a release and a refused submit follow an armed latch.  Two units and two targets are the least with a partial fill, and with a
failure between two submissions; three let an exit be on its way while another is
evaluated and the entry still fills.  Two messages are the least with which a batch has a
rest that a crash loses, and a signal is delivered twice; one fault is the least that comes between two steps of a
handler, and the second would only repeat it from another state.  Three commands are a
step1, a confirm and an abort or a second confirm.  The eleven prices lie on and
between every level that a plan of `ExitEngine` can have (stop 24, targets 34, 38 and 45, the entry,
trailing lines), and on both sides alike; two lost ticks let a target be sold three times.  Two attempts let a row be requeued and
then fail, and two inputs with one send per minute let a row meet the limiter.  Where a property has a theorem the bound does not
matter.

`CHECK_DEADLOCK FALSE` stands only where the bound itself stops the system: the logs of
`SafetyLog` are full, the position of `ExitEngine` is closed, the calls of `GlobalHaltLatch`, the messages of `SignalExecution`, the
commands of `OperatorChat` or the inputs of `AlertOutbox` are used up.

**Fairness.**  `OrderLifecycle`: a handler that has begun ends (REST calls and
transactions have timeouts), the worker's loop comes back to `run_order_timeouts` and to
its queue (strong, because both wait for the same thread), every order outlives its
timeout, and the exchange does not refuse to cancel a live order for ever.
`ActiveLiveOrderIsCancelled` excepts rows that a second attempt at the same create
overwrites with `error`, which is the violation of the hanging run by another road.
`ExitPlans`: the worker's loop goes on, pushed positions are handled (strong: only
between ticks), a position that a crash has lost from the queue is caught up over REST (the
worker's start and every connect of the WebSocket queue a catch-up), market exits are executed, requests end.  `ExitEngine`:
the worker goes on evaluating an active plan at some price, and at most `MaxFailures` ticks fail.  `GlobalHaltLatch`: processes
start, threads run, calls end.  `SignalExecution`: the worker thread runs on; nobody
restarts it or repairs Redis, so `SignalIsAnswered` is about behaviours without a fault, and
what it then says is that no exception of a handler and no refused row stops the loop or
loses a message.  `OperatorChat`: each handler goes on, and updates are fetched or delivered
again; `CommandIsHandled` likewise asks for no failed call (a command that always raises is delivered for ever).
`AlertOutbox`: consumer, replay and sender threads run on, a stop ends, the container is
restarted (`restart: unless-stopped` in the compose file), the rate limiter's minute passes, a mute ends.  No
run assumes that an operator acts.

## 4. Proofs

All theorems are about the specifications above.  Where a theorem names no hypothesis every
constant is arbitrary, up to the `ASSUME`s of the modules, which state that names of different
kinds differ, that bounds are naturals and, in `ExitEngine`, that settings are in range.  Some have a hypothesis on
the constants; below it is said what it means in the code, and which counterexample TLC finds
without it.

* `SafetyLogProofs`: `TypeCorrect`; `SwitchesRefine` (`Spec => SwitchesLinearizable`), by a
  step simulation: the abstract `armed` is what a reader of the log sees, `asked` is the call
  of a thread that has not appended yet, a check that answers *idempotent* maps to
  `AlreadySo`, an append to `TakeEffect`, and rows that are not arm or release rows map to
  stutters; `LatchArmedByFailureOnly`.
* `OrderLifecycleProofs`: `TypeCorrect`; `NoFalseEnd`; `ClosedRowsAreClosed`;
  `SweepLeavesOnlyEarly`; `ArmedSwitchBlocks`.  "A closed row is closed at the exchange" is not inductive: a
  handler may be about to write a status it was told long ago, and a message may still
  be on its way.  `NobodyClaimsFalseEnd` therefore says it of the rows, of every
  handler's frame (`KnowledgeHolds`, by the step the handler is at) and of every
  undelivered message; it is inductive because the exchange never revives an order.  The
  sweep's invariant says that while an armed service switch has been swept, every
  thread past its check works on an early or reduce-only order.

  `ArmedSwitchBlocks` is about a switch on a trade, which the code finds by climbing
  the parents of the rows (`_trade_root_internal_order_id`), while other threads
  replace, cancel and crash.  `ChainInv` says that the climb ends at the order the chain really
  began with (the history `lineage`), for every row and for every replacement that the exchange has made and
  whose row is yet to be written; that at most one order of a chain trades, and one handler at
  most is about to write a given row; and that a call remembers (`barred`) only what is armed still, and
  past its check nothing at all, unless its order is reduce-only or has ended.  `TradeRoot` is a
  recursive function.  What it returns would take an induction along the
  chain; instead the invariant says that every nonempty set of known replacements has a member whose
  parent lies outside, and the climb is correct because the set of rows for which it were
  not would have none (`RootOfChain`).  The 40 kinds of step are sorted by what they do to the chain: most leave
  the rows' parents and the calls alone (`Steady`) or move one call on.  The hypothesis `~PartialRecordsBind` is how the
  code behaves: if the upserts of `query_order` and the sync worked, a message could
  write the row of a live replacement without its parent, and a switch on the root would miss it.
* `GlobalHaltLatchProofs`: `TypeCorrect`; `HeardProcessesAgree`.  `HeardIsLast` says nothing
  of waiting messages; the invariant adds that the last one waiting is the last one
  published, and that a process without a subscription has none and has heard none.

* `SignalExecutionProofs`: `Typed`, `AckedAnswered`, `OpenedProven`, `CandidateMatched` from one
  inductive invariant: what the worker's next step may do rests on what the steps before it
  have established (`StepsHaveReasons`: a message at its acknowledgement has a row, one
  whose dead letter is published lies in the DLQ, a candidate about to be stored was matched),
  and the rest of the batch is still pending (`HeadInBatch`).  `ProtocolKept`
  (`Spec => KeepsProtocol`) by step simulation: `Store` maps to `Decide`, `OperatorRelease` to
  `Release`, `Open` to `Open`, all else to stutters.  It assumes `Binding` and
  `ReleaseRequired`: without these two settings the code does not promise the protocol.
* `OperatorChatProofs`: `Typed` and `ReleasedAreCandidates` for any handlers; `ActsOnce` and
  `AbortHolds` under `OneHandler`, which long polling guarantees and the webhook does not
  (see `OperatorChatWebhook`).  Their invariant: a row some handler is about to execute is
  closed and has not acted, and no open row has acted.
* `AlertOutboxProofs`: `OneRow`, `Delivered`, `Typed`.  `OneRowPerKey` says nothing of a job that has its key and not
  yet its rows; `KInv` adds that two jobs never hold one life of a key, that a job which lists
  the chats has written nothing, and that one which inserts owes only chats without a row.
  `DeliveredOnce` says nothing of a row Telegram has accepted and the sender has not marked;
  `SInv` adds that the sender holds each row once and in state `sending`, and that
  until something fails, accepted rows are the marked ones and the one about to be.  That a claim takes no row twice
  rests on `Oldest` (a `CHOOSE` by rank, for `ORDER BY ... LIMIT`): `RankExists` shows that
  counting the smaller members numbers a finite set without a gap, `OldestDiffer` that the rows of a claim differ.
* `ExitPlansProofs`: `TypeCorrect`, `EndedPlansStayEnded`, `TargetsTakenOnce`,
  `ClosedPlansAreFlat`, `ExitsFitPosition`.  Requests rewrite rows while the worker holds copies of them.
  `CInv`: the worker has at most one copy of a trade's plan, of no later build than the last one, and
  none of a plan that was closed or found invalid; so an ended plan is not revived, whatever fails.
  `HInv`: a target that was taken is marked in every copy of its build, and in the row or
  the copy that is about to be written over it.  `FlatIsFinal`: once a plan is active its entry is through, and an
  empty snapshot means that the position has ended, also in the queue.  `SoldIsCovered`: what was sold
  and what a plan, a copy or the submissions in hand leave to sell fit into the
  position; it does not say that snapshots are fresh, and need not.  What the proofs need of
  `evaluate_exit_plan` is in two lemmas about `Decision`: the targets it takes are reached, not hit and
  different, one unit each and not more than there are units; a close in full is one action.  The hypotheses:

  | theorem | hypothesis | without it |
  |---|---|---|
  | `TargetsTakenOnce`, `ExitsFitPosition` | `ExitsAreStored`: no submission fails and the worker does not crash | exits that were submitted and not stored are submitted again (`ExitPlansResubmit`) |
  | `ExitsFitPosition`, `ClosedPlansAreFlat` | one trade | each trade on the symbol takes the whole position (`ExitPlansShared`); the snapshot that closes one plan is older than the other's fill |
  | `ExitsFitPosition` | the entry is not replaced | a replacement builds a plan for the whole quantity although a part was sold |
  | `ClosedPlansAreFlat` | no plan with a price | it is active before the entry fills (`ExitPlansPriced`) |
  | `ClosedPlansAreFlat` | the entry fills as a whole | the part filled first is sold, the plan is closed and the rest fills |
* `ExitEngineProofs`: `Typed`, `StopIsEven`, `OnlyTightens` and `WickNeedsTicks` from `EInv`, which
  says how far the line of an armed runner is behind its best price, that a stop counted as
  raised is even, and that the runner's streak is at most the history of stored evaluations
  beyond its line.  `HitsSold` from `HInv`: the targets are ordered, so what is hit is a prefix of the
  ladder, and lost ticks sell more than is marked, never less.  `RunnerKeepsProfit` from `Profit`:
  the target that arms is 16 or 30 thirtieths of the goal away, the line 10 behind the best
  price, and rounding to ticks cannot turn that round once the first target is a tick from
  the entry.  `PriceAssumption` asks that stop and goal are positive prices, as the builder does.
  `SidesAgree` from `MirrorInv`: all levels lie between zero and twice the entry, where mirroring
  at the entry is its own inverse and turns every comparison round; then each rule of the evaluation commutes with the mirror
  (`EvaluatedMirrors`), and a long and a short plan are treated alike.  `PricesHaveImages` is its
  hypothesis: every price, and every trailing line behind it, lies in that range.  A price above twice the
  entry has no image, and a line at or below zero is not used while its image is; TLC finds
  both as soon as the prices or the trailing distance leave the range.  The run's prices satisfy it.

Every invariant and action property of a passing run, and both refinements, have a theorem.
Only model-checked is liveness (`ActiveLiveOrderIsCancelled`, `PositionIsExitedAtStop`,
`SignalIsAnswered`, `CommandIsHandled`, `EventIsAnnounced`, `OrderedCloseHappens`): it rests on
fairness, and so on `ENABLED`, which the provers do not reach.  Where a hypothesis of `ExitPlans` fails (a failing submission, a shared position,
a replaced entry) only the other theorems hold, because there the code does not keep the property.  `GlobalHaltLatch` and `OrderLifecycle` likewise promise less than their documents say; the
violations of section 3 have no theorem.

## 5. What is not modelled

Every component of section 1 without a module.  Within the modelled ones: signing, time
synchronisation and circuit breaker of the REST client; fills and account messages of the
WebSocket; the pre-flight gates one by one; the validation of exit plans beyond
their prices and percentages, their adjustment for MAE and MFE, the choice of an exit family and the
callback in basis points; the lost exit order (the composition of `ExitPlans` with `OrderLifecycle`); the
invariants the safety oracle evaluates; the size and side of emergency flatten's order;
the single checks of `_decide`, the divergence scores and the journal of the execution
service; the paper reference streams of the worker; schemas, the shared-memory transport
and the optional deduplication of the event bus; alert policies, chunks, texts, the chat's
read-only commands, whitelisting and token checks of the alert-engine.  The paper-broker
appears only as the one who sets the shadow-match key.

The bulk of the repository is numeric transforms of market data, read-only SQL for the
dashboard, schemas, configuration checks, report scripts and calls of external models.
They have no control that an interleaving or a failure could upset, and are left out for that reason, not
for want of time; what is left of interest is in the plan.

## 6. Plan

In this order:

1. Composition of `SignalExecution` with `OrderLifecycle`'s create, so that an execution leads to
   one order at Bitget however often it is submitted.
2. `Reconcile`: drift of orders and positions against a moving exchange, with the arming of
   the latch as in `SafetyLog`.
3. `ManualAction` (api-gateway token), `Settlement`
   (`shared_py` and api-gateway), `AuditChain` (audit-ledger): small, each with an abstract
   specification to implement.
4. `PaperAccount`: margin, partial closes and liquidation; conservation as an invariant.
5. `OrderBook` (market-stream): gap and checksum resync.
6. Proofs: what holds of `ExitPlans` when a submission fails (how much is sold twice at most), and for several trades when the snapshot is
   per trade; the abstract halt switch for a repaired `GlobalHaltLatch`.

Abstract specifications worth stating: an order journal in which each exchange order has
exactly one row (the violations above say where the code is not that), a queue that loses
nothing (which `>` without a claim of pending messages is not), and an atomic halt switch for `GlobalHaltLatch`, which only a repaired
subscription could implement.
