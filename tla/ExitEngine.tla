------------------------------ MODULE ExitEngine ------------------------------
(***************************************************************************)
(* shared_py.exit_engine: when a position is closed, and how much of it.   *)
(*                                                                         *)
(* One position under one plan.  Each tick evaluate_exit_plan gets a mark  *)
(* and a fill price, decides on exits and moves the stop and the runner;   *)
(* the caller (LiveExitService._evaluate_active_plan) submits the exits    *)
(* one by one and then stores the plan.  If a submission raises, or the    *)
(* process dies, the exits before it have happened and the plan is the old *)
(* one.  Stale snapshots, replacements and several trades are the subject  *)
(* of ExitPlans, which knows no prices; here an exit is executed at once.  *)
(*                                                                         *)
(* Prices are whole ticks.  A quantity is a percentage of initial_qty, so  *)
(* the quantity of a target is its take_pct.                               *)
(***************************************************************************)
EXTENDS Integers, Sequences

CONSTANTS
  Prices,       (* what mark and fill may be                                *)
  Entry,        (* entry price                                              *)
  Stops,        (* distances of the stop from the entry; 0: no stop         *)
  Goals,        (* distances of take_profit from the entry; 0: no target    *)
  TrailMult,    (* runner_trail_atr_mult                                    *)
  StopTrigger,  (* "mark_price" or "fill_price"                             *)
  TpTrigger,
  Defaults,     (* settings: exit_runner_enabled, break-even index, TP pcts *)
  WickTicks,    (* wick_confirm_consecutive_ticks                           *)
  MaxFailures   (* ticks whose plan is not stored: a bound                  *)

Indices  == 0..2
Triggers == {"mark_price", "fill_price"}
Sides    == {"long", "short"}
Hints    == [runner : BOOLEAN, arm : Indices, breakEven : Indices, take : [Indices -> Nat]]
None     == 0

ASSUME PriceAssumption ==
  /\ Prices \subseteq Nat \ {0} /\ Entry \in Nat \ {0}
  /\ Stops \subseteq 0..(Entry - 1) /\ Goals \subseteq 0..(Entry - 1)
  /\ TrailMult \in Nat
ASSUME SettingAssumption ==
  /\ {StopTrigger, TpTrigger} \subseteq Triggers
  /\ Defaults \in Hints /\ Defaults.arm = 1
  /\ Defaults.take[0] + Defaults.take[1] + Defaults.take[2] = 100
  /\ WickTicks \in Nat \ {0} /\ MaxFailures \in Nat

VARIABLES
  terms,     (* what the plan was built with                               *)
  plan,      (* what evaluations change of it: stop_plan_json, tp_plan_json*)
  position,  (* what is left of it                                         *)
  late,      (* deadline_ts_ms is over                                     *)
  breaches,  (* history: stored evaluations in a row beyond the trail      *)
  failures   (* how many failures there have been                          *)

vars == <<terms, plan, position, late, breaches, failures>>

Least(m, n)    == IF m < n THEN m ELSE n
Greatest(m, n) == IF m > n THEN m ELSE n

-----------------------------------------------------------------------------
(* Building a plan *)

Share(a, b, c) == [i \in Indices |-> <<a, b, c>>[i + 1]]

(* _execution_hints of the signal's exit family, merged with the settings  *)
(* by merge_exit_build_overrides: "balanced" changes nothing, the other    *)
(* profiles share out the whole.                                           *)
Profiles ==
  [balanced       |-> Defaults,
   flatten_fast   |-> [Defaults EXCEPT !.runner = FALSE, !.breakEven = 0,
                                       !.take = Share(55, 30, 15)],
   runner_heavy   |-> [runner |-> TRUE, arm |-> 1, breakEven |-> 1, take |-> Share(22, 28, 50)],
   early_scale    |-> [runner |-> TRUE, arm |-> 0, breakEven |-> 0, take |-> Share(42, 33, 25)],
   liquidity_skim |-> [runner |-> TRUE, arm |-> 1, breakEven |-> 0, take |-> Share(38, 37, 25)],
   funding_skew   |-> [runner |-> TRUE, arm |-> 1, breakEven |-> 1, take |-> Share(30, 35, 35)],
   time_biased    |-> [Defaults EXCEPT !.runner = FALSE, !.breakEven = 0,
                                       !.take = Share(50, 35, 15)]]

Away(side, distance) == IF side = "long" THEN Entry + distance ELSE Entry - distance

(* derive_tp_targets_from_final_target: 8, 16 and 30 thirtieths of the way *)
Ladder(side, goal) ==
  IF goal = 0 THEN <<>>
  ELSE [i \in Indices |-> Away(side, (goal * Share(8, 16, 30)[i]) \div 30)]

(* build_live_exit_plans, the part no evaluation changes *)
Built(side, goal, hints, timed) ==
  [side |-> side, targets |-> Ladder(side, goal), offset |-> (goal * TrailMult) \div 3,
   hints |-> hints, timed |-> timed]

(* ... and the part they do: the stop, what is hit, and the runner with    *)
(* its high or low water, its line and its wick_breach_streak              *)
Fresh(side, stop) ==
  [stop |-> IF stop = 0 THEN None ELSE Away(side, -stop), applied |-> FALSE, hit |-> {},
   runner |-> [armed |-> FALSE, water |-> None, line |-> None, streak |-> 0],
   fired |-> FALSE, emergency |-> FALSE]

(* validate_exit_plan: _price_relation_valid and the percentages.  What    *)
(* else it refuses (leverage, liquidation, ticks, session) needs nothing   *)
(* of the model's.                                                         *)
Valid(t, p) ==
  /\ p.stop # None => IF t.side = "long" THEN p.stop < Entry ELSE p.stop > Entry
  /\ \A i \in DOMAIN t.targets :
       /\ t.targets[i] > 0 /\ t.hints.take[i] > 0
       /\ IF t.side = "long" THEN t.targets[i] > Entry ELSE t.targets[i] < Entry
       /\ i > 0 => IF t.side = "long" THEN t.targets[i] >= t.targets[i - 1]
                                      ELSE t.targets[i] <= t.targets[i - 1]
  /\ t.hints.take[0] + t.hints.take[1] + t.hints.take[2] <= 100

-----------------------------------------------------------------------------
(* evaluate_exit_plan *)

(* pick_trigger_price *)
Triggered(type, mark, fill) == IF type = "mark_price" THEN mark ELSE fill

(* Wrong variant: a short position's stop must be crossed.                 *)
StopCrossed(t, p, mark, fill) ==
  LET price == Triggered(StopTrigger, mark, fill)
  IN  p.stop # None /\ IF t.side = "long" THEN price <= p.stop ELSE price > p.stop

(* eval_stop_tp_full: the stop *)
StopReached(t, p, mark, fill) ==
  LET price == Triggered(StopTrigger, mark, fill)
  IN  p.stop # None /\ IF t.side = "long" THEN price <= p.stop ELSE price >= p.stop

(* ... and the targets that are reached and not hit yet *)
Reached(t, p, mark, fill) ==
  LET price == Triggered(TpTrigger, mark, fill)
  IN  {i \in DOMAIN t.targets \ p.hit :
         IF t.side = "long" THEN price >= t.targets[i] ELSE price <= t.targets[i]}

(* runner_trail_hit; the runner has no trigger type of its own *)
LineBreached(t, r, mark, fill) ==
  LET price == Triggered(TpTrigger, mark, fill)
  IN  r.armed /\ r.line # None
      /\ IF t.side = "long" THEN price <= r.line ELSE price >= r.line

(* Wrong variant: the line follows the last price, not the best.           *)
FollowedLast(t, r, fill) ==
  LET line == IF t.side = "long" THEN fill - t.offset ELSE fill + t.offset
  IN  IF t.offset = 0 THEN r
      ELSE [r EXCEPT !.water = fill, !.line = IF line > 0 THEN line ELSE @]

(* update_runner_state with compute_unified_trailing_line: the line keeps  *)
(* its distance from the best fill price.  Neither builder asks for a      *)
(* callback in basis points.                                               *)
Followed(t, r, fill) ==
  LET seen  == IF r.water = None THEN fill ELSE r.water
      water == IF t.side = "long" THEN Greatest(seen, fill) ELSE Least(seen, fill)
      line  == IF t.side = "long" THEN water - t.offset ELSE water + t.offset
  IN  IF t.offset = 0 THEN r
      ELSE [r EXCEPT !.water = water, !.line = IF line > 0 THEN line ELSE @]

(* Wrong variant: an evaluation within the line does not end the streak.   *)
StreakKept(t, r, mark, fill) ==
  IF t.hints.runner /\ LineBreached(t, r, mark, fill) THEN r.streak + 1 ELSE r.streak

(* nxt: the streak counts evaluations in a row beyond the line.            *)
Streak(t, r, mark, fill) ==
  IF t.hints.runner /\ LineBreached(t, r, mark, fill) THEN r.streak + 1 ELSE 0

(* The armed runner follows before anything is decided.                    *)
Trailed(t, r, mark, fill) ==
  LET f == IF t.hints.runner /\ r.armed THEN Followed(t, r, fill) ELSE r
  IN  IF t.targets = <<>> THEN r ELSE [f EXCEPT !.streak = Streak(t, f, mark, fill)]

(* Wrong variant: the index is taken as it is.                             *)
ArmIndexGiven(t) == t.hints.arm

(* "arm_after_tp_index or 1": an index of 0 counts as none.                *)
ArmIndex(t) == IF t.hints.arm = 0 THEN 1 ELSE t.hints.arm

(* The runner is armed within the loop over the targets and follows there, *)
(* and once more at the end.                                               *)
RunnerAfter(t, r, taken, fill) ==
  LET arms == ArmIndex(t) \in taken /\ t.hints.runner /\ ~r.armed
  IN  IF arms THEN Followed(t, [r EXCEPT !.armed = TRUE], fill)
      ELSE IF r.armed THEN Followed(t, r, fill)
      ELSE r

(* The percentage that a set of targets takes                              *)
Pct(t, targets) ==
  LET of(i) == IF i \in targets THEN t.hints.take[i] ELSE 0 IN of(0) + of(1) + of(2)

(* The loop takes the targets in order as long as something remains, the   *)
(* last one only what remains.                                             *)
Taken(t, p, qty, mark, fill) ==
  LET reached == Reached(t, p, mark, fill)
  IN  {i \in reached : t.hints.take[i] > 0 /\ Pct(t, {j \in reached : j < i}) < qty}

(* Wrong variant: a target is not cut to what is left.                     *)
RemainderUncut(t, taken, qty) == qty - Pct(t, taken)

(* remaining_qty when these targets have been taken                        *)
Remainder(t, taken, qty) == Greatest(0, qty - Pct(t, taken))

(* Wrong variant: the stop moves one target late.                          *)
BreaksEvenLate(t, p, hit) ==
  t.targets # <<>> /\ p.stop # None /\ ~p.applied /\ t.hints.breakEven + 1 \in hit

(* apply_break_even_update: whether the stop is raised                     *)
BreaksEven(t, p, hit) ==
  t.targets # <<>> /\ p.stop # None /\ ~p.applied /\ t.hints.breakEven \in hit

(* ... and to where                                                        *)
BrokenEven(t, stop) == IF t.side = "long" THEN Greatest(stop, Entry) ELSE Least(stop, Entry)

(* A decision: why, what is left in the end, what is left after each of    *)
(* its exits, and the updated plans.                                       *)
CloseAll(reason, p) == [reason |-> reason, left |-> 0, lefts |-> {0}, plan |-> p]

TakeTargets(t, p, qty, mark, fill) ==
  LET taken == Taken(t, p, qty, mark, fill)
      hit   == p.hit \cup taken
  IN  [reason |-> "target",
       left   |-> Remainder(t, taken, qty),
       lefts  |-> {Remainder(t, {j \in taken : j <= i}, qty) : i \in taken},
       plan   |-> [p EXCEPT !.hit = hit,
                            !.runner = RunnerAfter(t, @, taken, fill),
                            !.stop = IF BreaksEven(t, p, hit) THEN BrokenEven(t, @) ELSE @,
                            !.applied = @ \/ BreaksEven(t, p, hit)]]

(* The order of the tests is EXIT_EVALUATION_ORDER_DE.                     *)
Evaluated(t, p, qty, isLate, mark, fill) ==
  LET r == Trailed(t, p.runner, mark, fill)
      q == [p EXCEPT !.runner = r]
  IN  IF p.emergency THEN CloseAll("emergency", [p EXCEPT !.emergency = FALSE])
      ELSE IF t.timed /\ isLate /\ ~p.fired THEN CloseAll("time", [p EXCEPT !.fired = TRUE])
      ELSE IF StopReached(t, p, mark, fill) THEN CloseAll("stop", q)
      ELSE IF LineBreached(t, r, mark, fill) /\ r.streak >= WickTicks THEN CloseAll("trail", q)
      ELSE TakeTargets(t, q, qty, mark, fill)

-----------------------------------------------------------------------------
Decision(mark, fill) == Evaluated(terms, plan, position, late, mark, fill)

Term ==
  [side : Sides, targets : {<<>>} \cup [Indices -> Int], offset : Nat, hints : Hints,
   timed : BOOLEAN]

Runner == [armed : BOOLEAN, water : Nat, line : Nat, streak : Nat]

Plan ==
  [stop : Int, applied : BOOLEAN, hit : SUBSET Indices, runner : Runner, fired : BOOLEAN,
   emergency : BOOLEAN]

TypeOK ==
  /\ terms \in Term /\ plan \in Plan
  /\ position \in 0..100
  /\ late \in BOOLEAN
  /\ breaches \in Nat /\ failures \in 0..MaxFailures

(* _build_plan_record: an invalid plan raises, and the order is refused.   *)
Init ==
  /\ \E side \in Sides, stop \in Stops, goal \in Goals, timed \in BOOLEAN,
        name \in DOMAIN Profiles :
       /\ stop > 0 \/ goal > 0
       /\ terms = Built(side, goal, Profiles[name], timed)
       /\ plan = Fresh(side, stop)
       /\ Valid(terms, plan)
  /\ position = 100
  /\ late = FALSE
  /\ breaches = 0 /\ failures = 0

(* _evaluate_active_plan *)
Tick(mark, fill) ==
  /\ position > 0
  /\ \E d \in {Decision(mark, fill)} :
       /\ plan' = d.plan
       /\ position' = d.left
       /\ breaches' = IF plan.runner.armed /\ LineBreached(terms, d.plan.runner, mark, fill)
                      THEN breaches + 1 ELSE 0
  /\ UNCHANGED <<terms, late, failures>>

(* Wrong variant: the plan is stored before the exits are submitted.       *)
TickFailsStored(mark, fill) ==
  /\ position > 0 /\ failures < MaxFailures
  /\ \E d \in {Decision(mark, fill)} :
       d.lefts # {} /\ position' \in {position} \cup d.lefts /\ plan' = d.plan
  /\ position' > 0
  /\ failures' = failures + 1
  /\ UNCHANGED <<terms, late, breaches>>

(* create_reduce_only_order raises, or the process dies, after the first   *)
(* exits: the plan is not stored.  It no longer matters when nothing is    *)
(* left.                                                                   *)
TickFails(mark, fill) ==
  /\ position > 0 /\ failures < MaxFailures
  /\ \E d \in {Decision(mark, fill)} : d.lefts # {} /\ position' \in {position} \cup d.lefts
  /\ position' > 0
  /\ failures' = failures + 1
  /\ UNCHANGED <<terms, plan, late, breaches>>

DeadlinePasses ==
  /\ terms.timed /\ ~late
  /\ late' = TRUE
  /\ UNCHANGED <<terms, plan, position, breaches, failures>>

(* External: an operator sets force_emergency_close in the stored plan.    *)
SetEmergency ==
  /\ position > 0 /\ ~plan.emergency
  /\ plan' = [plan EXCEPT !.emergency = TRUE]
  /\ UNCHANGED <<terms, position, late, breaches, failures>>

Next ==
  \/ \E mark, fill \in Prices : Tick(mark, fill) \/ TickFails(mark, fill)
  \/ DeadlinePasses \/ SetEmergency

Spec == Init /\ [][Next]_vars

(* The worker evaluates every active plan each tick.                       *)
FairSpec == Spec /\ WF_vars(\E mark, fill \in Prices : Tick(mark, fill))

-----------------------------------------------------------------------------
(* new protects the position at least as early as old.                     *)
NoLooser(side, new, old) == IF side = "long" THEN new >= old ELSE new <= old

(* "Stop-Anhebung nach konfiguriertem TP-Index": once a plan whose break-  *)
(* even target is hit is stored, its stop is not on the losing side of the *)
(* entry, whatever tick was lost in between (apply_break_even_update).     *)
StopIsEvenAfterTarget ==
  terms.hints.breakEven \in plan.hit /\ plan.stop # None
    => NoLooser(terms.side, plan.stop, Entry)

(* An armed runner keeps a profit: the line it starts from lies beyond the *)
(* entry, since the target that arms it is farther away than the line is   *)
(* behind.  This depends on the ladder, on the index that arms and, being  *)
(* about fill prices, on the trigger type (evaluate_exit_plan,             *)
(* update_runner_state, build_live_exit_plans).                            *)
ArmedRunnerKeepsProfit ==
  plan.runner.armed /\ TpTrigger = "fill_price" /\ TrailMult = 1
    => plan.runner.line # Entry /\ NoLooser(terms.side, plan.runner.line, Entry)

(* What a stored plan counts as hit has been sold, in the order of the     *)
(* ladder, and nothing else has unless a tick was lost; a lost tick sells  *)
(* a target twice, never counts one as hit that was not sold.              *)
HitsAreSold ==
  /\ \A i \in plan.hit : \A j \in 0..i : j \in plan.hit
  /\ plan.runner.armed => ArmIndex(terms) \in plan.hit
  /\ position <= 100 - Pct(terms, plan.hit)
  /\ failures = 0 /\ position > 0 => position = 100 - Pct(terms, plan.hit)

(* Neither the stop nor the runner's line ever gives ground, and an armed  *)
(* runner stays armed, whatever the order of prices, lost ticks and        *)
(* operator's flags ("Stop-Anhebung", "High-/Low-Water").                  *)
ProtectionOnlyTightens ==
  [][ /\ plan.stop # None => plan'.stop # None /\ NoLooser(terms.side, plan'.stop, plan.stop)
      /\ plan.runner.armed => plan'.runner.armed /\ NoLooser(terms.side, plan'.runner.line, plan.runner.line) ]_vars

(* A runner closes only when the price was beyond its line in as many      *)
(* stored evaluations in a row as wick_confirm_consecutive_ticks asks for, *)
(* this one included: a single wick, or one before and one after a         *)
(* recovery, does not close.                                               *)
WickIsConfirmed ==
  \A mark, fill \in Prices :
    position > 0 /\ Decision(mark, fill).reason = "trail" => breaches + 1 >= WickTicks

Mirror(price) == IF price = None THEN None ELSE 2 * Entry - price

Opposite(side) == IF side = "long" THEN "short" ELSE "long"

MirrorTerms(t) ==
  [t EXCEPT !.side = Opposite(@), !.targets = [i \in DOMAIN @ |-> Mirror(@[i])]]

MirrorPlan(p) ==
  [p EXCEPT !.stop = Mirror(@), !.runner.water = Mirror(@), !.runner.line = Mirror(@)]

(* Long and short agree: the mirror image of a plan, at mirrored prices,   *)
(* is decided as the mirror image, in every plan that can be reached.      *)
(* evaluate_exit_plan has a branch per side in five places.                *)
SidesMirror ==
  position > 0 =>
  \A t \in {MirrorTerms(terms)}, p \in {MirrorPlan(plan)} :
    \A mark, fill \in Prices :
      \A here \in {Decision(mark, fill)},
         there \in {Evaluated(t, p, position, late, Mirror(mark), Mirror(fill))} :
        there = [here EXCEPT !.plan = MirrorPlan(@)]

(* A position past its deadline, or flagged for an emergency, is closed at *)
(* whatever price, even if submissions fail in between: "fired" and the    *)
(* cleared flag are stored only with the close.                            *)
OrderedCloseHappens ==
  (terms.timed /\ late) \/ plan.emergency ~> position = 0
=============================================================================
