--------------------------- MODULE ExitEngineProofs ---------------------------
(***************************************************************************)
(* Theorems about ExitEngine, for all prices, plans and settings.          *)
(*                                                                         *)
(* Three invariants, each resting on the one before. EInv adds to the      *)
(* types what the line of an armed runner is (RunnerSound), what a stop    *)
(* raised to break even is (StopSound), and that the streak of the runner  *)
(* counts stored evaluations. HInv adds the order of the targets, which    *)
(* makes what is hit a prefix of the ladder, and the quantity sold. Profit *)
(* adds that an armed runner's best price is beyond the target that armed  *)
(* it. Promise says of any decision what these need.                       *)
(*                                                                         *)
(* The fourth, MirrorInv, stands alone: targets, stop, best price and line *)
(* lie between zero and twice the entry, where mirroring prices at the     *)
(* entry is a bijection and turns round every comparison. Each rule of an  *)
(* evaluation is then shown to commute with the mirror.                    *)
(***************************************************************************)
EXTENDS ExitEngine, TLAPS

Price == Nat \ {0}

(* A runner that is not armed knows no price; the line of an armed one is  *)
(* as far behind its best price as the plan says, if that is above zero.   *)
RunnerSound(t, r) ==
  /\ ~r.armed => r.water = None /\ r.line = None
  /\ t.offset = 0 => r.line = None
  /\ r.armed /\ t.offset # 0 =>
       /\ r.water # None
       /\ t.side = "long"  => r.line = Greatest(0, r.water - t.offset)
       /\ t.side = "short" => r.line = r.water + t.offset

(* A short position's stop is never below the entry; a stop that counts as *)
(* raised is even, and it counts as raised once the break-even target is   *)
(* hit.                                                                    *)
StopSound(t, p) ==
  /\ t.targets = <<>> => p.hit = {}
  /\ p.stop # None => /\ t.side = "short" => p.stop >= Entry
                      /\ p.applied => NoLooser(t.side, p.stop, Entry)
                      /\ t.hints.breakEven \in p.hit => p.applied

StreakCounted ==
  /\ terms.targets = <<>> => ~plan.runner.armed /\ plan.runner.streak = 0
  /\ position > 0 => plan.runner.streak <= breaches

EInv ==
  /\ TypeOK
  /\ RunnerSound(terms, plan.runner)
  /\ StopSound(terms, plan)
  /\ StreakCounted

-----------------------------------------------------------------------------
(* Building *)

LEMMA ShareType ==
  ASSUME NEW a \in Nat, NEW b \in Nat, NEW c \in Nat
  PROVE  Share(a, b, c) \in [Indices -> Nat]
<1> SUFFICES ASSUME NEW i \in Indices PROVE <<a, b, c>>[i + 1] \in Nat
  BY DEF Share
<1> i = 0 \/ i = 1 \/ i = 2
  BY DEF Indices
<1> QED OBVIOUS

LEMMA ProfileType ==
  ASSUME NEW name \in DOMAIN Profiles
  PROVE  Profiles[name] \in Hints
<1>1. /\ Share(55, 30, 15) \in [Indices -> Nat] /\ Share(22, 28, 50) \in [Indices -> Nat]
      /\ Share(42, 33, 25) \in [Indices -> Nat] /\ Share(38, 37, 25) \in [Indices -> Nat]
      /\ Share(30, 35, 35) \in [Indices -> Nat] /\ Share(50, 35, 15) \in [Indices -> Nat]
  BY ShareType
<1>2. 0 \in Indices /\ 1 \in Indices /\ Defaults \in Hints
  BY SettingAssumption DEF Indices
<1> DEFINE Fast(take) == [Defaults EXCEPT !.runner = FALSE, !.breakEven = 0, !.take = take]
<1>3. \A take \in [Indices -> Nat] : Fast(take) \in Hints
  BY <1>2 DEF Hints
<1>4. ASSUME NEW arm \in Indices, NEW breakEven \in Indices, NEW take \in [Indices -> Nat]
      PROVE  [runner |-> TRUE, arm |-> arm, breakEven |-> breakEven, take |-> take] \in Hints
  BY DEF Hints
<1> DEFINE Names == {"balanced", "flatten_fast", "runner_heavy", "early_scale",
                     "liquidity_skim", "funding_skew", "time_biased"}
<1>5. name \in Names
  BY DEF Profiles
<1>6. CASE name \in {"flatten_fast", "time_biased"}
  <2>1. /\ Profiles.flatten_fast = Fast(Share(55, 30, 15))
        /\ Profiles.time_biased = Fast(Share(50, 35, 15))
    BY DEF Profiles
  <2> HIDE DEF Fast
  <2>2. Profiles.flatten_fast \in Hints /\ Profiles.time_biased \in Hints
    BY <1>1, <1>3, <2>1, Zenon
  <2> QED BY <1>6, <2>2
<1>7. CASE name \in {"runner_heavy", "early_scale", "liquidity_skim", "funding_skew"}
  BY <1>1, <1>2, <1>4, <1>7 DEF Profiles
<1>8. CASE name = "balanced"
  BY <1>2, <1>8 DEF Profiles
<1> QED BY <1>5, <1>6, <1>7, <1>8

LEMMA LadderType ==
  ASSUME NEW side \in Sides, NEW goal \in Goals
  PROVE  Ladder(side, goal) \in {<<>>} \cup [Indices -> Int]
<1>1. Share(8, 16, 30) \in [Indices -> Nat]
  BY ShareType
<1>2. goal \in Nat /\ Entry \in Nat
  BY PriceAssumption
<1>3. ASSUME NEW i \in Indices
      PROVE  Away(side, (goal * Share(8, 16, 30)[i]) \div 30) \in Int
  <2>1. goal * Share(8, 16, 30)[i] \in Nat
    BY <1>1, <1>2
  <2>2. (goal * Share(8, 16, 30)[i]) \div 30 \in Int
    BY <2>1
  <2> QED BY <2>2, <1>2 DEF Away
<1> QED BY <1>3 DEF Ladder

LEMMA BuiltType ==
  ASSUME NEW side \in Sides, NEW goal \in Goals, NEW timed \in BOOLEAN,
         NEW hints \in Hints
  PROVE  Built(side, goal, hints, timed) \in Term
<1>1. (goal * TrailMult) \div 3 \in Nat
  <2>1. goal * TrailMult \in Nat
    BY PriceAssumption
  <2> QED BY <2>1
<1> QED BY <1>1, LadderType DEF Built, Term

LEMMA InitSound == Init => EInv
<1> SUFFICES ASSUME Init PROVE EInv
  OBVIOUS
<1> PICK side \in Sides, stop \in Stops, goal \in Goals, timed \in BOOLEAN,
         name \in DOMAIN Profiles :
       terms = Built(side, goal, Profiles[name], timed) /\ plan = Fresh(side, stop)
  BY Zenon DEF Init
<1>0. position = 100 /\ late = FALSE /\ breaches = 0 /\ failures = 0
  BY DEF Init
<1>1. terms \in Term
  BY ProfileType, BuiltType
<1>2. terms.side = side
  BY DEF Built
<1>3. stop \in Nat /\ Entry \in Nat /\ stop < Entry
  BY PriceAssumption
<1>4. plan \in Plan
  BY <1>3 DEF Fresh, Plan, Runner, Away, None
<1>5. TypeOK
  <2>1. failures \in 0..MaxFailures /\ position \in 0..100
    BY <1>0, SettingAssumption
  <2> QED BY <1>0, <1>1, <1>4, <2>1 DEF TypeOK
<1>6. RunnerSound(terms, plan.runner)
  BY DEF RunnerSound, Fresh, None
<1>7. StopSound(terms, plan)
  BY <1>2, <1>3 DEF StopSound, Fresh, Away, None
<1>8. StreakCounted
  BY <1>0 DEF StreakCounted, Fresh
<1> QED BY <1>5, <1>6, <1>7, <1>8 DEF EInv
-----------------------------------------------------------------------------
(* Following the price *)

LEMMA FollowedType ==
  ASSUME NEW t \in Term, NEW r \in Runner, NEW fill \in Price
  PROVE  /\ Followed(t, r, fill) \in Runner
         /\ Followed(t, r, fill).armed = r.armed
         /\ Followed(t, r, fill).streak = r.streak
<1> DEFINE seen  == IF r.water = None THEN fill ELSE r.water
           water == IF t.side = "long" THEN Greatest(seen, fill) ELSE Least(seen, fill)
           line  == IF t.side = "long" THEN water - t.offset ELSE water + t.offset
           kept  == IF line > 0 THEN line ELSE r.line
<1>1. t.offset \in Nat /\ r.line \in Nat /\ seen \in Nat
  BY DEF Term, Runner, Price
<1>2. water \in Nat
  BY <1>1 DEF Greatest, Least, Price
<1>3. line \in Int
  BY <1>1, <1>2
<1>4. kept \in Nat
  BY <1>1, <1>3
<1>5. Followed(t, r, fill) = IF t.offset = 0 THEN r ELSE [r EXCEPT !.water = water, !.line = kept]
  BY DEF Followed
<1> HIDE DEF water, kept
<1> QED BY <1>2, <1>4, <1>5 DEF Runner

(* What an armed runner knows after it has followed, and that its line has *)
(* not given ground.                                                       *)
LEMMA FollowedSound ==
  ASSUME NEW t \in Term, NEW r \in Runner, NEW fill \in Price,
         r.armed, RunnerSound(t, r)
  PROVE  /\ RunnerSound(t, Followed(t, r, fill))
         /\ NoLooser(t.side, Followed(t, r, fill).line, r.line)
<1>1. CASE t.offset = 0
  BY <1>1 DEF Followed, RunnerSound, NoLooser, Runner
<1>2. CASE t.offset # 0 /\ t.side = "long"
  BY <1>2 DEF Followed, RunnerSound, NoLooser, Runner, Term, Price, Greatest, None
<1>3. CASE t.offset # 0 /\ t.side = "short"
  BY <1>3 DEF Followed, RunnerSound, NoLooser, Runner, Term, Price, Least, None
<1> QED BY <1>1, <1>2, <1>3 DEF Term, Sides

(* The first price an armed runner follows                                 *)
LEMMA FollowedFirst ==
  ASSUME NEW t \in Term, NEW r \in Runner, NEW fill \in Price,
         r.armed, r.water = None, r.line = None
  PROVE  RunnerSound(t, Followed(t, r, fill))
<1>1. CASE t.side = "long"
  BY <1>1 DEF Followed, RunnerSound, Runner, Term, Price, Greatest, None
<1>2. CASE t.side = "short"
  BY <1>2 DEF Followed, RunnerSound, Runner, Term, Price, Least, None
<1> QED BY <1>1, <1>2 DEF Term, Sides

(* Following the same price again changes nothing, whatever the streak.    *)
LEMMA FollowedTwice ==
  ASSUME NEW t \in Term, NEW r \in Runner, NEW fill \in Price, NEW g \in Runner,
         g.water = Followed(t, r, fill).water, g.line = Followed(t, r, fill).line
  PROVE  Followed(t, g, fill) = g
<1> DEFINE seen  == IF r.water = None THEN fill ELSE r.water
           water == IF t.side = "long" THEN Greatest(seen, fill) ELSE Least(seen, fill)
           line  == IF t.side = "long" THEN water - t.offset ELSE water + t.offset
<1>1. CASE t.offset = 0
  BY <1>1 DEF Followed
<1>2. CASE t.offset # 0
  <2>1. seen \in Price /\ fill \in Nat
    BY DEF Runner, Price, None
  <2>2. water # None /\ water = IF t.side = "long" THEN Greatest(water, fill) ELSE Least(water, fill)
    BY <2>1 DEF Greatest, Least, Price, None
  <2>3. Followed(t, r, fill) = [r EXCEPT !.water = water, !.line = IF line > 0 THEN line ELSE @]
    BY <1>2 DEF Followed
  <2>4. g.water = water /\ g.line = (IF line > 0 THEN line ELSE r.line)
    BY <2>3 DEF Runner
  <2>5. Followed(t, g, fill) = [g EXCEPT !.water = water, !.line = IF line > 0 THEN line ELSE g.line]
    BY <1>2, <2>2, <2>4 DEF Followed
  <2> HIDE DEF water, line
  <2>6. [g EXCEPT !.water = water, !.line = IF line > 0 THEN line ELSE g.line] = g
    BY <2>4 DEF Runner
  <2> QED BY <2>5, <2>6
<1> QED BY <1>1, <1>2

LEMMA NoLooserOrder ==
  ASSUME NEW side \in Sides, NEW a \in Int, NEW b \in Int, NEW c \in Int
  PROVE  /\ NoLooser(side, a, a)
         /\ NoLooser(side, a, b) /\ NoLooser(side, b, c) => NoLooser(side, a, c)
BY DEF NoLooser, Sides

(* The runner before the decision ...                                      *)
LEMMA TrailedFacts ==
  ASSUME NEW t \in Term, NEW r \in Runner, NEW mark, NEW fill \in Price,
         RunnerSound(t, r)
  PROVE  LET x == Trailed(t, r, mark, fill)
         IN  /\ x \in Runner /\ RunnerSound(t, x)
             /\ x.armed = r.armed /\ x.streak <= r.streak + 1
             /\ r.armed => NoLooser(t.side, x.line, r.line)
<1> DEFINE f == IF t.hints.runner /\ r.armed THEN Followed(t, r, fill) ELSE r
           n == Streak(t, f, mark, fill)
<1>1. /\ f \in Runner /\ RunnerSound(t, f) /\ f.armed = r.armed /\ f.streak = r.streak
      /\ r.armed => NoLooser(t.side, f.line, r.line)
  BY FollowedType, FollowedSound, NoLooserOrder DEF Runner, Term
<1>2. n \in Nat /\ n <= r.streak + 1
  BY <1>1 DEF Streak, Runner
<1>3. Trailed(t, r, mark, fill) = IF t.targets = <<>> THEN r ELSE [f EXCEPT !.streak = n]
  BY DEF Trailed
<1> HIDE DEF f, n
<1>4. CASE t.targets = <<>>
  BY <1>3, <1>4, NoLooserOrder DEF Runner, Term
<1>5. CASE t.targets # <<>>
  <2>1. [f EXCEPT !.streak = n] \in Runner
    BY <1>1, <1>2 DEF Runner
  <2>2. /\ [f EXCEPT !.streak = n].armed = f.armed /\ [f EXCEPT !.streak = n].line = f.line
        /\ [f EXCEPT !.streak = n].water = f.water /\ [f EXCEPT !.streak = n].streak = n
    BY <1>1 DEF Runner
  <2>3. RunnerSound(t, [f EXCEPT !.streak = n])
    BY <1>1, <2>2 DEF RunnerSound
  <2> QED BY <1>1, <1>2, <1>3, <1>5, <2>1, <2>2, <2>3
<1> QED BY <1>4, <1>5

(* ... and after it                                                        *)
LEMMA RunnerAfterFacts ==
  ASSUME NEW t \in Term, NEW r \in Runner, NEW taken, NEW fill \in Price,
         RunnerSound(t, r)
  PROVE  LET x == RunnerAfter(t, r, taken, fill)
         IN  /\ x \in Runner /\ RunnerSound(t, x) /\ x.streak = r.streak
             /\ r.armed => x.armed /\ NoLooser(t.side, x.line, r.line)
<1> DEFINE x    == RunnerAfter(t, r, taken, fill)
           arms == ArmIndex(t) \in taken /\ t.hints.runner /\ ~r.armed
           a    == [r EXCEPT !.armed = TRUE]
<1>1. CASE arms
  <2>1. a \in Runner /\ a.armed /\ a.water = None /\ a.line = None /\ a.streak = r.streak
    BY <1>1 DEF RunnerSound, Runner
  <2>2. x = Followed(t, a, fill)
    BY <1>1 DEF RunnerAfter
  <2> HIDE DEF a, x
  <2>3. x \in Runner /\ RunnerSound(t, x) /\ x.streak = r.streak
    BY <2>1, <2>2, FollowedType, FollowedFirst
  <2> QED BY <1>1, <2>3 DEF x
<1>2. CASE ~arms /\ r.armed
  <2>1. x = Followed(t, r, fill)
    BY <1>2 DEF RunnerAfter
  <2> HIDE DEF x
  <2>2. x \in Runner /\ RunnerSound(t, x) /\ x.streak = r.streak /\ x.armed
        /\ NoLooser(t.side, x.line, r.line)
    BY <1>2, <2>1, FollowedType, FollowedSound
  <2> QED BY <2>2 DEF x
<1>3. CASE ~arms /\ ~r.armed
  BY <1>3 DEF RunnerAfter
<1> QED BY <1>1, <1>2, <1>3

-----------------------------------------------------------------------------
(* Deciding *)

LEMMA PctType ==
  ASSUME NEW t \in Term, NEW targets
  PROVE  Pct(t, targets) \in Nat
<1> DEFINE of(i) == IF i \in targets THEN t.hints.take[i] ELSE 0
<1>1. \A i \in Indices : of(i) \in Nat
  BY DEF Term, Hints
<1>2. of(0) \in Nat /\ of(1) \in Nat /\ of(2) \in Nat
  BY <1>1 DEF Indices
<1>3. Pct(t, targets) = of(0) + of(1) + of(2)
  BY DEF Pct
<1> HIDE DEF of
<1> QED BY <1>2, <1>3

LEMMA RemainderType ==
  ASSUME NEW t \in Term, NEW taken, NEW qty \in 0..100
  PROVE  Remainder(t, taken, qty) \in 0..100
BY PctType DEF Remainder, Greatest

(* What a decision promises, for a plan p and the runner it has followed   *)
Promise(t, p, d) ==
  /\ d.plan \in Plan /\ d.left \in 0..100 /\ d.lefts \subseteq 0..100
  /\ RunnerSound(t, d.plan.runner) /\ StopSound(t, d.plan)
  /\ p.stop # None => d.plan.stop # None /\ NoLooser(t.side, d.plan.stop, p.stop)
  /\ p.runner.armed =>
       d.plan.runner.armed /\ NoLooser(t.side, d.plan.runner.line, p.runner.line)

LEMMA CloseAllFacts ==
  ASSUME NEW t \in Term, NEW p \in Plan, NEW reason,
         RunnerSound(t, p.runner), StopSound(t, p)
  PROVE  Promise(t, p, CloseAll(reason, p))
<1>1. NoLooser(t.side, p.stop, p.stop) /\ NoLooser(t.side, p.runner.line, p.runner.line)
  BY NoLooserOrder DEF Term, Plan, Runner
<1> QED BY <1>1 DEF CloseAll, Promise

LEMMA TakeTargetsFacts ==
  ASSUME NEW t \in Term, NEW p \in Plan, NEW qty \in 0..100, NEW mark, NEW fill \in Price,
         RunnerSound(t, p.runner), StopSound(t, p)
  PROVE  Promise(t, p, TakeTargets(t, p, qty, mark, fill))
<1> DEFINE d     == TakeTargets(t, p, qty, mark, fill)
           taken == Taken(t, p, qty, mark, fill)
           hit   == p.hit \cup taken
           run   == RunnerAfter(t, p.runner, taken, fill)
           even  == BreaksEven(t, p, hit)
           stop  == IF even THEN BrokenEven(t, p.stop) ELSE p.stop
           appl  == p.applied \/ even
<1>1. taken \subseteq Indices /\ (t.targets = <<>> => taken = {})
  BY DEF Taken, Reached, Term
<1>2. /\ run \in Runner /\ RunnerSound(t, run)
      /\ p.runner.armed => run.armed /\ NoLooser(t.side, run.line, p.runner.line)
  BY RunnerAfterFacts DEF Plan
<1>3. Entry \in Nat /\ Entry # 0
  BY PriceAssumption
<1>4. /\ stop \in Int
      /\ p.stop # None =>
           /\ stop # None /\ NoLooser(t.side, stop, p.stop)
           /\ t.side = "short" => stop >= Entry
           /\ appl => NoLooser(t.side, stop, Entry)
  <2>1. CASE even /\ t.side = "long"
    BY <1>3, <2>1 DEF BreaksEven, BrokenEven, NoLooser, Greatest, Plan, None
  <2>2. CASE even /\ t.side = "short"
    BY <1>3, <2>2 DEF BreaksEven, BrokenEven, NoLooser, Least, Plan, None, StopSound
  <2>3. CASE ~even
    BY <1>3, <2>3, NoLooserOrder DEF Plan, StopSound, Term
  <2> QED BY <2>1, <2>2, <2>3 DEF Term, Sides
<1>5. stop # None => p.stop # None
  BY DEF BreaksEven
<1>6. t.hints.breakEven \in hit /\ stop # None => appl
  BY <1>1, <1>5 DEF BreaksEven, StopSound
<1>7. d.plan = [p EXCEPT !.hit = hit, !.runner = run, !.stop = stop, !.applied = appl]
  BY DEF TakeTargets
<1>8. d.left = Remainder(t, taken, qty) /\ d.lefts \subseteq 0..100
  BY RemainderType DEF TakeTargets
<1>9. appl \in BOOLEAN /\ hit \in SUBSET Indices
  BY <1>1 DEF Plan, BreaksEven
<1> HIDE DEF d, taken, hit, run, even, stop, appl
<1>10. /\ d.plan \in Plan
       /\ d.plan.hit = hit /\ d.plan.runner = run /\ d.plan.stop = stop /\ d.plan.applied = appl
  BY <1>2, <1>4, <1>7, <1>9 DEF Plan
<1>11. t.targets = <<>> => hit = {}
  BY <1>1 DEF hit, StopSound
<1>12. StopSound(t, d.plan)
  BY <1>4, <1>5, <1>6, <1>10, <1>11 DEF StopSound
<1>13. d.left \in 0..100
  BY <1>8, RemainderType
<1> QED BY <1>2, <1>4, <1>8, <1>10, <1>12, <1>13 DEF Promise, d

LEMMA EvaluatedFacts ==
  ASSUME NEW t \in Term, NEW p \in Plan, NEW qty \in 0..100, NEW isLate,
         NEW mark, NEW fill \in Price,
         RunnerSound(t, p.runner), StopSound(t, p)
  PROVE  Promise(t, p, Evaluated(t, p, qty, isLate, mark, fill))
<1> DEFINE r == Trailed(t, p.runner, mark, fill)
           q == [p EXCEPT !.runner = r]
           e == [p EXCEPT !.emergency = FALSE]
           f == [p EXCEPT !.fired = TRUE]
<1>1. /\ r \in Runner /\ RunnerSound(t, r) /\ r.armed = p.runner.armed
      /\ p.runner.armed => NoLooser(t.side, r.line, p.runner.line)
  BY TrailedFacts DEF Plan
<1> HIDE DEF r
<1>2. q \in Plan /\ RunnerSound(t, q.runner) /\ StopSound(t, q) /\ q.stop = p.stop /\ q.runner = r
  BY <1>1 DEF Plan, StopSound
<1>3. e \in Plan /\ e.runner = p.runner /\ e.stop = p.stop /\ StopSound(t, e)
  BY DEF Plan, StopSound
<1>4. f \in Plan /\ f.runner = p.runner /\ f.stop = p.stop /\ StopSound(t, f)
  BY DEF Plan, StopSound
<1>5. Promise(t, p, CloseAll("emergency", e)) /\ Promise(t, p, CloseAll("time", f))
  <2>1. ASSUME NEW x \in Plan, NEW reason,
               x.runner = p.runner, x.stop = p.stop, StopSound(t, x)
        PROVE  Promise(t, p, CloseAll(reason, x))
    <3>1. Promise(t, x, CloseAll(reason, x))
      BY <2>1, CloseAllFacts
    <3> QED BY <2>1, <3>1 DEF Promise
  <2> HIDE DEF e, f
  <2> QED BY <1>3, <1>4, <2>1
<1>6. ASSUME NEW d, Promise(t, q, d)
      PROVE  Promise(t, p, d)
  <2>1. d.plan.runner.armed /\ q.runner.armed =>
          NoLooser(t.side, d.plan.runner.line, p.runner.line)
    BY <1>1, <1>2, <1>6, NoLooserOrder DEF Promise, Plan, Runner, Term
  <2> QED BY <1>1, <1>2, <1>6, <2>1 DEF Promise
<1>7. /\ \A reason : Promise(t, p, CloseAll(reason, q))
      /\ Promise(t, p, TakeTargets(t, q, qty, mark, fill))
  BY <1>2, <1>6, CloseAllFacts, TakeTargetsFacts
<1>8. \/ Evaluated(t, p, qty, isLate, mark, fill) = CloseAll("emergency", e)
      \/ Evaluated(t, p, qty, isLate, mark, fill) = CloseAll("time", f)
      \/ \E reason : Evaluated(t, p, qty, isLate, mark, fill) = CloseAll(reason, q)
      \/ Evaluated(t, p, qty, isLate, mark, fill) = TakeTargets(t, q, qty, mark, fill)
  BY DEF Evaluated, r
<1> HIDE DEF q, e, f
<1> QED BY <1>5, <1>7, <1>8

-----------------------------------------------------------------------------
(* The streak of the runner *)

LEMMA TrailedStreak ==
  ASSUME NEW t \in Term, NEW r \in Runner, NEW mark, NEW fill \in Price, NEW taken,
         RunnerSound(t, r), t.targets = <<>> => ~r.armed /\ r.streak = 0 /\ taken = {},
         NEW x, x = RunnerAfter(t, Trailed(t, r, mark, fill), taken, fill)
  PROVE  /\ t.targets = <<>> => ~x.armed /\ x.streak = 0
         /\ x.streak = IF r.armed /\ LineBreached(t, x, mark, fill) /\ t.hints.runner
                        THEN r.streak + 1 ELSE 0
<1> DEFINE tr == Trailed(t, r, mark, fill)
           f  == IF t.hints.runner /\ r.armed THEN Followed(t, r, fill) ELSE r
           n  == Streak(t, f, mark, fill)
<1>1. CASE t.targets = <<>>
  <2>1. tr = r
    BY <1>1 DEF Trailed
  <2>2. x = r
    BY <1>1, <2>1 DEF RunnerAfter
  <2> QED BY <1>1, <2>2 DEF LineBreached
<1>2. CASE t.targets # <<>>
  <2>1. tr = [f EXCEPT !.streak = n]
    BY <1>2 DEF Trailed
  <2>2. f \in Runner /\ f.armed = r.armed /\ f.streak = r.streak
    BY FollowedType
  <2>3. n = (IF t.hints.runner /\ LineBreached(t, f, mark, fill) THEN r.streak + 1 ELSE 0) /\ n \in Nat
    BY <2>2 DEF Streak, Runner
  <2>4. tr \in Runner /\ RunnerSound(t, tr)
    BY TrailedFacts
  <2>5. tr.streak = n /\ tr.armed = r.armed /\ tr.line = f.line
    BY <2>1, <2>2 DEF Runner
  <2>6. x.streak = n
    BY <2>4, <2>5, RunnerAfterFacts
  <2>7. CASE r.armed /\ t.hints.runner
    <3>1. x = Followed(t, tr, fill)
      BY <2>5, <2>7 DEF RunnerAfter
    <3>2. f = Followed(t, r, fill)
      BY <2>7
    <3>3. x = tr
      <4>1. tr.water = f.water /\ tr.line = f.line
        BY <2>1, <2>2 DEF Runner
      <4> HIDE DEF n, f, tr
      <4> QED BY <2>4, <3>1, <3>2, <4>1, FollowedTwice
    <3>4. LineBreached(t, x, mark, fill) = LineBreached(t, f, mark, fill)
      <4> HIDE DEF n, f, tr
      <4> QED BY <2>2, <2>5, <3>3 DEF LineBreached
    <3> QED BY <1>2, <2>3, <2>6, <2>7, <3>4
  <2>8. CASE ~(r.armed /\ t.hints.runner)
    <3>1. ~(t.hints.runner /\ LineBreached(t, f, mark, fill))
      BY <2>2, <2>8 DEF LineBreached
    <3> HIDE DEF n, f, tr
    <3> QED BY <1>2, <2>3, <2>6, <2>8, <3>1
  <2> QED BY <2>7, <2>8
<1> QED BY <1>1, <1>2

-----------------------------------------------------------------------------
(* The invariant *)

LEMMA DecisionFacts ==
  ASSUME EInv, NEW mark \in Prices, NEW fill \in Prices
  PROVE  Promise(terms, plan, Decision(mark, fill))
<1>1. fill \in Price
  BY PriceAssumption DEF Price
<1> QED BY <1>1, EvaluatedFacts DEF EInv, TypeOK, Decision

(* A position that is left was not closed: only targets were taken.        *)
LEMMA LeftFacts ==
  ASSUME EInv, NEW mark \in Prices, NEW fill \in Prices, Decision(mark, fill).left > 0
  PROVE  LET q == [plan EXCEPT !.runner = Trailed(terms, plan.runner, mark, fill)]
         IN  Decision(mark, fill).plan.runner
               = RunnerAfter(terms, Trailed(terms, plan.runner, mark, fill),
                             Taken(terms, q, position, mark, fill), fill)
<1> DEFINE r == Trailed(terms, plan.runner, mark, fill)
           q == [plan EXCEPT !.runner = r]
<1>1. Decision(mark, fill) = TakeTargets(terms, q, position, mark, fill)
  BY DEF Decision, Evaluated, CloseAll
<1>2. q.runner = r /\ q \in Plan
  <2>1. r \in Runner
    BY TrailedFacts, PriceAssumption DEF EInv, TypeOK, Plan, Price
  <2> HIDE DEF r
  <2> QED BY <2>1 DEF EInv, TypeOK, Plan
<1>3. TakeTargets(terms, q, position, mark, fill).plan.runner
        = RunnerAfter(terms, q.runner, Taken(terms, q, position, mark, fill), fill)
  <2> HIDE DEF q
  <2> QED BY <1>2 DEF TakeTargets, Plan
<1> QED BY <1>1, <1>2, <1>3

LEMMA TickSound ==
  ASSUME EInv, NEW mark \in Prices, NEW fill \in Prices, Tick(mark, fill)
  PROVE  EInv'
<1> DEFINE d == Decision(mark, fill)
<1>1. Promise(terms, plan, d)
  BY DecisionFacts
<1>2. /\ plan' = d.plan /\ position' = d.left /\ UNCHANGED <<terms, late, failures>>
      /\ breaches' = IF plan.runner.armed /\ LineBreached(terms, d.plan.runner, mark, fill)
                     THEN breaches + 1 ELSE 0
  BY DEF Tick
<1>3. StreakCounted'
  <2>1. CASE d.left > 0
    <3> DEFINE q == [plan EXCEPT !.runner = Trailed(terms, plan.runner, mark, fill)]
               taken == Taken(terms, q, position, mark, fill)
               x == d.plan.runner
    <3>1. x = RunnerAfter(terms, Trailed(terms, plan.runner, mark, fill), taken, fill)
      BY <2>1, LeftFacts
    <3>2. terms.targets = <<>> => taken = {}
      BY DEF Taken, Reached
    <3>3. fill \in Price /\ terms \in Term /\ plan.runner \in Runner
      BY PriceAssumption DEF EInv, TypeOK, Plan, Price
    <3>4. RunnerSound(terms, plan.runner)
          /\ (terms.targets = <<>> => ~plan.runner.armed /\ plan.runner.streak = 0)
      BY DEF EInv, StreakCounted
    <3> HIDE DEF d, q, taken
    <3>5. /\ terms.targets = <<>> => ~x.armed /\ x.streak = 0
          /\ x.streak = IF plan.runner.armed /\ LineBreached(terms, x, mark, fill)
                            /\ terms.hints.runner
                         THEN plan.runner.streak + 1 ELSE 0
      BY <3>1, <3>2, <3>3, <3>4, TrailedStreak
    <3>6. position > 0 /\ plan.runner.streak <= breaches /\ breaches \in Nat
      BY DEF EInv, TypeOK, StreakCounted, Tick
    <3> QED BY <1>2, <3>3, <3>5, <3>6 DEF StreakCounted, Runner
  <2>2. CASE ~(d.left > 0)
    <3>1. terms.targets = <<>> => Trailed(terms, plan.runner, mark, fill) = plan.runner
      BY DEF Trailed
    <3>2. terms.targets = <<>> => d.plan.runner = plan.runner
      BY <2>2, <3>1 DEF Decision, Evaluated, CloseAll, TakeTargets, RunnerAfter, Taken, Reached,
                        EInv, TypeOK, Plan, StreakCounted
    <3> HIDE DEF d
    <3> QED BY <1>2, <2>2, <3>2 DEF StreakCounted, EInv
  <2> QED BY <2>1, <2>2
<1>4. breaches' \in Nat
  BY <1>2 DEF EInv, TypeOK
<1> HIDE DEF d
<1> QED BY <1>1, <1>2, <1>3, <1>4 DEF EInv, TypeOK, Promise

LEMMA NextSound == EInv /\ [Next]_vars => EInv'
<1> SUFFICES ASSUME EInv, [Next]_vars PROVE EInv'
  OBVIOUS
<1>1. ASSUME NEW mark \in Prices, NEW fill \in Prices, Tick(mark, fill)
      PROVE  EInv'
  BY <1>1, TickSound
<1>2. ASSUME NEW mark \in Prices, NEW fill \in Prices, TickFails(mark, fill)
      PROVE  EInv'
  <2>1. Decision(mark, fill).lefts \subseteq 0..100
    BY DecisionFacts DEF Promise
  <2>2. position' \in 0..100 /\ position > 0 /\ UNCHANGED <<terms, plan, late, breaches>>
    BY <1>2, <2>1 DEF TickFails, EInv, TypeOK
  <2>3. failures' \in 0..MaxFailures
    BY <1>2, SettingAssumption DEF TickFails, EInv, TypeOK
  <2> QED BY <2>2, <2>3 DEF EInv, TypeOK, StreakCounted
<1>3. CASE DeadlinePasses
  BY <1>3 DEF DeadlinePasses, EInv, TypeOK, StreakCounted
<1>4. CASE SetEmergency
  <2>1. /\ plan' \in Plan /\ plan'.runner = plan.runner /\ plan'.stop = plan.stop
        /\ plan'.hit = plan.hit /\ plan'.applied = plan.applied
        /\ UNCHANGED <<terms, position, late, breaches, failures>>
    BY <1>4 DEF SetEmergency, EInv, TypeOK, Plan
  <2> QED BY <2>1 DEF EInv, TypeOK, StreakCounted, StopSound
<1>5. CASE UNCHANGED vars
  BY <1>5 DEF vars, EInv, TypeOK, StreakCounted
<1> QED BY <1>1, <1>2, <1>3, <1>4, <1>5 DEF Next

LEMMA Invariance == Spec => []EInv
BY InitSound, NextSound, PTL DEF Spec

-----------------------------------------------------------------------------
(* What is hit has been sold                                               *)

(* What validate_exit_plan leaves true of the terms: targets in the order  *)
(* in which they are reached, percentages of at most the whole             *)
Ordered(t) ==
  /\ \A i, j \in DOMAIN t.targets :
       j <= i => IF t.side = "long" THEN t.targets[j] <= t.targets[i]
                                    ELSE t.targets[j] >= t.targets[i]
  /\ \A i \in DOMAIN t.targets : t.hints.take[i] > 0
  /\ t.hints.take[0] + t.hints.take[1] + t.hints.take[2] <= 100

Prefix(hit) == \A i \in hit : \A j \in 0..i : j \in hit

LEMMA PctSums ==
  ASSUME NEW t \in Term, Ordered(t), NEW a, NEW b
  PROVE  /\ Pct(t, a) <= 100
         /\ a \cap b = {} => Pct(t, a \cup b) = Pct(t, a) + Pct(t, b)
         /\ a \subseteq b => Pct(t, a) <= Pct(t, b)
<1>1. \A s : Pct(t, s) = (IF 0 \in s THEN t.hints.take[0] ELSE 0)
                         + (IF 1 \in s THEN t.hints.take[1] ELSE 0)
                         + (IF 2 \in s THEN t.hints.take[2] ELSE 0)
  BY DEF Pct
<1>2. t.hints.take[0] \in Nat /\ t.hints.take[1] \in Nat /\ t.hints.take[2] \in Nat
  BY DEF Term, Hints, Indices
<1>3. t.hints.take[0] + t.hints.take[1] + t.hints.take[2] <= 100
  BY DEF Ordered
<1>4. Pct(t, a) <= 100
  BY <1>1, <1>2, <1>3
<1>5. a \cap b = {} => Pct(t, a \cup b) = Pct(t, a) + Pct(t, b)
  <2>1. a \cap b = {} => ~(0 \in a /\ 0 \in b) /\ ~(1 \in a /\ 1 \in b) /\ ~(2 \in a /\ 2 \in b)
    OBVIOUS
  <2> QED BY <1>1, <1>2, <2>1
<1>6. a \subseteq b => Pct(t, a) <= Pct(t, b)
  BY <1>1, <1>2
<1> QED BY <1>4, <1>5, <1>6

LEMMA TakenFacts ==
  ASSUME NEW t \in Term, Ordered(t), NEW p \in Plan, NEW qty \in 0..100,
         NEW mark \in Price, NEW fill \in Price, Prefix(p.hit)
  PROVE  LET taken == Taken(t, p, qty, mark, fill)
         IN  /\ taken \subseteq Indices /\ p.hit \cap taken = {}
             /\ Prefix(p.hit \cup taken)
<1> DEFINE taken   == Taken(t, p, qty, mark, fill)
           reached == Reached(t, p, mark, fill)
           before(i) == {j \in reached : j < i}
<1>1. reached \subseteq DOMAIN t.targets \ p.hit /\ DOMAIN t.targets \subseteq Indices
      /\ DOMAIN t.targets \in {{}, Indices}
  BY DEF Reached, Term
<1>2. taken = {i \in reached : t.hints.take[i] > 0 /\ Pct(t, before(i)) < qty}
  BY DEF Taken
<1>3. ASSUME NEW i \in reached, NEW j \in 0..i, j \notin p.hit
      PROVE  j \in reached
  <2>1. i \in Indices /\ j \in DOMAIN t.targets /\ j <= i /\ i \in DOMAIN t.targets
    BY <1>1 DEF Indices
  <2>2. t.targets[i] \in Int /\ t.targets[j] \in Int
    BY <2>1, <1>1 DEF Term
  <2>3. Triggered(TpTrigger, mark, fill) \in Nat
    BY DEF Triggered, Price
  <2> QED BY <1>3, <2>1, <2>2, <2>3 DEF Reached, Ordered
<1>4. ASSUME NEW i \in taken, NEW j \in 0..i, j \notin p.hit
      PROVE  j \in taken
  <2>1. i \in reached /\ j \in reached /\ j <= i /\ i \in Indices /\ j \in Indices
    BY <1>1, <1>2, <1>3, <1>4
  <2>2. before(j) \subseteq before(i)
    BY <2>1, <1>1 DEF Indices
  <2>3. Pct(t, before(j)) <= Pct(t, before(i)) /\ Pct(t, before(i)) < qty
    <3> HIDE DEF before
    <3> QED BY <1>2, <1>4, <2>2, PctSums
  <2>4. Pct(t, before(j)) \in Nat /\ Pct(t, before(i)) \in Nat
    <3> HIDE DEF before
    <3> QED BY PctType
  <2>5. t.hints.take[j] > 0
    BY <1>1, <2>1 DEF Ordered
  <2> HIDE DEF before
  <2> QED BY <1>2, <2>1, <2>3, <2>4, <2>5
<1> HIDE DEF before, reached
<1>5. taken \subseteq Indices /\ p.hit \cap taken = {}
  BY <1>1, <1>2
<1> HIDE DEF taken
<1>6. Prefix(p.hit \cup taken)
  BY <1>4 DEF Prefix
<1> QED BY <1>5, <1>6 DEF taken

HInv ==
  /\ EInv
  /\ Ordered(terms)
  /\ HitsAreSold

LEMMA InitHits == Init => HInv
<1> SUFFICES ASSUME Init PROVE HInv
  OBVIOUS
<1>1. EInv
  BY InitSound
<1>2. Valid(terms, plan) /\ plan.hit = {} /\ ~plan.runner.armed /\ position = 100
  BY DEF Init, Fresh
<1>3. terms \in Term
  BY <1>1 DEF EInv, TypeOK
<1>4. Ordered(terms)
  <2>1. DOMAIN terms.targets \in {{}, Indices} /\ \A i \in DOMAIN terms.targets : terms.targets[i] \in Int
    BY <1>3 DEF Term
  <2>2. \A i \in DOMAIN terms.targets : i > 0 =>
          IF terms.side = "long" THEN terms.targets[i] >= terms.targets[i - 1]
                                 ELSE terms.targets[i] <= terms.targets[i - 1]
    BY <1>2 DEF Valid
  <2>3. CASE DOMAIN terms.targets = Indices
    <3>1. IF terms.side = "long"
          THEN terms.targets[0] <= terms.targets[1] /\ terms.targets[1] <= terms.targets[2]
          ELSE terms.targets[0] >= terms.targets[1] /\ terms.targets[1] >= terms.targets[2]
      <4>1. 1 \in Indices /\ 2 \in Indices /\ 0 \in Indices /\ 1 - 1 = 0 /\ 2 - 1 = 1
        BY DEF Indices
      <4> QED BY <2>1, <2>2, <2>3, <4>1
    <3>2. \A i, j \in Indices : j <= i =>
            IF terms.side = "long" THEN terms.targets[j] <= terms.targets[i]
                                   ELSE terms.targets[j] >= terms.targets[i]
      <4>1. \A i \in Indices : i = 0 \/ i = 1 \/ i = 2
        BY DEF Indices
      <4>2. 0 \in Indices /\ 1 \in Indices /\ 2 \in Indices
        BY DEF Indices
      <4> QED BY <2>1, <2>3, <3>1, <4>1, <4>2
    <3> QED BY <1>2, <2>3, <3>2 DEF Ordered, Valid
  <2>4. CASE DOMAIN terms.targets = {}
    BY <1>2, <2>4 DEF Ordered, Valid
  <2> QED BY <2>1, <2>3, <2>4
<1>5. Pct(terms, {}) = 0
  BY DEF Pct
<1> QED BY <1>1, <1>2, <1>4, <1>5 DEF HInv, HitsAreSold

(* The percentages of what is hit, after a decision                        *)
LEMMA HitsTick ==
  ASSUME HInv, NEW mark \in Prices, NEW fill \in Prices, Tick(mark, fill)
  PROVE  HitsAreSold'
<1> DEFINE d == Decision(mark, fill)
           r == Trailed(terms, plan.runner, mark, fill)
           q == [plan EXCEPT !.runner = r]
           taken == Taken(terms, q, position, mark, fill)
<1>1. /\ terms \in Term /\ plan \in Plan /\ position \in 0..100 /\ Ordered(terms)
      /\ Prefix(plan.hit) /\ RunnerSound(terms, plan.runner)
      /\ plan.runner.armed => ArmIndex(terms) \in plan.hit
      /\ position <= 100 - Pct(terms, plan.hit)
      /\ failures = 0 /\ position > 0 => position = 100 - Pct(terms, plan.hit)
  BY DEF HInv, EInv, TypeOK, HitsAreSold, Prefix
<1>2. plan' = d.plan /\ position' = d.left /\ UNCHANGED <<terms, failures>> /\ position > 0
  BY DEF Tick
<1>3. mark \in Price /\ fill \in Price
  BY PriceAssumption DEF Price
<1>4. r \in Runner /\ r.armed = plan.runner.armed
  BY <1>1, <1>3, TrailedFacts DEF Plan
<1> HIDE DEF r
<1>5. q \in Plan /\ q.runner = r /\ q.hit = plan.hit
  BY <1>1, <1>4 DEF Plan
<1>6. CASE d.left = 0 /\ d.plan.hit = plan.hit /\ d.plan.runner.armed = plan.runner.armed
  <2>1. Pct(terms, plan.hit) \in Nat /\ Pct(terms, plan.hit) <= 100
    BY <1>1, PctType, PctSums
  <2> HIDE DEF d
  <2> QED BY <1>1, <1>2, <1>6, <2>1 DEF HitsAreSold, Prefix, ArmIndex
<1>7. CASE d = TakeTargets(terms, q, position, mark, fill)
  <2>1. /\ taken \subseteq Indices /\ plan.hit \cap taken = {} /\ Prefix(plan.hit \cup taken)
    <3> HIDE DEF q
    <3> QED BY <1>1, <1>3, <1>5, TakenFacts
  <2>2. d.left = Remainder(terms, taken, position) /\ d.plan.hit = plan.hit \cup taken
        /\ d.plan.runner = RunnerAfter(terms, r, taken, fill)
    <3> DEFINE hit  == q.hit \cup taken
               run  == RunnerAfter(terms, q.runner, taken, fill)
               stop == IF BreaksEven(terms, q, hit) THEN BrokenEven(terms, q.stop) ELSE q.stop
               appl == q.applied \/ BreaksEven(terms, q, hit)
    <3>1. /\ d.plan = [q EXCEPT !.hit = hit, !.runner = run, !.stop = stop, !.applied = appl]
          /\ d.left = Remainder(terms, taken, position)
      BY <1>7 DEF TakeTargets
    <3>2. hit = plan.hit \cup taken /\ run = RunnerAfter(terms, r, taken, fill)
      BY <1>5
    <3> HIDE DEF d, q, taken, hit, run, stop, appl
    <3> QED BY <1>5, <3>1, <3>2 DEF Plan
  <2> HIDE DEF q, taken
  <2>3. d.plan.runner.armed => ArmIndex(terms) \in plan.hit \cup taken
    <3>1. CASE r.armed
      BY <1>1, <1>4, <3>1
    <3>2. CASE ~r.armed /\ d.plan.runner.armed
      BY <2>2, <3>2 DEF RunnerAfter
    <3> QED BY <3>1, <3>2
  <2>4. /\ Pct(terms, plan.hit \cup taken) = Pct(terms, plan.hit) + Pct(terms, taken)
        /\ Pct(terms, plan.hit \cup taken) <= 100
        /\ Pct(terms, plan.hit) \in Nat /\ Pct(terms, taken) \in Nat
    BY <1>1, <2>1, PctSums, PctType
  <2>5. /\ d.left <= 100 - Pct(terms, plan.hit \cup taken)
        /\ failures = 0 /\ d.left > 0 => d.left = 100 - Pct(terms, plan.hit \cup taken)
    BY <1>1, <1>2, <2>2, <2>4 DEF Remainder, Greatest
  <2> HIDE DEF d
  <2>6. ArmIndex(terms)' = ArmIndex(terms)
    BY <1>2 DEF ArmIndex
  <2> QED BY <1>2, <2>1, <2>2, <2>3, <2>5, <2>6 DEF HitsAreSold, Prefix
<1>8. \/ d.left = 0 /\ d.plan.hit = plan.hit /\ d.plan.runner.armed = plan.runner.armed
      \/ d = TakeTargets(terms, q, position, mark, fill)
  BY <1>1, <1>4 DEF Decision, Evaluated, CloseAll, r, Plan
<1> QED BY <1>6, <1>7, <1>8

LEMMA FailedTick ==
  ASSUME EInv, NEW mark \in Prices, NEW fill \in Prices, TickFails(mark, fill)
  PROVE  position' <= position
<1>1. \A l \in Decision(mark, fill).lefts : l <= position
  <2>1. \A taken : Remainder(terms, taken, position) <= position
    BY PctType DEF Remainder, Greatest, EInv, TypeOK
  <2>2. \/ Decision(mark, fill).lefts = {0}
        \/ \E q : Decision(mark, fill) = TakeTargets(terms, q, position, mark, fill)
    BY DEF Decision, Evaluated, CloseAll
  <2>3. \A q : \A l \in TakeTargets(terms, q, position, mark, fill).lefts : l <= position
    BY <2>1 DEF TakeTargets
  <2> QED BY <2>2, <2>3 DEF EInv, TypeOK
<1> QED BY <1>1 DEF TickFails, EInv, TypeOK

-----------------------------------------------------------------------------
(* The terms and the plan keep their types for all prices, distances and   *)
(* settings; in particular a position is never sold below zero.            *)
THEOREM Typed == Spec => []TypeOK
<1>1. EInv => TypeOK
  BY DEF EInv
<1> QED BY <1>1, Invariance, PTL

(* Once the break-even target of a stored plan is hit, its stop is even,   *)
(* whatever ticks were lost (apply_break_even_update).                     *)
THEOREM StopIsEven == Spec => []StopIsEvenAfterTarget
<1>1. EInv => StopIsEvenAfterTarget
  BY DEF EInv, StopSound, StopIsEvenAfterTarget
<1> QED BY <1>1, Invariance, PTL

(* Stop and line never give ground, for any sequence of prices, lost ticks *)
(* and flags (apply_break_even_update, update_runner_state).               *)
THEOREM OnlyTightens == Spec => ProtectionOnlyTightens
<1> DEFINE A ==
      /\ plan.stop # None => plan'.stop # None /\ NoLooser(terms.side, plan'.stop, plan.stop)
      /\ plan.runner.armed =>
           plan'.runner.armed /\ NoLooser(terms.side, plan'.runner.line, plan.runner.line)
<1>1. EInv /\ [Next]_vars => A
  <2> SUFFICES ASSUME EInv, [Next]_vars PROVE A
    OBVIOUS
  <2>1. ASSUME NEW mark \in Prices, NEW fill \in Prices, Tick(mark, fill)
        PROVE  A
    <3>1. Promise(terms, plan, Decision(mark, fill))
      BY DecisionFacts
    <3>2. plan' = Decision(mark, fill).plan
      BY <2>1 DEF Tick
    <3> QED BY <3>1, <3>2 DEF Promise
  <2>2. ASSUME plan'.stop = plan.stop, plan'.runner = plan.runner
        PROVE  A
    BY <2>2, NoLooserOrder DEF EInv, TypeOK, Term, Plan, Runner
  <2>3. CASE SetEmergency
    BY <2>2, <2>3 DEF SetEmergency, EInv, TypeOK, Plan
  <2>4. CASE UNCHANGED plan
    BY <2>2, <2>4
  <2> QED BY <2>1, <2>3, <2>4 DEF Next, TickFails, DeadlinePasses, vars
<1> QED BY <1>1, Invariance, PTL DEF Spec, ProtectionOnlyTightens

(* For any number of ticks that wick_confirm_consecutive_ticks asks for,   *)
(* the runner closes only after that many stored evaluations in a row      *)
(* beyond its line (evaluate_exit_plan).                                   *)
THEOREM WickNeedsTicks == Spec => []WickIsConfirmed
<1>1. EInv => WickIsConfirmed
  <2> SUFFICES ASSUME EInv, NEW mark \in Prices, NEW fill \in Prices, position > 0,
                      Decision(mark, fill).reason = "trail"
               PROVE  breaches + 1 >= WickTicks
    BY DEF WickIsConfirmed
  <2> DEFINE r == Trailed(terms, plan.runner, mark, fill)
  <2>1. r.streak >= WickTicks
    BY DEF Decision, Evaluated, CloseAll, TakeTargets
  <2>2. fill \in Price /\ terms \in Term /\ plan.runner \in Runner
    BY PriceAssumption DEF EInv, TypeOK, Plan, Price
  <2>3. r \in Runner /\ r.streak <= plan.runner.streak + 1
    BY <2>2, TrailedFacts DEF EInv
  <2>4. plan.runner.streak <= breaches
    BY DEF EInv, StreakCounted
  <2> HIDE DEF r
  <2> QED BY <2>1, <2>2, <2>3, <2>4, SettingAssumption DEF EInv, TypeOK, Runner
<1> QED BY <1>1, Invariance, PTL

LEMMA HitsNext == HInv /\ [Next]_vars => HInv'
<1> SUFFICES ASSUME HInv, [Next]_vars PROVE HInv'
  OBVIOUS
<1>1. EInv' /\ terms' = terms
  BY NextSound DEF HInv, Next, Tick, TickFails, DeadlinePasses, SetEmergency, vars
<1>2. Ordered(terms)'
  BY <1>1 DEF HInv, Ordered
<1>3. ASSUME NEW mark \in Prices, NEW fill \in Prices, Tick(mark, fill)
      PROVE  HitsAreSold'
  BY <1>3, HitsTick
<1>4. ASSUME NEW mark \in Prices, NEW fill \in Prices, TickFails(mark, fill)
      PROVE  HitsAreSold'
  <2>1. position' <= position /\ position' \in 0..100 /\ position \in 0..100
    BY <1>1, <1>4, FailedTick DEF HInv, EInv, TypeOK
  <2>2. failures' > 0 /\ plan' = plan /\ Pct(terms, plan.hit) \in Nat
    BY <1>4, PctType DEF TickFails, HInv, EInv, TypeOK
  <2>3. Pct(terms, plan.hit)' = Pct(terms, plan.hit) /\ ArmIndex(terms)' = ArmIndex(terms)
    BY <1>1, <2>2 DEF Pct, ArmIndex
  <2> QED BY <2>1, <2>2, <2>3 DEF HInv, HitsAreSold
<1>5. ASSUME plan'.hit = plan.hit, plan'.runner = plan.runner,
             position' = position, failures' = failures
      PROVE  HitsAreSold'
  <2>1. Pct(terms, plan.hit)' = Pct(terms, plan.hit) /\ ArmIndex(terms)' = ArmIndex(terms)
    BY <1>1, <1>5 DEF Pct, ArmIndex
  <2> QED BY <1>1, <1>5, <2>1 DEF HInv, HitsAreSold
<1>6. SetEmergency \/ DeadlinePasses \/ UNCHANGED vars =>
        plan'.hit = plan.hit /\ plan'.runner = plan.runner
        /\ position' = position /\ failures' = failures
  BY DEF SetEmergency, DeadlinePasses, vars, HInv, EInv, TypeOK, Plan
<1>7. HitsAreSold'
  <2>1. CASE SetEmergency \/ DeadlinePasses \/ UNCHANGED vars
    BY <1>5, <1>6, <2>1
  <2>2. CASE \E mark, fill \in Prices : Tick(mark, fill) \/ TickFails(mark, fill)
    BY <1>3, <1>4, <2>2
  <2> QED BY <2>1, <2>2 DEF Next
<1> QED BY <1>1, <1>2, <1>7 DEF HInv

(* What counts as hit was sold, in the order of the ladder, whatever ticks  *)
(* were lost; and while none was, nothing else has been                    *)
(* (evaluate_exit_plan, _evaluate_active_plan).                            *)
THEOREM HitsSold == Spec => []HitsAreSold
<1>1. HInv => HitsAreSold
  BY DEF HInv
<1> QED BY <1>1, InitHits, HitsNext, PTL DEF Spec

-----------------------------------------------------------------------------
(* An armed runner keeps a profit                                          *)

(* What the ladder of build_live_exit_plans gives with TrailMult = 1: the  *)
(* targets that can arm lie farther from the entry than the line is behind *)
LadderSound(t) ==
  t.targets # <<>> =>
    /\ t.offset # 0
    /\ \A i \in {1, 2} : IF t.side = "long" THEN t.targets[i] - t.offset > Entry
                                            ELSE t.targets[i] + t.offset < Entry

(* The best price of an armed runner is beyond the target that armed it.   *)
WaterSound(t, r) ==
  r.armed /\ t.offset # 0 =>
    IF t.side = "long" THEN r.water >= t.targets[ArmIndex(t)]
                       ELSE r.water <= t.targets[ArmIndex(t)]

Profit ==
  /\ HInv
  /\ TrailMult = 1 => LadderSound(terms)
  /\ TpTrigger = "fill_price" => WaterSound(terms, plan.runner)

LEMMA ArmIndexType ==
  ASSUME NEW t \in Term
  PROVE  ArmIndex(t) \in {1, 2}
BY DEF ArmIndex, Term, Hints, Indices

(* In thirtieths of the goal: 16 or 30 against 10, rounded down, when the  *)
(* first target, at 8 thirtieths, is not the entry itself                  *)
LEMMA Thirtieths ==
  ASSUME NEW goal \in Nat, (goal * 8) \div 30 > 0
  PROVE  /\ goal \div 3 > 0
         /\ (goal * 16) \div 30 > goal \div 3
         /\ (goal * 30) \div 30 > goal \div 3
<1>1. goal * 8 >= 30
  BY SMT
<1> QED BY <1>1, SMT

LEMMA BuiltLadder ==
  ASSUME NEW side \in Sides, NEW goal \in Goals, NEW hints \in Hints, NEW timed \in BOOLEAN,
         NEW p, Valid(Built(side, goal, hints, timed), p), TrailMult = 1
  PROVE  LadderSound(Built(side, goal, hints, timed))
<1> DEFINE t == Built(side, goal, hints, timed)
<1>1. t.side = side /\ t.targets = Ladder(side, goal) /\ t.offset = (goal * 1) \div 3
  BY DEF Built
<1>2. goal \in Nat /\ Entry \in Nat
  BY PriceAssumption
<1>3. CASE goal = 0
  BY <1>1, <1>3 DEF Ladder, LadderSound
<1>4. CASE goal # 0
  <2>1. Share(8, 16, 30)[0] = 8 /\ Share(8, 16, 30)[1] = 16 /\ Share(8, 16, 30)[2] = 30
    BY DEF Share, Indices
  <2>2. 0 \in Indices /\ 1 \in Indices /\ 2 \in Indices
    BY DEF Indices
  <2>3. /\ DOMAIN t.targets = Indices
        /\ t.targets[0] = Away(side, (goal * 8) \div 30)
        /\ t.targets[1] = Away(side, (goal * 16) \div 30)
        /\ t.targets[2] = Away(side, (goal * 30) \div 30)
    BY <1>1, <1>4, <2>1, <2>2 DEF Ladder
  <2>4. IF side = "long" THEN t.targets[0] > Entry ELSE t.targets[0] < Entry
    BY <1>1, <2>2, <2>3 DEF Valid
  <2>5. (goal * 8) \div 30 \in Int /\ (goal * 16) \div 30 \in Int /\ (goal * 30) \div 30 \in Int
        /\ goal \div 3 \in Int /\ goal * 1 = goal
    BY <1>2
  <2>6. (goal * 8) \div 30 > 0
    BY <1>2, <2>3, <2>4, <2>5 DEF Away
  <2>7. goal \div 3 > 0 /\ (goal * 16) \div 30 > goal \div 3 /\ (goal * 30) \div 30 > goal \div 3
    BY <1>2, <2>6, Thirtieths
  <2>8. t.offset = goal \div 3
    BY <1>1, <2>5
  <2> HIDE DEF t
  <2>9. \A i \in {1, 2} : IF t.side = "long" THEN t.targets[i] - t.offset > Entry
                                             ELSE t.targets[i] + t.offset < Entry
    <3>1. CASE side = "long"
      BY <1>1, <1>2, <2>3, <2>5, <2>7, <2>8, <3>1 DEF Away
    <3>2. CASE side = "short"
      BY <1>1, <1>2, <2>3, <2>5, <2>7, <2>8, <3>2 DEF Away
    <3> QED BY <3>1, <3>2 DEF Sides
  <2> QED BY <2>7, <2>8, <2>9 DEF LadderSound, t
<1> QED BY <1>3, <1>4

LEMMA FollowedWater ==
  ASSUME NEW t \in Term, NEW r \in Runner, NEW fill \in Price, t.offset # 0
  PROVE  LET w == Followed(t, r, fill).water
         IN  /\ t.side = "long" => w >= fill /\ (r.water # None => w >= r.water)
             /\ t.side = "short" => w <= fill /\ (r.water # None => w <= r.water)
<1>1. CASE t.side = "long"
  BY <1>1 DEF Followed, Runner, Price, Greatest
<1>2. CASE t.side = "short"
  BY <1>2 DEF Followed, Runner, Price, Least
<1> QED BY <1>1, <1>2 DEF Term, Sides

(* Following keeps an armed runner's water beyond the target.              *)
LEMMA FollowedBeyond ==
  ASSUME NEW t \in Term, NEW r \in Runner, NEW fill \in Price, r.armed,
         RunnerSound(t, r), WaterSound(t, r), t.targets # <<>>
  PROVE  WaterSound(t, Followed(t, r, fill))
<1> SUFFICES ASSUME t.offset # 0 PROVE WaterSound(t, Followed(t, r, fill))
  BY FollowedType DEF WaterSound
<1>1. t.targets[ArmIndex(t)] \in Int
  BY ArmIndexType DEF Term, Indices
<1>2. Followed(t, r, fill).water \in Nat /\ r.water \in Nat /\ r.water # None
  BY FollowedType DEF Runner, RunnerSound
<1> QED BY <1>1, <1>2, FollowedWater, FollowedType DEF WaterSound, Term, Sides

LEMMA WaterTick ==
  ASSUME Profit, NEW mark \in Prices, NEW fill \in Prices, Tick(mark, fill),
         TpTrigger = "fill_price"
  PROVE  WaterSound(terms, plan.runner)'
<1> DEFINE d == Decision(mark, fill)
           r == Trailed(terms, plan.runner, mark, fill)
           q == [plan EXCEPT !.runner = r]
           taken == Taken(terms, q, position, mark, fill)
           f == Followed(terms, plan.runner, fill)
<1>1. /\ terms \in Term /\ plan \in Plan /\ plan.runner \in Runner /\ position \in 0..100
      /\ RunnerSound(terms, plan.runner) /\ WaterSound(terms, plan.runner)
      /\ terms.targets = <<>> => ~plan.runner.armed
  BY DEF Profit, HInv, EInv, TypeOK, StreakCounted, Plan
<1>2. fill \in Price /\ fill \in Nat
  BY PriceAssumption DEF Price
<1>3. r \in Runner /\ RunnerSound(terms, r) /\ r.armed = plan.runner.armed
  BY <1>1, <1>2, TrailedFacts
<1>4. WaterSound(terms, r)
  <2>1. CASE ~r.armed
    BY <2>1 DEF WaterSound
  <2>2. CASE r.armed
    <3>1. WaterSound(terms, f) /\ f \in Runner
      BY <1>1, <1>2, <1>3, <2>2, FollowedBeyond, FollowedType
    <3>2. r.water = plan.runner.water \/ r.water = f.water
      BY <1>1, <3>1 DEF Trailed, Runner
    <3> HIDE DEF r, f
    <3>3. f.armed
      BY <1>1, <1>2, <1>3, <2>2, FollowedType DEF f
    <3> QED BY <1>1, <1>3, <2>2, <3>1, <3>2, <3>3 DEF WaterSound
  <2> QED BY <2>1, <2>2
<1> HIDE DEF r
<1>5. WaterSound(terms, RunnerAfter(terms, r, taken, fill))
  <2> DEFINE a == [r EXCEPT !.armed = TRUE]
  <2>1. CASE ArmIndex(terms) \in taken /\ terms.hints.runner /\ ~r.armed
    <3>1. a \in Runner /\ RunnerAfter(terms, r, taken, fill) = Followed(terms, a, fill)
      BY <1>3, <2>1 DEF RunnerAfter, Runner
    <3>2. IF terms.side = "long" THEN fill >= terms.targets[ArmIndex(terms)]
                                 ELSE fill <= terms.targets[ArmIndex(terms)]
      BY <2>1 DEF Taken, Reached, Triggered
    <3>3. terms.targets # <<>>
      BY <2>1 DEF Taken, Reached
    <3>4. terms.targets[ArmIndex(terms)] \in Int
      BY <1>1, <3>3, ArmIndexType DEF Term, Indices
    <3> HIDE DEF a, taken
    <3>5. Followed(terms, a, fill).water \in Nat
      BY <1>1, <1>2, <3>1, FollowedType DEF Runner
    <3>6. CASE terms.offset # 0
      BY <1>1, <1>2, <3>1, <3>2, <3>4, <3>5, <3>6, FollowedWater DEF WaterSound, Term, Sides
    <3>7. CASE terms.offset = 0
      BY <3>7 DEF WaterSound
    <3> QED BY <3>6, <3>7
  <2>2. CASE r.armed
    <3>1. RunnerAfter(terms, r, taken, fill) = Followed(terms, r, fill)
      BY <2>2 DEF RunnerAfter
    <3> QED BY <1>1, <1>2, <1>3, <1>4, <2>2, <3>1, FollowedBeyond
  <2>3. CASE ~r.armed /\ ~(ArmIndex(terms) \in taken /\ terms.hints.runner)
    BY <1>4, <2>3 DEF RunnerAfter
  <2> QED BY <2>1, <2>2, <2>3
<1>6. q \in Plan /\ q.runner = r
  BY <1>1, <1>3 DEF Plan
<1>7. \/ d.plan.runner = r \/ d.plan.runner = plan.runner
      \/ d = TakeTargets(terms, q, position, mark, fill)
  BY <1>1, <1>3 DEF Decision, Evaluated, CloseAll, r, Plan
<1>8. ASSUME d = TakeTargets(terms, q, position, mark, fill)
      PROVE  d.plan.runner = RunnerAfter(terms, r, taken, fill)
  <2> HIDE DEF q, d
  <2>1. TakeTargets(terms, q, position, mark, fill).plan.runner
          = RunnerAfter(terms, q.runner, Taken(terms, q, position, mark, fill), fill)
    BY <1>6 DEF TakeTargets, Plan
  <2> QED BY <1>6, <1>8, <2>1
<1> HIDE DEF d, q, taken
<1>9. WaterSound(terms, d.plan.runner)
  BY <1>1, <1>4, <1>5, <1>7, <1>8
<1>10. plan' = d.plan /\ terms' = terms
  BY DEF Tick, d
<1> QED BY <1>9, <1>10 DEF WaterSound, ArmIndex

(* With the offset of a third of the goal, an armed runner's line is on    *)
(* the winning side of the entry, for every entry, goal and profile        *)
(* (build_live_exit_plans, evaluate_exit_plan).                            *)
THEOREM RunnerKeepsProfit == Spec => []ArmedRunnerKeepsProfit
<1>1. Init => Profit
  <2> SUFFICES ASSUME Init PROVE Profit
    OBVIOUS
  <2> PICK side \in Sides, stop \in Stops, goal \in Goals, timed \in BOOLEAN,
           name \in DOMAIN Profiles :
         /\ terms = Built(side, goal, Profiles[name], timed) /\ plan = Fresh(side, stop)
         /\ Valid(terms, plan)
    BY Zenon DEF Init
  <2>1. TrailMult = 1 => LadderSound(terms)
    BY BuiltLadder, ProfileType
  <2>2. WaterSound(terms, plan.runner)
    BY DEF WaterSound, Fresh
  <2> QED BY <2>1, <2>2, InitHits DEF Profit
<1>2. Profit /\ [Next]_vars => Profit'
  <2> SUFFICES ASSUME Profit, [Next]_vars PROVE Profit'
    OBVIOUS
  <2>1. HInv' /\ terms' = terms
    BY HitsNext DEF Profit, Next, Tick, TickFails, DeadlinePasses, SetEmergency, vars
  <2>2. TrailMult = 1 => LadderSound(terms)'
    BY <2>1 DEF Profit, LadderSound
  <2>3. ASSUME TpTrigger = "fill_price"
        PROVE  WaterSound(terms, plan.runner)'
    <3>1. ASSUME NEW mark \in Prices, NEW fill \in Prices, Tick(mark, fill)
          PROVE  WaterSound(terms, plan.runner)'
      BY <2>3, <3>1, WaterTick
    <3>2. ASSUME plan'.runner = plan.runner
          PROVE  WaterSound(terms, plan.runner)'
      BY <2>1, <2>3, <3>2 DEF Profit, WaterSound, ArmIndex
    <3>3. CASE SetEmergency
      BY <3>2, <3>3 DEF SetEmergency, Profit, HInv, EInv, TypeOK, Plan
    <3>4. CASE UNCHANGED plan
      BY <3>2, <3>4
    <3> QED BY <3>1, <3>3, <3>4 DEF Next, TickFails, DeadlinePasses, vars
  <2> QED BY <2>1, <2>2, <2>3 DEF Profit
<1>3. Profit => ArmedRunnerKeepsProfit
  <2> SUFFICES ASSUME Profit, plan.runner.armed, TpTrigger = "fill_price", TrailMult = 1
               PROVE  plan.runner.line # Entry /\ NoLooser(terms.side, plan.runner.line, Entry)
    BY DEF ArmedRunnerKeepsProfit
  <2> DEFINE i == ArmIndex(terms)
             r == plan.runner
  <2>1. /\ terms \in Term /\ r \in Runner /\ RunnerSound(terms, r) /\ WaterSound(terms, r)
        /\ LadderSound(terms) /\ terms.targets # <<>>
    BY DEF Profit, HInv, EInv, TypeOK, StreakCounted, Plan
  <2>2. i \in {1, 2} /\ terms.targets[i] \in Int /\ Entry \in Nat
    BY <2>1, ArmIndexType, PriceAssumption DEF Term, Indices
  <2>3. terms.offset \in Nat /\ terms.offset # 0 /\ r.water \in Nat
    BY <2>1 DEF LadderSound, Term, Runner
  <2>4. IF terms.side = "long" THEN terms.targets[i] - terms.offset > Entry
                               ELSE terms.targets[i] + terms.offset < Entry
    BY <2>1, <2>2 DEF LadderSound
  <2> HIDE DEF i, r
  <2>5. IF terms.side = "long" THEN r.water >= terms.targets[i] ELSE r.water <= terms.targets[i]
    BY <2>1, <2>3 DEF WaterSound, i, r
  <2>6. CASE terms.side = "long"
    <3>1. r.line = Greatest(0, r.water - terms.offset)
      BY <2>1, <2>3, <2>6 DEF RunnerSound, r
    <3> QED BY <2>2, <2>3, <2>4, <2>5, <2>6, <3>1 DEF NoLooser, Greatest, r
  <2>7. CASE terms.side = "short"
    <3>1. r.line = r.water + terms.offset
      BY <2>1, <2>3, <2>7 DEF RunnerSound, r
    <3> QED BY <2>2, <2>3, <2>4, <2>5, <2>7, <3>1 DEF NoLooser, r
  <2> QED BY <2>1, <2>6, <2>7 DEF Term, Sides
<1> QED BY <1>1, <1>2, <1>3, PTL DEF Spec

-----------------------------------------------------------------------------
(* The two sides                                                           *)

(* Prices, and the lines behind them, lie between zero and twice the entry.*)
(* Elsewhere a price has no image, and a line at or below zero is not used *)
(* while its image, above any price, is.                                   *)
PricesHaveImages ==
  \A price \in Prices, goal \in Goals :
    /\ (goal * TrailMult) \div 3 < price
    /\ price + (goal * TrailMult) \div 3 < 2 * Entry

Span == 1 .. (2 * Entry - 1)

SpanTerms(t) ==
  /\ t \in Term /\ t.targets \in {<<>>} \cup [Indices -> Span]
  /\ \A price \in Prices : t.offset < price /\ price + t.offset < 2 * Entry

SpanRunner(r) == r \in Runner /\ r.water \in {None} \cup Prices /\ r.line \in {None} \cup Span

SpanPlan(p) == p \in Plan /\ p.stop \in {None} \cup Span /\ SpanRunner(p.runner)

MirrorRunner(r) == [r EXCEPT !.water = Mirror(@), !.line = Mirror(@)]

LEMMA SpanMirrors ==
  ASSUME NEW x \in Span, NEW y \in Span
  PROVE  /\ Mirror(x) \in Span /\ Mirror(x) # None /\ x # None /\ Mirror(x) = 2 * Entry - x
         /\ x <= y <=> Mirror(y) <= Mirror(x)
  BY PriceAssumption DEF Span, Mirror, None

LEMMA PricesInSpan ==
  ASSUME NEW t, SpanTerms(t)
  PROVE  Prices \subseteq Span /\ Entry \in Span /\ Mirror(Entry) = Entry
  <1>1. Entry \in Nat \ {0} /\ Prices \subseteq Nat \ {0} /\ t.offset \in Nat
    BY PriceAssumption DEF SpanTerms, Term
  <1>2. ASSUME NEW price \in Prices
        PROVE  price \in Nat /\ price > 0 /\ price < 2 * Entry
    <2>1. price + t.offset < 2 * Entry
      BY DEF SpanTerms
    <2> QED  BY <1>1, <2>1
  <1>3. Prices \subseteq Span
    BY <1>1, <1>2 DEF Span
  <1>4. Entry \in Span /\ Mirror(Entry) = Entry
    BY <1>1 DEF Span, Mirror, None
  <1> QED  BY <1>3, <1>4

LEMMA TermMirrors ==
  ASSUME NEW t, SpanTerms(t)
  PROVE  LET u == MirrorTerms(t)
         IN  /\ u.side = Opposite(t.side) /\ u.offset = t.offset /\ u.hints = t.hints
             /\ u.timed = t.timed /\ DOMAIN u.targets = DOMAIN t.targets
             /\ \A i \in DOMAIN t.targets : u.targets[i] = Mirror(t.targets[i])
             /\ u.targets = <<>> <=> t.targets = <<>>
  <1> DEFINE u == MirrorTerms(t)
             m == [i \in DOMAIN t.targets |-> Mirror(t.targets[i])]
  <1>0. t \in Term
    BY DEF SpanTerms
  <1>1. u = [t EXCEPT !.side = Opposite(t.side), !.targets = m]
    BY <1>0 DEF MirrorTerms, Term
  <1>2. m = <<>> <=> t.targets = <<>>
    <2>1. CASE t.targets = <<>>
      <3>1. DOMAIN t.targets = {}
        BY <2>1
      <3>2. m = <<>>
        BY <3>1
      <3> QED  BY <2>1, <3>2
    <2>2. CASE t.targets # <<>>
      <3>1. DOMAIN m = Indices
        BY <1>0, <2>2 DEF Term
      <3>2. DOMAIN m # DOMAIN <<>>
        BY <3>1 DEF Indices
      <3> QED  BY <2>2, <3>2, Zenon
    <2> QED  BY <2>1, <2>2
  <1>3. DOMAIN m = DOMAIN t.targets /\ \A i \in DOMAIN t.targets : m[i] = Mirror(t.targets[i])
    OBVIOUS
  <1> HIDE DEF m
  <1> QED  BY <1>0, <1>1, <1>2, <1>3 DEF Term

LEMMA RunnerMirrors ==
  ASSUME NEW t, SpanTerms(t), NEW r, SpanRunner(r)
  PROVE  LET s == MirrorRunner(r)
         IN  /\ s \in Runner /\ s.armed = r.armed /\ s.streak = r.streak
             /\ s.water = Mirror(r.water) /\ s.line = Mirror(r.line)
             /\ s.water = None <=> r.water = None
             /\ s.line = None <=> r.line = None
  <1>1. r \in Runner /\ r.water \in {None} \cup Span /\ r.line \in {None} \cup Span
    BY PricesInSpan DEF SpanRunner
  <1>2. /\ Mirror(r.water) \in Nat /\ (Mirror(r.water) = None <=> r.water = None)
        /\ Mirror(r.line) \in Nat /\ (Mirror(r.line) = None <=> r.line = None)
    BY <1>1, PriceAssumption DEF Mirror, Span, None
  <1> QED  BY <1>1, <1>2 DEF MirrorRunner, Runner

LEMMA RunnerIsItsFields ==
  ASSUME NEW x \in Runner, NEW y \in Runner, x.armed = y.armed, x.water = y.water,
         x.line = y.line, x.streak = y.streak
  PROVE  x = y
  BY DEF Runner

LEMMA PlanIsItsFields ==
  ASSUME NEW x \in Plan, NEW y \in Plan, x.stop = y.stop, x.applied = y.applied,
         x.hit = y.hit, x.runner = y.runner, x.fired = y.fired, x.emergency = y.emergency
  PROVE  x = y
  BY DEF Plan

LEMMA PlanMirrors ==
  ASSUME NEW t, SpanTerms(t), NEW p, SpanPlan(p)
  PROVE  LET o == MirrorPlan(p)
         IN  /\ o \in Plan /\ o.stop = Mirror(p.stop) /\ o.runner = MirrorRunner(p.runner)
             /\ o.applied = p.applied /\ o.hit = p.hit /\ o.fired = p.fired
             /\ o.emergency = p.emergency
             /\ o.stop = None <=> p.stop = None
  <1>1. p \in Plan /\ p.stop \in {None} \cup Span /\ MirrorRunner(p.runner) \in Runner
    BY RunnerMirrors DEF SpanPlan
  <1>2. Mirror(p.stop) \in Int /\ (Mirror(p.stop) = None <=> p.stop = None)
    BY <1>1, PriceAssumption DEF Mirror, Span, None
  <1>3. MirrorPlan(p) = [p EXCEPT !.stop = Mirror(p.stop), !.runner = MirrorRunner(p.runner)]
    BY <1>1 DEF MirrorPlan, MirrorRunner, Plan, Runner
  <1> QED  BY <1>1, <1>2, <1>3 DEF Plan

(* What Followed does, by fields.                                          *)
LEMMA FollowedFields ==
  ASSUME NEW t, NEW r \in Runner, NEW fill, t.offset # 0
  PROVE  LET seen  == IF r.water = None THEN fill ELSE r.water
             water == IF t.side = "long" THEN Greatest(seen, fill) ELSE Least(seen, fill)
             line  == IF t.side = "long" THEN water - t.offset ELSE water + t.offset
             x     == Followed(t, r, fill)
         IN  /\ x.armed = r.armed /\ x.streak = r.streak /\ x.water = water
             /\ x.line = IF line > 0 THEN line ELSE r.line
  BY DEF Followed, Runner

LEMMA FollowedMirrors ==
  ASSUME NEW t, SpanTerms(t), NEW r, SpanRunner(r), NEW fill \in Prices
  PROVE  /\ SpanRunner(Followed(t, r, fill))
         /\ Followed(MirrorTerms(t), MirrorRunner(r), Mirror(fill))
              = MirrorRunner(Followed(t, r, fill))
  <1> DEFINE u == MirrorTerms(t)
             s == MirrorRunner(r)
             x == Followed(t, r, fill)
             y == Followed(u, s, Mirror(fill))
  <1>1. /\ t \in Term /\ r \in Runner /\ t.offset \in Nat /\ t.side \in Sides
        /\ u.side = Opposite(t.side) /\ u.offset = t.offset
    BY TermMirrors DEF SpanTerms, SpanRunner, Term
  <1>2. /\ s \in Runner /\ s.armed = r.armed /\ s.streak = r.streak
        /\ s.water = Mirror(r.water) /\ s.line = Mirror(r.line)
        /\ s.water = None <=> r.water = None
    BY RunnerMirrors
  <1>3. fill \in Span /\ fill \in Price /\ Mirror(fill) \in Span /\ Mirror(fill) \in Price
        /\ Entry \in Nat /\ Mirror(fill) = 2 * Entry - fill
    BY PricesInSpan, SpanMirrors, PriceAssumption DEF Price, Span
  <1>4. CASE t.offset = 0
    BY <1>1, <1>4 DEF Followed
  <1>5. CASE t.offset # 0
    <2> DEFINE seen == IF r.water = None THEN fill ELSE r.water
               water == IF t.side = "long" THEN Greatest(seen, fill) ELSE Least(seen, fill)
               line == IF t.side = "long" THEN water - t.offset ELSE water + t.offset
               seen2 == IF s.water = None THEN Mirror(fill) ELSE s.water
               water2 == IF u.side = "long" THEN Greatest(seen2, Mirror(fill))
                                            ELSE Least(seen2, Mirror(fill))
               line2 == IF u.side = "long" THEN water2 - u.offset ELSE water2 + u.offset
    <2>1. seen \in Prices /\ seen \in Span
      BY <1>3, PricesInSpan DEF SpanRunner
    <2>2. water \in Prices /\ water \in Span
      BY <1>3, <2>1 DEF Greatest, Least
    <2>3. line \in Span
      BY <1>1, <1>3, <2>2 DEF Span, SpanTerms
    <2>4. seen2 = Mirror(seen) /\ Mirror(seen) = 2 * Entry - seen
      BY <1>2, <2>1, SpanMirrors
    <2> HIDE DEF seen, seen2
    <2>5. water2 = Mirror(water) /\ Mirror(water) = 2 * Entry - water
      <3>1. Mirror(water) = 2 * Entry - water
        BY <2>2, SpanMirrors
      <3>2. seen \in Int /\ fill \in Int
        BY <1>3, <2>1 DEF Span
      <3>3. CASE t.side = "long"
        BY <1>1, <1>3, <2>4, <3>1, <3>2, <3>3 DEF Opposite, Greatest, Least
      <3>4. CASE t.side = "short"
        BY <1>1, <1>3, <2>4, <3>1, <3>2, <3>4 DEF Opposite, Greatest, Least
      <3> QED  BY <1>1, <3>3, <3>4 DEF Sides
    <2> HIDE DEF water, water2
    <2>6. line2 = Mirror(line) /\ line2 > 0 /\ line > 0
      <3>1. Mirror(line) = 2 * Entry - line /\ Mirror(line) \in Span
        BY <2>3, SpanMirrors
      <3>2. water \in Int
        BY <2>2 DEF Span
      <3>3. CASE t.side = "long"
        BY <1>1, <1>3, <2>3, <2>5, <3>1, <3>2, <3>3 DEF Opposite, Span
      <3>4. CASE t.side = "short"
        BY <1>1, <1>3, <2>3, <2>5, <3>1, <3>2, <3>4 DEF Opposite, Span
      <3> QED  BY <1>1, <3>3, <3>4 DEF Sides
    <2> HIDE DEF line, line2
    <2>7. x \in Runner /\ x.armed = r.armed /\ x.streak = r.streak /\ x.water = water /\ x.line = line
      <3>1. x \in Runner
        BY <1>1, <1>3, FollowedType
      <3>2. /\ x.armed = r.armed /\ x.streak = r.streak /\ x.water = water
            /\ x.line = IF line > 0 THEN line ELSE r.line
        BY <1>1, <1>5, FollowedFields DEF line, water, seen
      <3> QED  BY <2>6, <3>1, <3>2
    <2>8. /\ y.armed = s.armed /\ y.streak = s.streak /\ y.water = water2
          /\ y.line = line2
      <3>1. /\ y.armed = s.armed /\ y.streak = s.streak /\ y.water = water2
            /\ y.line = IF line2 > 0 THEN line2 ELSE s.line
        BY <1>1, <1>2, <1>5, FollowedFields DEF line2, water2, seen2
      <3> QED  BY <2>6, <3>1
    <2>9. y \in Runner
      <3>1. water2 \in Nat /\ line2 \in Nat
        BY <2>2, <2>3, <2>5, <2>6, SpanMirrors DEF Span
      <3>2. y = [s EXCEPT !.water = water2, !.line = line2]
        BY <1>1, <1>5, <2>6 DEF Followed, line2, water2, seen2
      <3> HIDE DEF y, s
      <3> QED  BY <1>2, <3>1, <3>2 DEF Runner
    <2>10. SpanRunner(x)
      BY <2>2, <2>3, <2>7 DEF SpanRunner
    <2> HIDE DEF x, y, s, u
    <2>11. /\ MirrorRunner(x) \in Runner /\ MirrorRunner(x).armed = x.armed
           /\ MirrorRunner(x).streak = x.streak /\ MirrorRunner(x).water = Mirror(x.water)
           /\ MirrorRunner(x).line = Mirror(x.line)
      BY <2>10, RunnerMirrors
    <2>12. y = MirrorRunner(x)
      BY <1>2, <2>5, <2>6, <2>7, <2>8, <2>9, <2>11, RunnerIsItsFields
    <2> QED  BY <2>10, <2>12 DEF x, y, s, u
  <1> QED  BY <1>4, <1>5

LEMMA TriggeredMirrors ==
  ASSUME NEW type, NEW mark \in Prices, NEW fill \in Prices
  PROVE  /\ Triggered(type, mark, fill) \in Prices
         /\ Triggered(type, Mirror(mark), Mirror(fill)) = Mirror(Triggered(type, mark, fill))
  BY DEF Triggered

LEMMA BreachMirrors ==
  ASSUME NEW t, SpanTerms(t), NEW r, SpanRunner(r), NEW mark \in Prices, NEW fill \in Prices
  PROVE  LineBreached(MirrorTerms(t), MirrorRunner(r), Mirror(mark), Mirror(fill))
           <=> LineBreached(t, r, mark, fill)
  <1> DEFINE u == MirrorTerms(t)
             s == MirrorRunner(r)
             price == Triggered(TpTrigger, mark, fill)
  <1>1. t.side \in Sides /\ u.side = Opposite(t.side)
    BY TermMirrors DEF SpanTerms, Term
  <1>2. /\ s.armed = r.armed /\ s.line = Mirror(r.line) /\ (s.line = None <=> r.line = None)
        /\ r.line \in {None} \cup Span
    BY RunnerMirrors DEF SpanRunner
  <1>3. price \in Span /\ Triggered(TpTrigger, Mirror(mark), Mirror(fill)) = Mirror(price)
    BY TriggeredMirrors, PricesInSpan
  <1> HIDE DEF u, s, price
  <1>4. r.line # None => /\ (price <= r.line <=> Mirror(price) >= Mirror(r.line))
                         /\ (price >= r.line <=> Mirror(price) <= Mirror(r.line))
    BY <1>2, <1>3, PriceAssumption DEF Mirror, Span, None
  <1>5. LineBreached(u, s, Mirror(mark), Mirror(fill))
          <=> /\ s.armed /\ s.line # None
              /\ IF u.side = "long" THEN Mirror(price) <= s.line ELSE Mirror(price) >= s.line
    BY <1>3 DEF LineBreached
  <1>6. LineBreached(t, r, mark, fill)
          <=> /\ r.armed /\ r.line # None
              /\ IF t.side = "long" THEN price <= r.line ELSE price >= r.line
    BY DEF LineBreached, price
  <1> QED  BY <1>1, <1>2, <1>4, <1>5, <1>6 DEF Opposite, Sides, u, s

LEMMA TrailedMirrors ==
  ASSUME NEW t, SpanTerms(t), NEW r, SpanRunner(r), NEW mark \in Prices, NEW fill \in Prices
  PROVE  /\ SpanRunner(Trailed(t, r, mark, fill))
         /\ Trailed(MirrorTerms(t), MirrorRunner(r), Mirror(mark), Mirror(fill))
              = MirrorRunner(Trailed(t, r, mark, fill))
  <1> DEFINE u == MirrorTerms(t)
             s == MirrorRunner(r)
             f == IF t.hints.runner /\ r.armed THEN Followed(t, r, fill) ELSE r
             g == IF u.hints.runner /\ s.armed THEN Followed(u, s, Mirror(fill)) ELSE s
             n == Streak(t, f, mark, fill)
             m == Streak(u, g, Mirror(mark), Mirror(fill))
             x == [f EXCEPT !.streak = n]
             y == [g EXCEPT !.streak = m]
  <1>1. u.hints = t.hints /\ (u.targets = <<>> <=> t.targets = <<>>) /\ s.armed = r.armed
    BY TermMirrors, RunnerMirrors
  <1>2. SpanRunner(f) /\ g = MirrorRunner(f)
    <2> HIDE DEF u, s
    <2> QED  BY <1>1, FollowedMirrors DEF u, s
  <1> HIDE DEF f, g
  <1>3. n = m /\ n \in Nat
    <2>1. LineBreached(u, g, Mirror(mark), Mirror(fill)) <=> LineBreached(t, f, mark, fill)
      BY <1>2, BreachMirrors
    <2>2. g.streak = f.streak /\ f.streak \in Nat
      BY <1>2, RunnerMirrors DEF SpanRunner, Runner
    <2> QED  BY <1>1, <2>1, <2>2 DEF Streak
  <1> HIDE DEF n, m
  <1>4. SpanRunner(x) /\ x.armed = f.armed /\ x.streak = n /\ x.water = f.water /\ x.line = f.line
    BY <1>2, <1>3 DEF SpanRunner, Runner
  <1>5. /\ g \in Runner /\ g.armed = f.armed /\ g.water = Mirror(f.water)
        /\ g.line = Mirror(f.line)
    BY <1>2, RunnerMirrors
  <1>6. /\ y \in Runner /\ y.armed = f.armed /\ y.streak = n /\ y.water = Mirror(f.water)
        /\ y.line = Mirror(f.line)
    BY <1>3, <1>5 DEF Runner
  <1>7. /\ Trailed(t, r, mark, fill) = IF t.targets = <<>> THEN r ELSE x
        /\ Trailed(u, s, Mirror(mark), Mirror(fill)) = IF u.targets = <<>> THEN s ELSE y
    BY DEF Trailed, f, g, n, m
  <1> HIDE DEF x, y
  <1>8. y = MirrorRunner(x)
    <2>1. /\ MirrorRunner(x) \in Runner /\ MirrorRunner(x).armed = x.armed
          /\ MirrorRunner(x).streak = x.streak /\ MirrorRunner(x).water = Mirror(x.water)
          /\ MirrorRunner(x).line = Mirror(x.line)
      BY <1>4, RunnerMirrors
    <2> QED  BY <1>4, <1>6, <2>1, RunnerIsItsFields
  <1> HIDE DEF u, s
  <1> QED  BY <1>1, <1>4, <1>7, <1>8 DEF u, s

(* The stop and the targets are reached on one side when their images are  *)
(* on the other.                                                           *)
LEMMA StopMirrors ==
  ASSUME NEW t, SpanTerms(t), NEW p, SpanPlan(p), NEW mark \in Prices, NEW fill \in Prices
  PROVE  StopReached(MirrorTerms(t), MirrorPlan(p), Mirror(mark), Mirror(fill))
           <=> StopReached(t, p, mark, fill)
  <1> DEFINE u == MirrorTerms(t)
             o == MirrorPlan(p)
             price == Triggered(StopTrigger, mark, fill)
  <1>1. t.side \in Sides /\ u.side = Opposite(t.side)
    BY TermMirrors DEF SpanTerms, Term
  <1>2. o.stop = Mirror(p.stop) /\ (o.stop = None <=> p.stop = None) /\ p.stop \in {None} \cup Span
    BY PlanMirrors DEF SpanPlan
  <1>3. price \in Span /\ Triggered(StopTrigger, Mirror(mark), Mirror(fill)) = Mirror(price)
    BY TriggeredMirrors, PricesInSpan
  <1> HIDE DEF u, o, price
  <1>4. p.stop # None => /\ (price <= p.stop <=> Mirror(price) >= Mirror(p.stop))
                         /\ (price >= p.stop <=> Mirror(price) <= Mirror(p.stop))
    BY <1>2, <1>3, PriceAssumption DEF Mirror, Span, None
  <1>5. StopReached(u, o, Mirror(mark), Mirror(fill))
          <=> /\ o.stop # None
              /\ IF u.side = "long" THEN Mirror(price) <= o.stop ELSE Mirror(price) >= o.stop
    BY <1>3 DEF StopReached
  <1>6. StopReached(t, p, mark, fill)
          <=> /\ p.stop # None
              /\ IF t.side = "long" THEN price <= p.stop ELSE price >= p.stop
    BY DEF StopReached, price
  <1> QED  BY <1>1, <1>2, <1>4, <1>5, <1>6 DEF Opposite, Sides, u, o

LEMMA ReachedMirrors ==
  ASSUME NEW t, SpanTerms(t), NEW p, SpanPlan(p), NEW mark \in Prices, NEW fill \in Prices
  PROVE  Reached(MirrorTerms(t), MirrorPlan(p), Mirror(mark), Mirror(fill))
           = Reached(t, p, mark, fill)
  <1> DEFINE u == MirrorTerms(t)
             o == MirrorPlan(p)
             price == Triggered(TpTrigger, mark, fill)
             open == DOMAIN t.targets \ p.hit
  <1>1. t.side \in Sides /\ u.side = Opposite(t.side) /\ DOMAIN u.targets = DOMAIN t.targets
    BY TermMirrors DEF SpanTerms, Term
  <1>2. o.hit = p.hit
    BY PlanMirrors
  <1>3. price \in Span /\ Triggered(TpTrigger, Mirror(mark), Mirror(fill)) = Mirror(price)
    BY TriggeredMirrors, PricesInSpan
  <1>4. ASSUME NEW i \in open
        PROVE  t.targets[i] \in Span /\ u.targets[i] = Mirror(t.targets[i])
    <2>1. t.targets # <<>>
      <3>1. t.targets = <<>> => DOMAIN t.targets = {}
        OBVIOUS
      <3> QED  BY <3>1
    <2>2. t.targets \in [Indices -> Span]
      BY <2>1 DEF SpanTerms
    <2> QED  BY <2>2, TermMirrors
  <1>5. Reached(u, o, Mirror(mark), Mirror(fill))
          = {i \in open : IF u.side = "long" THEN Mirror(price) >= u.targets[i]
                                             ELSE Mirror(price) <= u.targets[i]}
    <2> HIDE DEF u, o, price
    <2> QED  BY <1>1, <1>2, <1>3 DEF Reached
  <1>6. Reached(t, p, mark, fill)
          = {i \in open : IF t.side = "long" THEN price >= t.targets[i]
                                             ELSE price <= t.targets[i]}
    BY DEF Reached
  <1> HIDE DEF u, o, price, open
  <1>7. ASSUME NEW i \in open
        PROVE  (IF u.side = "long" THEN Mirror(price) >= u.targets[i]
                                   ELSE Mirror(price) <= u.targets[i])
               <=> (IF t.side = "long" THEN price >= t.targets[i] ELSE price <= t.targets[i])
    <2>1. u.targets[i] = Mirror(t.targets[i]) /\ t.targets[i] \in Span
      BY <1>4
    <2> DEFINE goal == t.targets[i]
    <2> HIDE DEF goal
    <2>2. goal \in Span /\ u.targets[i] = Mirror(goal)
      BY <2>1 DEF goal
    <2>3. /\ (price <= goal <=> Mirror(price) >= Mirror(goal))
          /\ (price >= goal <=> Mirror(price) <= Mirror(goal))
      BY <1>3, <2>2, PriceAssumption DEF Mirror, Span, None
    <2> QED  BY <1>1, <2>2, <2>3 DEF Opposite, Sides, goal
  <1> QED  BY <1>5, <1>6, <1>7 DEF u, o

LEMMA TakenMirrors ==
  ASSUME NEW t, SpanTerms(t), NEW p, SpanPlan(p), NEW qty, NEW mark \in Prices, NEW fill \in Prices
  PROVE  /\ Taken(MirrorTerms(t), MirrorPlan(p), qty, Mirror(mark), Mirror(fill))
              = Taken(t, p, qty, mark, fill)
         /\ \A set : Remainder(MirrorTerms(t), set, qty) = Remainder(t, set, qty)
         /\ ArmIndex(MirrorTerms(t)) = ArmIndex(t)
  <1>1. MirrorTerms(t).hints = t.hints
    BY TermMirrors
  <1>2. \A set : Pct(MirrorTerms(t), set) = Pct(t, set)
    BY <1>1 DEF Pct
  <1>3. Reached(MirrorTerms(t), MirrorPlan(p), Mirror(mark), Mirror(fill)) = Reached(t, p, mark, fill)
    BY ReachedMirrors
  <1> QED  BY <1>1, <1>2, <1>3 DEF Taken, Remainder, ArmIndex

LEMMA RunnerAfterMirrors ==
  ASSUME NEW t, SpanTerms(t), NEW r, SpanRunner(r), NEW taken, NEW fill \in Prices
  PROVE  /\ SpanRunner(RunnerAfter(t, r, taken, fill))
         /\ RunnerAfter(MirrorTerms(t), MirrorRunner(r), taken, Mirror(fill))
              = MirrorRunner(RunnerAfter(t, r, taken, fill))
  <1> DEFINE u == MirrorTerms(t)
             s == MirrorRunner(r)
             a == [r EXCEPT !.armed = TRUE]
             b == [s EXCEPT !.armed = TRUE]
  <1>1. u.hints = t.hints /\ ArmIndex(u) = ArmIndex(t) /\ s.armed = r.armed
    BY TermMirrors, RunnerMirrors DEF ArmIndex
  <1>2. /\ SpanRunner(a) /\ a.armed = TRUE /\ a.water = r.water /\ a.line = r.line
        /\ a.streak = r.streak
    BY DEF SpanRunner, Runner
  <1>3. b = MirrorRunner(a)
    <2>1. /\ s \in Runner /\ s.streak = r.streak /\ s.water = Mirror(r.water)
          /\ s.line = Mirror(r.line)
      BY RunnerMirrors
    <2> HIDE DEF s, a
    <2>2. /\ b \in Runner /\ b.armed = TRUE /\ b.streak = r.streak /\ b.water = Mirror(r.water)
          /\ b.line = Mirror(r.line)
      BY <2>1 DEF Runner
    <2>3. /\ MirrorRunner(a) \in Runner /\ MirrorRunner(a).armed = a.armed
          /\ MirrorRunner(a).streak = a.streak /\ MirrorRunner(a).water = Mirror(a.water)
          /\ MirrorRunner(a).line = Mirror(a.line)
      BY <1>2, RunnerMirrors
    <2> HIDE DEF b
    <2> QED  BY <1>2, <2>2, <2>3, RunnerIsItsFields
  <1>4. /\ SpanRunner(Followed(t, a, fill)) /\ SpanRunner(Followed(t, r, fill))
        /\ Followed(u, b, Mirror(fill)) = MirrorRunner(Followed(t, a, fill))
        /\ Followed(u, s, Mirror(fill)) = MirrorRunner(Followed(t, r, fill))
    <2> HIDE DEF a, b
    <2> QED  BY <1>2, <1>3, FollowedMirrors
  <1>5. RunnerAfter(t, r, taken, fill)
          = IF ArmIndex(t) \in taken /\ t.hints.runner /\ ~r.armed THEN Followed(t, a, fill)
            ELSE IF r.armed THEN Followed(t, r, fill) ELSE r
    BY DEF RunnerAfter
  <1>6. RunnerAfter(u, s, taken, Mirror(fill))
          = IF ArmIndex(u) \in taken /\ u.hints.runner /\ ~s.armed THEN Followed(u, b, Mirror(fill))
            ELSE IF s.armed THEN Followed(u, s, Mirror(fill)) ELSE s
    BY DEF RunnerAfter
  <1> HIDE DEF u, s, a, b
  <1> QED  BY <1>1, <1>4, <1>5, <1>6 DEF u, s

(* d is a decision within the span, and e its mirror image.                *)
MirrorImages(e, d) == SpanPlan(d.plan) /\ e = [d EXCEPT !.plan = MirrorPlan(@)]

LEMMA TakeTargetsMirrors ==
  ASSUME NEW t, SpanTerms(t), NEW p, SpanPlan(p), NEW qty, NEW mark \in Prices, NEW fill \in Prices
  PROVE  MirrorImages(TakeTargets(MirrorTerms(t), MirrorPlan(p), qty, Mirror(mark), Mirror(fill)),
                      TakeTargets(t, p, qty, mark, fill))
  <1> DEFINE u == MirrorTerms(t)
             o == MirrorPlan(p)
             d == TakeTargets(t, p, qty, mark, fill)
             e == TakeTargets(u, o, qty, Mirror(mark), Mirror(fill))
             taken == Taken(t, p, qty, mark, fill)
             hit   == p.hit \cup taken
             run   == RunnerAfter(t, p.runner, taken, fill)
             even  == BreaksEven(t, p, hit)
             stop  == IF even THEN BrokenEven(t, p.stop) ELSE p.stop
             appl  == p.applied \/ even
             left  == Remainder(t, taken, qty)
             lefts == {Remainder(t, {j \in taken : j <= i}, qty) : i \in taken}
             x     == [p EXCEPT !.hit = hit, !.runner = run, !.stop = stop, !.applied = appl]
             stop2 == IF even THEN BrokenEven(u, o.stop) ELSE o.stop
             y     == [o EXCEPT !.hit = hit, !.runner = MirrorRunner(run), !.stop = stop2,
                                !.applied = appl]
  <1>1. /\ t \in Term /\ t.side \in Sides /\ p \in Plan /\ SpanRunner(p.runner)
        /\ p.stop \in {None} \cup Span
    BY DEF SpanTerms, SpanPlan, Term
  <1>2. /\ u.side = Opposite(t.side) /\ u.hints = t.hints
        /\ (u.targets = <<>> <=> t.targets = <<>>)
    BY TermMirrors
  <1>3. /\ o \in Plan /\ o.stop = Mirror(p.stop) /\ o.runner = MirrorRunner(p.runner)
        /\ o.applied = p.applied /\ o.hit = p.hit /\ o.fired = p.fired
        /\ o.emergency = p.emergency /\ (o.stop = None <=> p.stop = None)
    BY PlanMirrors
  <1>4. /\ Taken(u, o, qty, Mirror(mark), Mirror(fill)) = taken
        /\ \A set : Remainder(u, set, qty) = Remainder(t, set, qty)
    BY TakenMirrors
  <1>5. /\ SpanRunner(run)
        /\ RunnerAfter(u, o.runner, taken, Mirror(fill)) = MirrorRunner(run)
    <2> HIDE DEF taken
    <2> QED  BY <1>1, <1>3, RunnerAfterMirrors DEF u, run
  <1>6. hit \in SUBSET Indices /\ appl \in BOOLEAN
    BY <1>1 DEF Taken, Reached, Term, Plan, BreaksEven
  <1>7. BreaksEven(u, o, hit) <=> even
    <2> HIDE DEF u, o, hit
    <2> QED  BY <1>2, <1>3 DEF BreaksEven, even
  <1>8. stop \in {None} \cup Span /\ stop2 = Mirror(stop)
    <2>1. Entry \in Span /\ Mirror(Entry) = Entry /\ Entry \in Nat
      BY PricesInSpan, PriceAssumption
    <2>2. CASE even
      <3>1. p.stop \in Span /\ p.stop # None
        BY <1>1, <2>2 DEF BreaksEven
      <3> HIDE DEF u, o, even
      <3>2. /\ Mirror(p.stop) = 2 * Entry - p.stop /\ p.stop \in Int
        BY <3>1, SpanMirrors DEF Span
      <3>3. BrokenEven(t, p.stop) \in {p.stop, Entry}
        BY DEF BrokenEven, Greatest, Least
      <3>4. BrokenEven(u, Mirror(p.stop)) = Mirror(BrokenEven(t, p.stop))
        <4>1. CASE t.side = "long"
          BY <1>2, <2>1, <3>2, <4>1 DEF Opposite, BrokenEven, Greatest, Least
        <4>2. CASE t.side = "short"
          BY <1>2, <2>1, <3>2, <4>2 DEF Opposite, BrokenEven, Greatest, Least
        <4> QED  BY <1>1, <4>1, <4>2 DEF Sides
      <3> QED  BY <1>3, <2>1, <2>2, <3>1, <3>3, <3>4
    <2>3. CASE ~even
      <3> HIDE DEF o, even
      <3> QED  BY <1>1, <1>3, <2>3
    <2> QED  BY <2>2, <2>3
  <1>9. d = [reason |-> "target", left |-> left, lefts |-> lefts, plan |-> x]
    BY DEF TakeTargets
  <1>10. e = [reason |-> "target", left |-> left, lefts |-> lefts, plan |-> y]
    <2> HIDE DEF u, o, taken, run, even
    <2>1. e = [reason |-> "target", left |-> Remainder(u, taken, qty),
               lefts |-> {Remainder(u, {j \in taken : j <= i}, qty) : i \in taken},
               plan |-> [o EXCEPT !.hit = hit, !.runner = MirrorRunner(run), !.stop = stop2,
                                  !.applied = appl]]
      BY <1>3, <1>4, <1>5, <1>7 DEF TakeTargets
    <2> QED  BY <1>4, <2>1
  <1> HIDE DEF d, e, u, o, taken, hit, run, even, stop, appl, left, lefts, stop2
  <1>11. /\ x \in Plan /\ x.stop = stop /\ x.applied = appl /\ x.hit = hit /\ x.runner = run
         /\ x.fired = p.fired /\ x.emergency = p.emergency
    <2>1. stop \in Int /\ run \in Runner
      BY <1>5, <1>8 DEF SpanRunner, Span, None
    <2> QED  BY <1>1, <1>6, <2>1 DEF Plan
  <1>12. /\ y \in Plan /\ y.stop = stop2 /\ y.applied = appl /\ y.hit = hit
         /\ y.runner = MirrorRunner(run) /\ y.fired = p.fired /\ y.emergency = p.emergency
    <2>1. stop2 \in Int /\ MirrorRunner(run) \in Runner
      <3>1. MirrorRunner(run) \in Runner
        BY <1>5, RunnerMirrors
      <3>2. stop2 \in Int
        BY <1>8, PriceAssumption DEF Mirror, Span, None
      <3> QED  BY <3>1, <3>2
    <2> QED  BY <1>3, <1>6, <2>1 DEF Plan
  <1> HIDE DEF x, y
  <1>13. SpanPlan(x)
    BY <1>5, <1>8, <1>11 DEF SpanPlan
  <1>14. y = MirrorPlan(x)
    <2>1. /\ MirrorPlan(x) \in Plan /\ MirrorPlan(x).stop = Mirror(x.stop)
          /\ MirrorPlan(x).runner = MirrorRunner(x.runner)
          /\ MirrorPlan(x).applied = x.applied /\ MirrorPlan(x).hit = x.hit
          /\ MirrorPlan(x).fired = x.fired /\ MirrorPlan(x).emergency = x.emergency
      BY <1>13, PlanMirrors
    <2> QED  BY <1>8, <1>11, <1>12, <2>1, PlanIsItsFields
  <1>15. MirrorImages(e, d)
    BY <1>9, <1>10, <1>13, <1>14 DEF MirrorImages
  <1> QED  BY <1>15 DEF d, e, u, o

LEMMA CloseAllMirrors ==
  ASSUME NEW reason, NEW p, SpanPlan(p)
  PROVE  MirrorImages(CloseAll(reason, MirrorPlan(p)), CloseAll(reason, p))
  BY DEF MirrorImages, CloseAll

(* Changing a part of a plan that has no side commutes with the image.     *)
LEMMA EvaluatedMirrors ==
  ASSUME NEW t, SpanTerms(t), NEW p, SpanPlan(p), NEW qty, NEW isLate,
         NEW mark \in Prices, NEW fill \in Prices
  PROVE  MirrorImages(
           Evaluated(MirrorTerms(t), MirrorPlan(p), qty, isLate, Mirror(mark), Mirror(fill)),
           Evaluated(t, p, qty, isLate, mark, fill))
  <1> DEFINE u == MirrorTerms(t)
             o == MirrorPlan(p)
             r == Trailed(t, p.runner, mark, fill)
             s == Trailed(u, o.runner, Mirror(mark), Mirror(fill))
             q == [p EXCEPT !.runner = r]
             n == [o EXCEPT !.runner = s]
             p1 == [p EXCEPT !.emergency = FALSE]
             o1 == [o EXCEPT !.emergency = FALSE]
             p2 == [p EXCEPT !.fired = TRUE]
             o2 == [o EXCEPT !.fired = TRUE]
  <1>1. p \in Plan /\ SpanRunner(p.runner) /\ p.stop \in {None} \cup Span
    BY DEF SpanPlan
  <1>2. /\ o \in Plan /\ o.stop = Mirror(p.stop) /\ o.runner = MirrorRunner(p.runner)
        /\ o.applied = p.applied /\ o.hit = p.hit /\ o.fired = p.fired
        /\ o.emergency = p.emergency
    BY PlanMirrors
  <1>3. u.timed = t.timed
    BY TermMirrors
  <1>4. SpanRunner(r) /\ s = MirrorRunner(r)
    <2> HIDE DEF o
    <2> QED  BY <1>1, <1>2, TrailedMirrors
  <1> HIDE DEF u, o, r, s
  <1>5. ASSUME NEW x \in Plan, NEW y \in Plan, SpanPlan(x), y.stop = Mirror(x.stop),
               y.runner = MirrorRunner(x.runner), y.applied = x.applied, y.hit = x.hit,
               y.fired = x.fired, y.emergency = x.emergency
        PROVE  y = MirrorPlan(x)
    <2>1. /\ MirrorPlan(x) \in Plan /\ MirrorPlan(x).stop = Mirror(x.stop)
          /\ MirrorPlan(x).runner = MirrorRunner(x.runner)
          /\ MirrorPlan(x).applied = x.applied /\ MirrorPlan(x).hit = x.hit
          /\ MirrorPlan(x).fired = x.fired /\ MirrorPlan(x).emergency = x.emergency
      BY <1>5, PlanMirrors
    <2> QED  BY <1>5, <2>1, PlanIsItsFields
  <1>6. SpanPlan(q) /\ n = MirrorPlan(q)
    <2>1. /\ q \in Plan /\ q.runner = r /\ q.stop = p.stop /\ q.applied = p.applied
          /\ q.hit = p.hit /\ q.fired = p.fired /\ q.emergency = p.emergency
      BY <1>1, <1>4 DEF Plan, SpanRunner
    <2>2. s \in Runner
      BY <1>4, RunnerMirrors
    <2>3. /\ n \in Plan /\ n.runner = s /\ n.stop = o.stop /\ n.applied = o.applied
          /\ n.hit = o.hit /\ n.fired = o.fired /\ n.emergency = o.emergency
      BY <1>2, <2>2 DEF Plan
    <2> HIDE DEF q, n
    <2>4. SpanPlan(q)
      BY <1>1, <1>4, <2>1 DEF SpanPlan
    <2> QED  BY <1>2, <1>4, <1>5, <2>1, <2>3, <2>4
  <1>7. SpanPlan(p1) /\ o1 = MirrorPlan(p1)
    <2>1. /\ p1 \in Plan /\ p1.runner = p.runner /\ p1.stop = p.stop /\ p1.applied = p.applied
          /\ p1.hit = p.hit /\ p1.fired = p.fired /\ p1.emergency = FALSE
      BY <1>1 DEF Plan
    <2>2. /\ o1 \in Plan /\ o1.runner = o.runner /\ o1.stop = o.stop /\ o1.applied = o.applied
          /\ o1.hit = o.hit /\ o1.fired = o.fired /\ o1.emergency = FALSE
      BY <1>2 DEF Plan
    <2> HIDE DEF p1, o1
    <2>3. SpanPlan(p1)
      BY <1>1, <2>1 DEF SpanPlan
    <2> QED  BY <1>2, <1>5, <2>1, <2>2, <2>3
  <1>8. SpanPlan(p2) /\ o2 = MirrorPlan(p2)
    <2>1. /\ p2 \in Plan /\ p2.runner = p.runner /\ p2.stop = p.stop /\ p2.applied = p.applied
          /\ p2.hit = p.hit /\ p2.fired = TRUE /\ p2.emergency = p.emergency
      BY <1>1 DEF Plan
    <2>2. /\ o2 \in Plan /\ o2.runner = o.runner /\ o2.stop = o.stop /\ o2.applied = o.applied
          /\ o2.hit = o.hit /\ o2.fired = TRUE /\ o2.emergency = o.emergency
      BY <1>2 DEF Plan
    <2> HIDE DEF p2, o2
    <2>3. SpanPlan(p2)
      BY <1>1, <2>1 DEF SpanPlan
    <2> QED  BY <1>2, <1>5, <2>1, <2>2, <2>3
  <1>9. StopReached(u, o, Mirror(mark), Mirror(fill)) <=> StopReached(t, p, mark, fill)
    BY StopMirrors DEF u, o
  <1>10. /\ LineBreached(u, s, Mirror(mark), Mirror(fill)) <=> LineBreached(t, r, mark, fill)
         /\ s.streak = r.streak
    BY <1>4, BreachMirrors, RunnerMirrors DEF u
  <1> HIDE DEF q, n, p1, o1, p2, o2
  <1>11. MirrorImages(TakeTargets(u, n, qty, Mirror(mark), Mirror(fill)),
                      TakeTargets(t, q, qty, mark, fill))
    BY <1>6, TakeTargetsMirrors DEF u
  <1>12. /\ MirrorImages(CloseAll("emergency", o1), CloseAll("emergency", p1))
         /\ MirrorImages(CloseAll("time", o2), CloseAll("time", p2))
         /\ MirrorImages(CloseAll("stop", n), CloseAll("stop", q))
         /\ MirrorImages(CloseAll("trail", n), CloseAll("trail", q))
    BY <1>6, <1>7, <1>8, CloseAllMirrors
  <1> DEFINE d == Evaluated(t, p, qty, isLate, mark, fill)
             e == Evaluated(u, o, qty, isLate, Mirror(mark), Mirror(fill))
  <1>13. d = IF p.emergency THEN CloseAll("emergency", p1)
             ELSE IF t.timed /\ isLate /\ ~p.fired THEN CloseAll("time", p2)
             ELSE IF StopReached(t, p, mark, fill) THEN CloseAll("stop", q)
             ELSE IF LineBreached(t, r, mark, fill) /\ r.streak >= WickTicks
                  THEN CloseAll("trail", q)
             ELSE TakeTargets(t, q, qty, mark, fill)
    BY DEF Evaluated, r, q, p1, p2
  <1>14. e = IF o.emergency THEN CloseAll("emergency", o1)
             ELSE IF u.timed /\ isLate /\ ~o.fired THEN CloseAll("time", o2)
             ELSE IF StopReached(u, o, Mirror(mark), Mirror(fill)) THEN CloseAll("stop", n)
             ELSE IF LineBreached(u, s, Mirror(mark), Mirror(fill)) /\ s.streak >= WickTicks
                  THEN CloseAll("trail", n)
             ELSE TakeTargets(u, n, qty, Mirror(mark), Mirror(fill))
    BY DEF Evaluated, s, n, o1, o2
  <1> HIDE DEF d, e
  <1>15. MirrorImages(e, d)
    BY <1>2, <1>3, <1>9, <1>10, <1>11, <1>12, <1>13, <1>14
  <1> QED  BY <1>15 DEF d, e, u, o

(* A new plan lies within the span.                                        *)
LEMMA BuiltInSpan ==
  ASSUME PricesHaveImages,
         NEW side \in Sides, NEW stop \in Stops, NEW goal \in Goals, NEW hints \in Hints,
         NEW timed \in BOOLEAN
  PROVE  SpanTerms(Built(side, goal, hints, timed)) /\ SpanPlan(Fresh(side, stop))
  <1> DEFINE t == Built(side, goal, hints, timed)
  <1>1. /\ Entry \in Nat \ {0} /\ Prices \subseteq Nat \ {0} /\ TrailMult \in Nat
        /\ stop \in 0..(Entry - 1) /\ goal \in 0..(Entry - 1)
    BY PriceAssumption
  <1>2. \A n \in 0..(Entry - 1) : Away(side, n) \in Span /\ (n # 0 => Away(side, -n) \in Span)
    BY <1>1 DEF Away, Span, Sides
  <1>3. t.targets \in {<<>>} \cup [Indices -> Span]
    <2>1. CASE goal = 0
      BY <2>1 DEF Built, Ladder
    <2>2. CASE goal # 0
      <3>1. \A i \in Indices : (goal * Share(8, 16, 30)[i]) \div 30 \in 0..(Entry - 1)
        <4>1. ASSUME NEW i \in Indices
              PROVE  (goal * Share(8, 16, 30)[i]) \div 30 \in 0..(Entry - 1)
          <5>1. Share(8, 16, 30)[i] \in {8, 16, 30}
            BY DEF Share, Indices
          <5>2. \A k \in {8, 16, 30} : (goal * k) \div 30 \in 0..(Entry - 1)
            BY <1>1
          <5> QED  BY <5>1, <5>2
        <4> QED  BY <4>1
      <3>2. t.targets = [i \in Indices |-> Away(side, (goal * Share(8, 16, 30)[i]) \div 30)]
        BY <2>2 DEF Built, Ladder
      <3> QED  BY <1>2, <3>1, <3>2
    <2> QED  BY <2>1, <2>2
  <1>4. t.offset = (goal * TrailMult) \div 3 /\ t.offset \in Nat
    <2>1. goal * TrailMult \in Nat
      BY <1>1
    <2>2. (goal * TrailMult) \div 3 \in Nat
      BY <2>1
    <2> QED  BY <2>2 DEF Built
  <1>5. \A price \in Prices : t.offset < price /\ price + t.offset < 2 * Entry
    BY <1>4 DEF PricesHaveImages
  <1>6. t \in Term
    <2>1. t.targets \in {<<>>} \cup [Indices -> Int]
      BY <1>3 DEF Span
    <2>2. /\ t = [side |-> side, targets |-> t.targets, offset |-> t.offset, hints |-> hints,
                  timed |-> timed]
      BY DEF Built
    <2> HIDE DEF t
    <2> QED  BY <1>4, <2>1, <2>2 DEF Term
  <1>7. SpanPlan(Fresh(side, stop))
    <2>1. (IF stop = 0 THEN None ELSE Away(side, -stop)) \in {None} \cup Span
      BY <1>1, <1>2
    <2> QED  BY <2>1 DEF Fresh, SpanPlan, SpanRunner, Plan, Runner, None, Span
  <1> QED  BY <1>3, <1>5, <1>6, <1>7 DEF SpanTerms

MirrorInv == SpanTerms(terms) /\ SpanPlan(plan)

LEMMA MirrorStep ==
  MirrorInv /\ [Next]_vars => MirrorInv'
  <1> SUFFICES ASSUME MirrorInv, [Next]_vars PROVE MirrorInv'
    OBVIOUS
  <1>1. ASSUME NEW mark \in Prices, NEW fill \in Prices, Tick(mark, fill)
        PROVE  MirrorInv'
    <2>1. plan' = Decision(mark, fill).plan /\ terms' = terms
      BY <1>1 DEF Tick
    <2>2. SpanPlan(Decision(mark, fill).plan)
      BY EvaluatedMirrors DEF MirrorInv, Decision, MirrorImages
    <2> QED  BY <2>1, <2>2 DEF MirrorInv
  <1>2. CASE SetEmergency
    <2>1. terms' = terms /\ plan' = [plan EXCEPT !.emergency = TRUE]
      BY <1>2 DEF SetEmergency
    <2>2. plan' \in Plan /\ plan'.stop = plan.stop /\ plan'.runner = plan.runner
      BY <2>1 DEF MirrorInv, SpanPlan, Plan
    <2> QED  BY <2>1, <2>2 DEF MirrorInv, SpanPlan
  <1>3. CASE UNCHANGED <<terms, plan>>
    BY <1>3 DEF MirrorInv
  <1> QED  BY <1>1, <1>2, <1>3 DEF Next, TickFails, DeadlinePasses, vars

(* Where prices have mirror images, a long and a short position are        *)
(* treated alike in every plan that can be reached, for every entry, goal, *)
(* stop, trigger and profile: the branches per side of evaluate_exit_plan, *)
(* update_runner_state and apply_break_even_update are images of each      *)
(* other.                                                                  *)
THEOREM SidesAgree ==
  ASSUME PricesHaveImages
  PROVE  Spec => []SidesMirror
<1>1. Init => MirrorInv
  <2> SUFFICES ASSUME Init PROVE MirrorInv
    OBVIOUS
  <2> PICK side \in Sides, stop \in Stops, goal \in Goals, timed \in BOOLEAN,
           name \in DOMAIN Profiles :
         terms = Built(side, goal, Profiles[name], timed) /\ plan = Fresh(side, stop)
    BY Zenon DEF Init
  <2> QED  BY ProfileType, BuiltInSpan DEF MirrorInv
<1>2. MirrorInv => SidesMirror
  <2> SUFFICES ASSUME MirrorInv, NEW mark \in Prices, NEW fill \in Prices
               PROVE  Evaluated(MirrorTerms(terms), MirrorPlan(plan), position, late,
                                Mirror(mark), Mirror(fill))
                        = [Decision(mark, fill) EXCEPT !.plan = MirrorPlan(@)]
    BY DEF SidesMirror
  <2> QED  BY EvaluatedMirrors DEF MirrorInv, MirrorImages, Decision
<1> QED  BY <1>1, <1>2, MirrorStep, PTL DEF Spec
=============================================================================
