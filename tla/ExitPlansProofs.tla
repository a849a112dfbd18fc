---------------------------- MODULE ExitPlansProofs ----------------------------
(***************************************************************************)
(* Proofs about ExitPlans, for any sizes and bounds.                       *)
(*                                                                         *)
(* The worker keeps copies of plans while requests rewrite their rows.     *)
(* CInv says which copies it may still write back: one of each trade at    *)
(* most, of no later build than the last, of a plan that has not been      *)
(* closed or found invalid since. EndedPlanIsNotRevived follows. HInv adds *)
(* that a target which was taken is marked as hit in every copy of its     *)
(* build, and in the row unless the worker is about to write it; it needs  *)
(* that what is submitted is stored.                                       *)
(*                                                                         *)
(* The other two properties are about the position, which all trades       *)
(* share, and are proved for one. FlatIsFinal: once the plan is active the *)
(* entry is through, and an empty snapshot means that the position has     *)
(* ended. SoldIsCovered: whatever the snapshot a plan is evaluated with,   *)
(* what was sold and what a plan, a copy or the rest of the submissions    *)
(* leaves to sell fit into the position.                                   *)
(*                                                                         *)
(* The hypotheses are needed: TLC finds the property violated as soon as   *)
(* one of them is dropped.  ExitPlansResubmit, ExitPlansShared and         *)
(* ExitPlansPriced keep three of these counterexamples.                    *)
(***************************************************************************)
EXTENDS ExitPlans, FunctionTheorems, FiniteSetTheorems, TLAPS

Asked == [at : {"idle", "persist", "replaced", "canceled", "discard"}, copy : Plan]

Order == [state : {"none", "working", "done"}, open : 0 .. Size]

Busy == {"close", "finalize", "evaluate", "submit", "store"}

Work ==
  [at : {"idle", "next"} \cup Busy, todo : SUBSET (Trades \X Plan), trade : SUBSET Trades,
   copy : Plan, seen : Nat, actions : Seq(Action), left : Nat]

Typing ==
  /\ plan \in [Trades -> Plan] /\ request \in [Trades -> Asked] /\ entry \in [Trades -> Order]
  /\ exits \in [Trades -> Nat] /\ position \in Nat /\ snapshot \in Nat /\ feed \in Seq(Nat)
  /\ price \in 0 .. Stop
  /\ worker \in Work
  /\ builds \in [Trades -> Nat] /\ taken \subseteq Trades \X Nat \X Targets
  /\ failures \in 0 .. MaxFailures

(* The worker has one plan in hand, or none.                               *)
InHand ==
  /\ worker.at \in Busy => \E r \in Trades : worker.trade = {r}
  /\ worker.at \notin Busy => worker.trade = {}
  /\ worker.at = "idle" => worker.todo = {}
  /\ worker.at = "submit" => worker.actions # <<>>

(* A plan is built once for the entry order and once per replacement.      *)
BuildsBounded ==
  \A r \in Trades :
    /\ builds[r] <= MaxReplaces + 1
    /\ request[r].at = "persist" => builds[r] = 0
    /\ request[r].at = "replaced" => builds[r] <= MaxReplaces
    /\ entry[r].state = "none" => builds[r] = 0 /\ request[r].at = "idle"

(* c is a copy of the plan of r that the worker may still write back.      *)
CopyOf(r, c) ==
  \/ worker.trade = {r} /\ c = worker.copy
  \/ <<r, c>> \in worker.todo

OneCopy == \A r \in Trades, c, d \in Plan : CopyOf(r, c) /\ CopyOf(r, d) => c = d

TodoNotInHand == \A r \in Trades, c \in Plan : <<r, c>> \in worker.todo => worker.trade # {r}

BuildsKnown ==
  \A r \in Trades :
    /\ plan[r].build <= builds[r] /\ request[r].copy.build <= builds[r]
    /\ \A c \in Plan : CopyOf(r, c) => c.build <= builds[r]

(* Only the worker ends a plan so, and then it has no copy left.           *)
CopiedHasNotEnded ==
  \A r \in Trades, c \in Plan : CopyOf(r, c) => plan[r].state \notin {"closed", "invalid"}

CopiedIsAlive == \A r \in Trades, c \in Plan : CopyOf(r, c) => c.state \in Alive

TInv == Typing /\ InHand /\ BuildsBounded

CInv == OneCopy /\ TodoNotInHand /\ BuildsKnown /\ CopiedHasNotEnded /\ CopiedIsAlive

(* A target the worker has taken is marked in every copy of that build and *)
(* in the row, except in the row while the worker has it in hand.          *)
TakenIsHit ==
  \A r \in Trades, b \in Nat, i \in Targets :
    <<r, b, i>> \in taken =>
      /\ b <= builds[r]
      /\ \A c \in Plan : CopyOf(r, c) /\ c.build = b => i \in c.hit
      /\ plan[r].build = b /\ plan[r].state \in Alive =>
           \/ i \in plan[r].hit
           \/ worker.at \in {"submit", "store"} /\ worker.trade = {r} /\ worker.copy.build = b

ActionsAreNew ==
  worker.at = "submit" =>
    /\ \A n \in 1 .. Len(worker.actions) : worker.actions[n].target \notin worker.copy.hit
    /\ \A m, n \in 1 .. Len(worker.actions) :
         worker.actions[m].target = worker.actions[n].target => m = n

(* One trade whose entry is filled as a whole: once its plan is active the *)
(* entry is through, and an empty snapshot is a flat position.             *)
WasOpen(c) == c.state \in {"active", "closing", "closed"}

SnapshotIsPast(a) == entry[a].state = "done" /\ (snapshot = 0 => position = 0)

FlatIsFinal(a) ==
  /\ entry[a].state # "done" => position = 0 /\ snapshot = 0 /\ feed = <<>>
  /\ \A i \in 1 .. Len(feed) : feed[i] = 0 => position = 0
  /\ WasOpen(plan[a]) \/ worker.at \in Busy => SnapshotIsPast(a)
  /\ \A c \in Plan : CopyOf(a, c) /\ WasOpen(c) => SnapshotIsPast(a)
  /\ plan[a].state = "closed" \/ worker.at = "close" => position = 0

(* One trade, and nothing sold of it yet: what the worker reads is at most *)
(* the position.                                                           *)
Unsold(a) ==
  /\ exits[a] = 0 /\ snapshot <= position
  /\ \A i \in 1 .. Len(feed) : feed[i] <= position
  /\ worker.at \in {"evaluate", "finalize"} => worker.seen <= position

(* What c leaves to sell is in the position, beside what is being sold.    *)
Covered(a, c) ==
  /\ c.state = "pending" \/ (c.state = "active" /\ c.hit = {}) => Unsold(a) /\ c.hit = {}
  /\ c.state = "active" /\ c.hit # {} => c.left > 0 /\ exits[a] + c.left <= position

NothingBuilt(a) ==
  builds[a] = 0 => /\ Unsold(a) /\ plan[a].state = "none" /\ request[a].at # "discard"
                   /\ worker.trade = {} /\ worker.todo = {}

PlansAreCovered(a) ==
  worker.at \notin {"submit", "store"} =>
    /\ Covered(a, plan[a])
    /\ \A c \in Plan : CopyOf(a, c) => Covered(a, c)

InHandIsOpen ==
  /\ worker.at = "finalize" => worker.copy.state = "pending"
  /\ worker.at = "evaluate" => worker.copy.state = "active" /\ worker.seen > 0
  /\ worker.at = "submit" => worker.copy.state \in {"active", "closing"}

(* The actions still to be submitted close what is left of the quantity    *)
(* evaluated, or not more than that.                                       *)
ActionsFit ==
  worker.at = "submit" =>
    \/ /\ Len(worker.actions) = 1
       /\ worker.actions[1].target = 0 /\ worker.actions[1].qty = worker.left
    \/ /\ Len(worker.actions) <= worker.left
       /\ \A n \in 1 .. Len(worker.actions) :
            worker.actions[n].qty = 1 /\ worker.actions[n].target # 0

StoredIsOpen ==
  worker.at = "store" =>
    \/ worker.copy.state = "closing"
    \/ worker.copy.state = "active" /\ worker.copy.hit # {} /\ worker.left > 0

SoldIsCovered(a) ==
  /\ exits[a] <= position
  /\ NothingBuilt(a) /\ PlansAreCovered(a)
  /\ worker.at \in {"submit", "store"} => exits[a] + worker.left <= position
  /\ InHandIsOpen /\ ActionsFit /\ StoredIsOpen

-----------------------------------------------------------------------------
(* What evaluate_exit_plan decides *)

(* Counting the members up to a member numbers a finite set of naturals    *)
(* from 1 to n without a gap.                                              *)
LEMMA RankIsBijective ==
  ASSUME NEW S \in SUBSET Nat, IsFiniteSet(S)
  PROVE  /\ Cardinality(S) \in Nat
         /\ \A i \in S : Cardinality({j \in S : j <= i}) \in 1 .. Cardinality(S)
         /\ \A h, i \in S : Cardinality({j \in S : j <= h}) = Cardinality({j \in S : j <= i}) => h = i
         /\ \A n \in 1 .. Cardinality(S) : \E i \in S : Cardinality({j \in S : j <= i}) = n
  <1> DEFINE upTo(i) == {j \in S : j <= i}
             n == Cardinality(S)
             rank == [i \in S |-> Cardinality(upTo(i))]
  <1>1. n \in Nat
    BY FS_CardinalityType
  <1>2. \A i \in S : IsFiniteSet(upTo(i)) /\ Cardinality(upTo(i)) \in Nat /\ Cardinality(upTo(i)) <= n
    BY FS_Subset, FS_CardinalityType
  <1>3. ASSUME NEW i \in S
        PROVE  rank[i] \in 1 .. n
    <2>1. i \in upTo(i)
      OBVIOUS
    <2>2. Cardinality(upTo(i)) # 0
      BY <1>2, <2>1, FS_EmptySet
    <2> QED  BY <1>1, <1>2, <2>2
  <1>4. ASSUME NEW h \in S, NEW i \in S, h < i
        PROVE  rank[h] < rank[i]
    <2>1. upTo(h) \subseteq upTo(i) /\ upTo(h) # upTo(i)
      <3>1. h \in Nat /\ i \in Nat
        OBVIOUS
      <3>2. i \in upTo(i) /\ i \notin upTo(h)
        BY <1>4, <3>1
      <3>3. \A x \in S : x <= h => x <= i
        BY <1>4, <3>1
      <3> QED  BY <3>2, <3>3
    <2>2. Cardinality(upTo(h)) <= Cardinality(upTo(i)) /\ Cardinality(upTo(h)) # Cardinality(upTo(i))
      BY <1>2, <2>1, FS_Subset
    <2> QED  BY <1>2, <2>2
  <1> HIDE DEF upTo
  <1>5. \A h, i \in S : rank[h] = rank[i] => h = i
    <2> SUFFICES ASSUME NEW h \in S, NEW i \in S, rank[h] = rank[i], h # i
                 PROVE  FALSE
      OBVIOUS
    <2>1. (h < i \/ i < h) /\ rank[h] \in Nat
      BY <1>1, <1>3
    <2> HIDE DEF rank
    <2> QED  BY <1>4, <2>1
  <1>6. rank \in Injection(S, 1 .. n)
    <2>1. rank \in [S -> 1 .. n]
      BY <1>3
    <2> QED  BY <1>5, <2>1 DEF Injection, IsInjective
  <1>7. IsFiniteSet(1 .. n) /\ Cardinality(1 .. n) = n
    BY <1>1, FS_Interval
  <1>8. rank \in Surjection(S, 1 .. n)
    BY <1>6, <1>7, FS_Injection
  <1>9. \A m \in 1 .. n : \E i \in S : rank[i] = m
    BY <1>8 DEF Surjection
  <1> QED  BY <1>1, <1>3, <1>5, <1>9 DEF upTo

(* A decision that is not a close in full takes targets the price has      *)
(* reached and the copy does not have, each once, one unit each, and not   *)
(* more than there are units.                                              *)
LEMMA DecisionTakes ==
  ASSUME price \in 0 .. Stop, price # Stop, NEW copy, NEW qty \in Nat
  PROVE  /\ Decision(copy, qty) \in Seq(Action) /\ Len(Decision(copy, qty)) <= qty
         /\ \A n \in 1 .. Len(Decision(copy, qty)) :
              /\ Decision(copy, qty)[n].qty = 1
              /\ Decision(copy, qty)[n].target \in Targets \ copy.hit
         /\ \A m, n \in 1 .. Len(Decision(copy, qty)) :
              Decision(copy, qty)[m].target = Decision(copy, qty)[n].target => m = n
  <1> DEFINE open    == {i \in 1 .. price : i \notin copy.hit /\ i <= copy.size}
             rank(i) == Cardinality({j \in open : j <= i})
             due     == {i \in open : rank(i) <= qty}
             pick(n) == CHOOSE i \in due : rank(i) = n
             D       == Decision(copy, qty)
  <1>1. Size \in Nat /\ price \in 0 .. Size /\ price \in Int
    BY SizeAssumption DEF Stop
  <1>2. open \subseteq Targets \ copy.hit /\ open \in SUBSET Nat
    BY <1>1 DEF Targets
  <1>3. IsFiniteSet(open)
    BY <1>1, FS_Interval, FS_Subset
  <1>4. D = [n \in 1 .. Cardinality(due) |-> [qty |-> 1, target |-> pick(n)]]
    BY DEF Decision
  <1>5. /\ \A i \in open : rank(i) \in 1 .. Cardinality(open)
        /\ \A m \in 1 .. Cardinality(open) : \E i \in open : rank(i) = m
        /\ Cardinality(open) \in Nat
        /\ \A h, i \in open : rank(h) = rank(i) => h = i
    <2> HIDE DEF open
    <2> QED  BY <1>2, <1>3, RankIsBijective
  <1> HIDE DEF open, rank
  <1>6. IsFiniteSet(due) /\ Cardinality(due) \in Nat /\ Cardinality(due) <= Cardinality(open)
    <2>1. due \subseteq open
      OBVIOUS
    <2> QED  BY <1>3, <2>1, FS_Subset, FS_CardinalityType
  <1>7. Cardinality(due) <= qty
    <2> DEFINE f == [i \in due |-> rank(i)]
    <2>1. f \in [due -> 1 .. qty]
      BY <1>5
    <2>2. f \in Injection(due, 1 .. qty)
      BY <1>5, <2>1 DEF Injection, IsInjective
    <2>3. IsFiniteSet(1 .. qty) /\ Cardinality(1 .. qty) = qty
      BY FS_Interval
    <2> HIDE DEF f
    <2> QED  BY <2>2, <2>3, FS_Injection
  <1>8. ASSUME NEW n \in 1 .. Cardinality(due)
        PROVE  pick(n) \in due /\ rank(pick(n)) = n
    <2>1. n \in 1 .. Cardinality(open) /\ n <= qty
      BY <1>5, <1>6, <1>7
    <2>2. \E i \in due : rank(i) = n
      BY <1>5, <2>1
    <2> QED  BY <2>2
  <1>9. \A n \in 1 .. Cardinality(due) : pick(n) \in Targets \ copy.hit
    BY <1>2, <1>8
  <1>10. \A m, n \in 1 .. Cardinality(due) : pick(m) = pick(n) => m = n
    BY <1>8
  <1> HIDE DEF due, pick, D
  <1>11. \A n \in 1 .. Cardinality(due) : [qty |-> 1, target |-> pick(n)] \in Action
    BY <1>1, <1>9 DEF Action, Targets
  <1>12. D \in [1 .. Cardinality(due) -> Action]
    BY <1>4, <1>11
  <1>13. D \in Seq(Action) /\ Len(D) = Cardinality(due)
    BY <1>6, <1>12
  <1>14. \A n \in 1 .. Len(D) : D[n].qty = 1 /\ D[n].target = pick(n)
    BY <1>4, <1>13
  <1> QED  BY <1>7, <1>9, <1>10, <1>13, <1>14 DEF D

(* A close in full is one action without a target.                         *)
LEMMA DecisionCloses ==
  ASSUME price = Stop, NEW copy, NEW qty \in Nat
  PROVE  /\ Decision(copy, qty) \in Seq(Action) /\ Len(Decision(copy, qty)) = 1
         /\ Decision(copy, qty)[1] = [qty |-> qty, target |-> 0]
  <1>1. Decision(copy, qty) = <<[qty |-> qty, target |-> 0]>>
    BY DEF Decision
  <1>2. [qty |-> qty, target |-> 0] \in Action
    BY SizeAssumption DEF Action
  <1> QED  BY <1>1, <1>2
-----------------------------------------------------------------------------
(* What the steps do to the worker and to the rows *)

LEMMA NoPlanTyped ==
  NoPlan \in Plan /\ NoPlan.state = "none" /\ NoPlan.build = 0 /\ NoPlan.hit = {}
  BY DEF NoPlan, Plan

LEMMA NoWorkTyped ==
  /\ NoWork \in Work /\ NoWork.at = "idle" /\ NoWork.todo = {} /\ NoWork.trade = {}
  BY NoPlanTyped DEF NoWork, Work

(* The plan in hand is put away.                                           *)
LEMMA PutAway ==
  ASSUME worker \in Work, NextPlan
  PROVE  /\ worker' \in Work /\ worker'.at = "next" /\ worker'.trade = {}
         /\ worker'.todo = worker.todo
  BY NoWorkTyped DEF NextPlan, Work

LEMMA BuiltTyped ==
  ASSUME builds \in [Trades -> Nat], NEW r \in Trades
  PROVE  /\ Built(r) \in Plan /\ Built(r).build = builds[r] + 1 /\ Built(r).hit = {}
         /\ Built(r).state = IF HasPrice(r) THEN "active" ELSE "pending"
         /\ Built(r).state \in {"active", "pending"}
  <1>1. Size \in Nat
    BY SizeAssumption
  <1> QED  BY <1>1 DEF Built, Plan, Alive

(* What becomes of the plan in hand when it is written back.               *)
Outcome(c) ==
  \/ worker.at = "close" /\ c.state = "closed"
  \/ worker.at = "finalize" /\ c.state \in {"active", "invalid", worker.copy.state}
  \/ /\ worker.at = "evaluate" /\ c.state = worker.copy.state
     /\ c.left \in {worker.copy.left, CurrentQty(worker.copy, worker.seen)}
  \/ worker.at = "store" /\ c.state = worker.copy.state /\ c.left = worker.left

(* The worker writes back a copy of the plan in hand.                      *)
Written(r) == \E c \in Plan : /\ plan' = [plan EXCEPT ![r] = c] /\ NextPlan
                              /\ c.build = worker.copy.build /\ c.hit = worker.copy.hit
                              /\ Outcome(c)

LEMMA WritesBack ==
  ASSUME Typing, NEW r \in Trades,
         \/ ClosePlan(r) \/ FinalizePlan(r) \/ FinalizeFails(r) \/ StorePlan(r)
         \/ EvaluatePlan(r) /\ NextPlan
  PROVE  Written(r)
  <1>0. worker.copy \in Plan /\ worker.seen \in Nat /\ worker.left \in Nat
    BY DEF Typing, Work
  <1>1. CASE ClosePlan(r)
    <2> DEFINE c == [worker.copy EXCEPT !.state = "closed", !.left = 0]
    <2>1. c \in Plan /\ c.build = worker.copy.build /\ c.hit = worker.copy.hit /\ c.state = "closed"
      BY <1>0 DEF Plan, Ended
    <2> HIDE DEF c
    <2>2. Outcome(c)
      BY <1>1, <2>1 DEF Outcome, ClosePlan, Writes
    <2>3. plan' = [plan EXCEPT ![r] = c] /\ NextPlan
      BY <1>1 DEF c, ClosePlan
    <2> QED  BY <2>1, <2>2, <2>3 DEF Written
  <1>2. CASE FinalizePlan(r)
    <2> DEFINE c == [worker.copy EXCEPT !.state = "active", !.size = worker.seen, !.left = worker.seen]
    <2>1. c \in Plan /\ c.build = worker.copy.build /\ c.hit = worker.copy.hit /\ c.state = "active"
      BY <1>0 DEF Plan, Alive
    <2> HIDE DEF c
    <2>2. Outcome(c)
      BY <1>2, <2>1 DEF Outcome, FinalizePlan, Writes
    <2>3. plan' = [plan EXCEPT ![r] = c] /\ NextPlan
      BY <1>2 DEF c, FinalizePlan
    <2> QED  BY <2>1, <2>2, <2>3 DEF Written
  <1>3. CASE FinalizeFails(r)
    <2> DEFINE c == [worker.copy EXCEPT !.state = "invalid"]
               d == [worker.copy EXCEPT !.size = worker.seen, !.left = worker.seen]
    <2>1. /\ c \in Plan /\ c.build = worker.copy.build /\ c.hit = worker.copy.hit
          /\ d \in Plan /\ d.build = worker.copy.build /\ d.hit = worker.copy.hit
          /\ c.state = "invalid" /\ d.state = worker.copy.state
      BY <1>0 DEF Plan, Ended
    <2> HIDE DEF c, d
    <2>2. Outcome(c) /\ Outcome(d)
      BY <1>3, <2>1 DEF Outcome, FinalizeFails, Writes
    <2>3. (plan' = [plan EXCEPT ![r] = c] \/ plan' = [plan EXCEPT ![r] = d]) /\ NextPlan
      BY <1>3 DEF c, d, FinalizeFails
    <2> QED  BY <2>1, <2>2, <2>3 DEF Written
  <1>4. CASE StorePlan(r)
    <2> DEFINE c == [worker.copy EXCEPT !.left = worker.left]
    <2>1. /\ c \in Plan /\ c.build = worker.copy.build /\ c.hit = worker.copy.hit
          /\ c.state = worker.copy.state /\ c.left = worker.left
      BY <1>0 DEF Plan
    <2> HIDE DEF c
    <2>2. Outcome(c)
      BY <1>4, <2>1 DEF Outcome, StorePlan, Writes
    <2>3. plan' = [plan EXCEPT ![r] = c] /\ NextPlan
      BY <1>4 DEF c, StorePlan
    <2> QED  BY <2>1, <2>2, <2>3 DEF Written
  <1>5. CASE EvaluatePlan(r) /\ NextPlan
    <2> DEFINE qty == CurrentQty(worker.copy, worker.seen)
    <2>1. qty \in Nat /\ worker.copy.left \in Nat
      BY <1>0 DEF CurrentQty, Least, Plan
    <2>2. \E left \in {worker.copy.left, qty} :
            plan' = [plan EXCEPT ![r] = [worker.copy EXCEPT !.left = left]]
      <3>1. worker' # [worker EXCEPT !.at = "submit", !.left = qty,
                                     !.actions = Decision(worker.copy, qty)]
        BY <1>0, <1>5, PutAway DEF Typing, Work
      <3> QED  BY <1>5, <3>1 DEF EvaluatePlan
    <2>3. PICK left \in {worker.copy.left, qty} :
            plan' = [plan EXCEPT ![r] = [worker.copy EXCEPT !.left = left]]
      BY <2>2
    <2> DEFINE c == [worker.copy EXCEPT !.left = left]
    <2>4. left \in Nat
      BY <2>1
    <2>5. /\ c \in Plan /\ c.build = worker.copy.build /\ c.hit = worker.copy.hit
          /\ c.state = worker.copy.state /\ c.left = left
      BY <1>0, <2>4 DEF Plan
    <2>6. plan' = [plan EXCEPT ![r] = c]
      BY <2>3
    <2> HIDE DEF c
    <2>7. Outcome(c)
      BY <1>5, <2>5 DEF Outcome, EvaluatePlan, Writes
    <2> QED  BY <1>5, <2>5, <2>6, <2>7 DEF Written
  <1> QED  BY <1>1, <1>2, <1>3, <1>4, <1>5
(* A copy is taken from the list: put away again, or in hand.              *)
LEMMA LookAtTakes ==
  ASSUME Typing, NEW r \in Trades, NEW c \in {w[2] : w \in worker.todo}, LookAt(r, c)
  PROVE  /\ worker.at = "next" /\ <<r, c>> \in worker.todo /\ c \in Plan
         /\ worker' \in Work /\ worker'.todo = worker.todo \ {<<r, c>>}
         /\ \/ worker'.at = "next" /\ worker'.trade = {}
            \/ /\ worker'.at \in {"close", "finalize", "evaluate"}
               /\ worker'.trade = {r} /\ worker'.copy = c /\ worker'.seen = snapshot
               /\ worker'.at = "close" <=> snapshot = 0
               /\ worker'.at = "close" => c.state \in {"active", "closing"}
               /\ worker'.at = "finalize" => c.state = "pending"
               /\ worker'.at = "evaluate" => c.state \notin {"closing", "pending"}
  <1> DEFINE step == CASE c.state \in {"closing", "active"} /\ snapshot = 0 -> "close"
                   [] c.state = "pending" /\ snapshot > 0               -> "finalize"
                   [] c.state \notin {"closing", "pending"} /\ snapshot > 0 -> "evaluate"
                   [] OTHER                                                -> "next"
             rest == worker.todo \ {<<r, c>>}
  <1>1. worker.at = "next" /\ <<r, c>> \in worker.todo
    BY DEF LookAt
  <1>2. c \in Plan /\ worker.todo \subseteq Trades \X Plan /\ snapshot \in Nat
    BY <1>1 DEF Typing, Work
  <1>3. worker' = IF step = "next" THEN [NoWork EXCEPT !.at = "next", !.todo = rest]
                  ELSE [NoWork EXCEPT !.at = step, !.todo = rest, !.trade = {r},
                                      !.copy = c, !.seen = snapshot]
    BY DEF LookAt
  <1>4. CASE step = "next"
    <2>1. worker' = [NoWork EXCEPT !.at = "next", !.todo = rest]
      BY <1>3, <1>4
    <2>2. rest \in SUBSET (Trades \X Plan)
      BY <1>2
    <2> HIDE DEF step, rest
    <2>3. worker' \in Work /\ worker'.todo = rest /\ worker'.at = "next" /\ worker'.trade = {}
      BY <2>1, <2>2, NoWorkTyped DEF Work
    <2> QED  BY <1>1, <1>2, <2>3 DEF rest
  <1>5. CASE step # "next"
    <2>1. worker' = [NoWork EXCEPT !.at = step, !.todo = rest, !.trade = {r},
                                   !.copy = c, !.seen = snapshot]
      BY <1>3, <1>5
    <2>2. rest \in SUBSET (Trades \X Plan)
      BY <1>2
    <2>3. /\ step \in {"close", "finalize", "evaluate"}
          /\ step = "close" <=> snapshot = 0
          /\ step = "close" => c.state \in {"active", "closing"}
          /\ step = "finalize" => c.state = "pending"
          /\ step = "evaluate" => c.state \notin {"closing", "pending"}
      BY <1>2, <1>5
    <2> HIDE DEF step, rest
    <2>4. /\ worker' \in Work /\ worker'.todo = rest /\ worker'.at = step /\ worker'.trade = {r}
          /\ worker'.copy = c /\ worker'.seen = snapshot
      BY <1>2, <2>1, <2>2, <2>3, NoWorkTyped DEF Work, Busy
    <2> QED  BY <1>1, <1>2, <2>3, <2>4 DEF rest
  <1> QED  BY <1>4, <1>5

(* An evaluation without an exit puts the copy away; otherwise its actions *)
(* are to be submitted, for the quantity evaluated.                        *)
LEMMA EvaluateDecides ==
  ASSUME Typing, NEW r \in Trades, EvaluatePlan(r), ~NextPlan
  PROVE  LET qty == CurrentQty(worker.copy, worker.seen)
         IN  /\ qty \in Nat /\ Decision(worker.copy, qty) # <<>> /\ plan' = plan
             /\ worker' \in Work /\ worker'.at = "submit" /\ worker'.todo = worker.todo
             /\ worker'.trade = worker.trade /\ worker'.copy = worker.copy
             /\ worker'.left = qty /\ worker'.actions = Decision(worker.copy, qty)
  <1> DEFINE qty == CurrentQty(worker.copy, worker.seen)
             actions == Decision(worker.copy, qty)
  <1>1. worker \in Work /\ worker.copy \in Plan /\ worker.seen \in Nat /\ price \in 0 .. Stop
    BY DEF Typing, Work
  <1>2. qty \in Nat
    BY <1>1 DEF CurrentQty, Least, Plan
  <1>3. /\ plan' = plan /\ actions # <<>>
        /\ worker' = [worker EXCEPT !.at = "submit", !.left = qty, !.actions = actions]
    BY DEF EvaluatePlan
  <1> HIDE DEF qty
  <1>4. actions \in Seq(Action)
    BY <1>1, <1>2, DecisionTakes, DecisionCloses
  <1> HIDE DEF actions
  <1>5. /\ worker' \in Work /\ worker'.at = "submit" /\ worker'.todo = worker.todo
        /\ worker'.trade = worker.trade /\ worker'.copy = worker.copy
        /\ worker'.left = qty /\ worker'.actions = actions
    BY <1>1, <1>2, <1>3, <1>4 DEF Work, Busy
  <1> QED  BY <1>2, <1>3, <1>5 DEF qty, actions

LEMMA TailIsLeft ==
  ASSUME NEW S, NEW q \in Seq(S), Len(q) \in Nat \ {0}, Len(q) # 1
  PROVE  /\ Tail(q) # <<>> /\ Tail(q) \in Seq(S) /\ Len(Tail(q)) = Len(q) - 1
         /\ \A n \in 1 .. Len(Tail(q)) : Tail(q)[n] = q[n + 1]
  <1>1. q # <<>>
    OBVIOUS
  <1>2. Tail(q) \in Seq(S) /\ Len(Tail(q)) = Len(q) - 1
    BY <1>1
  <1>3. Tail(q) # <<>>
    <2>1. Len(Tail(q)) # 0
      BY <1>2
    <2>2. Len(<< >>) = 0
      OBVIOUS
    <2> QED  BY <2>1, <2>2, Zenon
  <1>4. \A n \in 1 .. Len(Tail(q)) : Tail(q)[n] = q[n + 1]
    BY <1>1, <1>2
  <1> QED  BY <1>2, <1>3, <1>4

(* One exit is submitted, and its target marked in the copy in hand.       *)
LEMMA SubmitMarks ==
  ASSUME Typing, InHand, NEW r \in Trades, SubmitExit(r)
  PROVE  LET action == Head(worker.actions)
         IN  /\ worker.at = "submit" /\ worker.trade = {r} /\ action \in Action
             /\ action = worker.actions[1] /\ Len(worker.actions) \in Nat \ {0}
             /\ plan' = plan /\ worker' \in Work
             /\ worker'.at = IF Len(worker.actions) = 1 THEN "store" ELSE "submit"
             /\ worker'.todo = worker.todo /\ worker'.trade = worker.trade
             /\ worker'.seen = worker.seen
             /\ worker'.actions = Tail(worker.actions)
             /\ worker'.left = IF action.qty > worker.left THEN 0 ELSE worker.left - action.qty
             /\ worker'.copy.build = worker.copy.build /\ worker'.copy.left = worker.copy.left
             /\ worker'.copy.state = IF action.target = 0 \/ worker'.left = 0 THEN "closing"
                                     ELSE worker.copy.state
             /\ worker'.copy.hit = Marked(worker.copy, action)
             /\ worker'.copy.size = worker.copy.size
             /\ exits' = [exits EXCEPT ![r] = @ + action.qty]
             /\ taken' = IF action.target = 0 THEN taken
                         ELSE taken \cup {<<r, worker.copy.build, action.target>>}
  <1> DEFINE action == Head(worker.actions)
             left   == IF action.qty > worker.left THEN 0 ELSE worker.left - action.qty
             ends   == action.target = 0 \/ left = 0
             state  == IF ends THEN "closing" ELSE worker.copy.state
             at     == IF Len(worker.actions) = 1 THEN "store" ELSE "submit"
             copy   == [worker.copy EXCEPT !.state = state, !.hit = Marked(worker.copy, action)]
  <1>1. worker \in Work /\ worker.at = "submit" /\ worker.trade = {r} /\ worker.actions # <<>>
    BY DEF Typing, InHand, SubmitExit, Writes
  <1>2. worker.copy \in Plan /\ worker.left \in Nat /\ worker.actions \in Seq(Action)
    BY <1>1 DEF Work
  <1>3. /\ action \in Action /\ action = worker.actions[1] /\ Len(worker.actions) \in Nat \ {0}
        /\ Tail(worker.actions) \in Seq(Action)
    BY <1>1, <1>2
  <1>4. action.qty \in Nat /\ action.target \in 0 .. Size
    BY <1>3 DEF Action
  <1>5. left \in Nat
    BY <1>2, <1>4
  <1>6. Marked(worker.copy, action) \in SUBSET Targets /\ state \in {"none"} \cup Alive \cup Ended
    BY <1>2, <1>4, SizeAssumption DEF Plan, Marked, Targets, Alive
  <1>7. worker' = [worker EXCEPT !.at = at, !.actions = Tail(worker.actions), !.left = left,
                                 !.copy = copy]
    BY <1>1, <1>2 DEF SubmitExit, Work, Plan
  <1>8. copy \in Plan
    BY <1>2, <1>6 DEF Plan
  <1>9. /\ copy.build = worker.copy.build /\ copy.state = state /\ copy.left = worker.copy.left
        /\ copy.hit = Marked(worker.copy, action) /\ copy.size = worker.copy.size
    BY <1>2 DEF Plan
  <1>10. /\ plan' = plan /\ exits' = [exits EXCEPT ![r] = @ + action.qty]
         /\ taken' = IF action.target = 0 THEN taken
                     ELSE taken \cup {<<r, worker.copy.build, action.target>>}
    BY DEF SubmitExit, tables
  <1> HIDE DEF copy, state, left, ends, action
  <1>11. at \in {"submit", "store"}
    OBVIOUS
  <1> HIDE DEF at
  <1>12. /\ worker' \in Work /\ worker'.at = at /\ worker'.todo = worker.todo
         /\ worker'.trade = worker.trade /\ worker'.copy = copy /\ worker'.left = left
         /\ worker'.actions = Tail(worker.actions) /\ worker'.seen = worker.seen
    BY <1>1, <1>3, <1>5, <1>7, <1>8, <1>11 DEF Work, Busy
  <1> QED  BY <1>1, <1>3, <1>9, <1>10, <1>12 DEF at, left, state, ends, action
-----------------------------------------------------------------------------
(* Types *)

LEMMA RequestTyped ==
  ASSUME TInv, NEW r \in Trades, RequestStep(r)
  PROVE  TInv'
  <1> USE DEF TInv, Typing
  <1>0. Size \in Nat /\ MaxReplaces \in Nat /\ MaxFailures \in Nat /\ Size \in 0 .. Size
    BY SizeAssumption
  <1>1. request[r] \in Asked /\ entry[r] \in Order /\ plan[r] \in Plan /\ builds[r] \in Nat
    OBVIOUS
  <1>2. CASE CreateAccepted(r)
    <2>1. request' \in [Trades -> Asked] /\ entry' \in [Trades -> Order]
      BY <1>0, <1>1, <1>2 DEF CreateAccepted, Request, Asked, Order
    <2>2. Typing' /\ InHand'
      BY <1>2, <2>1 DEF CreateAccepted, tables, InHand
    <2>3. BuildsBounded'
      BY <1>1, <1>2 DEF CreateAccepted, Request, BuildsBounded, Asked, Order
    <2> QED  BY <2>2, <2>3
  <1>3. CASE PersistPlan(r)
    <2>1. request' \in [Trades -> Asked] /\ plan' \in [Trades -> Plan] /\ builds' \in [Trades -> Nat]
      <3>1. request' \in [Trades -> Asked] /\ builds' \in [Trades -> Nat]
        <4>1. request' \in [Trades -> Asked]
          BY <1>1, <1>3 DEF PersistPlan, Request, Asked
        <4>2. builds' \in [Trades -> Nat]
          BY <1>3 DEF PersistPlan
        <4> QED  BY <4>1, <4>2
      <3>2. Built(r) \in Plan
        BY BuiltTyped
      <3> QED  BY <1>3, <3>1, <3>2 DEF PersistPlan
    <2>2. Typing' /\ InHand'
      BY <1>3, <2>1 DEF PersistPlan, bitget, InHand
    <2>3. BuildsBounded'
      BY <1>0, <1>1, <1>3 DEF PersistPlan, bitget, Request, BuildsBounded, Asked
    <2> QED  BY <2>2, <2>3
  <1>4. CASE ReplaceAccepted(r)
    <2>1. request' \in [Trades -> Asked] /\ entry' \in [Trades -> Order]
      BY <1>0, <1>1, <1>4 DEF ReplaceAccepted, Request, Asked, Order
    <2>2. Typing' /\ InHand'
      BY <1>4, <2>1 DEF ReplaceAccepted, tables, InHand
    <2>3. BuildsBounded'
      BY <1>0, <1>1, <1>4 DEF ReplaceAccepted, Request, BuildsBounded, Asked, Order
    <2> QED  BY <2>2, <2>3
  <1>5. CASE OnOrderReplaced(r)
    <2>1. request' \in [Trades -> Asked] /\ plan' \in [Trades -> Plan] /\ builds' \in [Trades -> Nat]
      <3>1. request' \in [Trades -> Asked] /\ builds' \in [Trades -> Nat]
        BY <1>1, <1>5 DEF OnOrderReplaced, Request, Asked
      <3>2. Built(r) \in Plan
        BY BuiltTyped
      <3> QED  BY <1>5, <3>1, <3>2 DEF OnOrderReplaced
    <2>2. Typing' /\ InHand'
      BY <1>5, <2>1 DEF OnOrderReplaced, bitget, InHand
    <2>3. BuildsBounded'
      BY <1>0, <1>1, <1>5 DEF OnOrderReplaced, bitget, Request, BuildsBounded, Asked
    <2> QED  BY <2>2, <2>3
  <1>6. CASE CancelAccepted(r)
    <2>1. request' \in [Trades -> Asked] /\ entry' \in [Trades -> Order]
      <3>1. [state |-> "done", open |-> 0] \in Order
        BY <1>0 DEF Order
      <3>2. request' \in [Trades -> Asked]
        BY <1>1, <1>6 DEF CancelAccepted, Request, Asked
      <3> QED  BY <1>6, <3>1, <3>2 DEF CancelAccepted
    <2>2. Typing' /\ InHand'
      BY <1>6, <2>1 DEF CancelAccepted, tables, InHand
    <2>3. BuildsBounded'
      BY <1>0, <1>1, <1>6 DEF CancelAccepted, Request, BuildsBounded, Asked, Order
    <2> QED  BY <2>2, <2>3
  <1>7. CASE OnOrderCanceled(r)
    <2>1. request' \in [Trades -> Asked]
      BY <1>1, <1>7, NoPlanTyped DEF OnOrderCanceled, Asked
    <2>2. Typing' /\ InHand'
      BY <1>7, <2>1 DEF OnOrderCanceled, tables, bitget, InHand
    <2>3. BuildsBounded'
      BY <1>1, <1>7 DEF OnOrderCanceled, bitget, BuildsBounded
    <2> QED  BY <2>2, <2>3
  <1>8. CASE DiscardPlan(r)
    <2>1. [request[r].copy EXCEPT !.state = "cancelled"] \in Plan
      BY <1>1 DEF Asked, Plan, Ended
    <2>2. request' \in [Trades -> Asked] /\ plan' \in [Trades -> Plan]
      BY <1>1, <1>8, <2>1, NoPlanTyped DEF DiscardPlan, Asked
    <2>3. Typing' /\ InHand'
      BY <1>8, <2>2 DEF DiscardPlan, bitget, InHand
    <2>4. BuildsBounded'
      BY <1>1, <1>8 DEF DiscardPlan, bitget, BuildsBounded
    <2> QED  BY <2>3, <2>4
  <1>9. CASE HookFails(r)
    <2>1. request' \in [Trades -> Asked] /\ failures' \in 0 .. MaxFailures
      BY <1>0, <1>1, <1>9, NoPlanTyped DEF HookFails, Fails, Asked
    <2>2. Typing' /\ InHand'
      BY <1>9, <2>1 DEF HookFails, tables, bitget, InHand
    <2>3. BuildsBounded'
      BY <1>1, <1>9 DEF HookFails, bitget, BuildsBounded
    <2> QED  BY <2>2, <2>3
  <1> QED  BY <1>2, <1>3, <1>4, <1>5, <1>6, <1>7, <1>8, <1>9 DEF RequestStep

(* What the worker leaves alone.                                           *)
LEMMA WorkerLeaves ==
  ASSUME WorkerStep
  PROVE  /\ request' = request /\ entry' = entry /\ position' = position /\ feed' = feed
         /\ snapshot' = snapshot /\ price' = price /\ builds' = builds
         /\ failures' \in {failures, failures + 1} /\ (failures' # failures => failures < MaxFailures)
  BY DEF WorkerStep, ListPlans, TickEnds, LookAt, ClosePlan, FinalizePlan, FinalizeFails, EvaluatePlan,
         MarketFails, SubmitExit, SubmitFails, StorePlan, Fails, tables, bitget

LEMMA WorkerTyped ==
  ASSUME TInv, WorkerStep
  PROVE  TInv'
  <1> USE DEF TInv
  <1>1. MaxFailures \in Nat
    BY SizeAssumption
  <1>2. BuildsBounded'
    BY WorkerLeaves DEF BuildsBounded
  <1>3. failures' \in 0 .. MaxFailures
    BY <1>1, WorkerLeaves DEF Typing
  <1> DEFINE Typed == /\ worker' \in Work /\ InHand' /\ plan' \in [Trades -> Plan]
                      /\ exits' \in [Trades -> Nat] /\ taken' \subseteq Trades \X Nat \X Targets
  <1>4. SUFFICES Typed
    BY <1>2, <1>3, WorkerLeaves DEF Typing
  <1>5. worker \in Work /\ plan \in [Trades -> Plan] /\ exits \in [Trades -> Nat]
        /\ taken \subseteq Trades \X Nat \X Targets
    BY DEF Typing
  <1>6. CASE ListPlans
    <2> DEFINE todo == {<<r, plan[r]>> : r \in Listed}
    <2>1. todo \in SUBSET (Trades \X Plan)
      BY <1>5 DEF Listed
    <2>2. worker' = [NoWork EXCEPT !.at = "next", !.todo = todo]
      BY <1>6 DEF ListPlans
    <2> HIDE DEF todo
    <2>3. worker' \in Work /\ worker'.at = "next" /\ worker'.trade = {}
      BY <2>1, <2>2, NoWorkTyped DEF Work
    <2> QED  BY <1>5, <1>6, <2>3 DEF ListPlans, tables, bitget, InHand, Busy
  <1>7. CASE TickEnds
    BY <1>5, <1>7, NoWorkTyped DEF TickEnds, tables, bitget, InHand, Busy
  <1>8. ASSUME NEW r \in Trades, NEW c \in {w[2] : w \in worker.todo}, LookAt(r, c)
        PROVE  Typed
    BY <1>5, <1>8, LookAtTakes DEF LookAt, tables, bitget, InHand, Busy
  <1>9. ASSUME NEW r \in Trades, Written(r), exits' = exits, taken' = taken
        PROVE  Typed
    <2>1. plan' \in [Trades -> Plan]
      BY <1>5, <1>9 DEF Written
    <2> QED  BY <1>5, <1>9, <2>1, PutAway DEF Written, InHand, Busy
  <1>10. ASSUME NEW r \in Trades, MarketFails(r) \/ SubmitFails(r)
         PROVE  Typed
    BY <1>5, <1>10, PutAway DEF MarketFails, SubmitFails, tables, bitget, InHand, Busy
  <1>11. ASSUME NEW r \in Trades, EvaluatePlan(r), ~NextPlan
         PROVE  Typed
    <2>1. worker.trade = {r} /\ exits' = exits /\ taken' = taken
      BY <1>11 DEF EvaluatePlan, Writes, bitget
    <2> QED  BY <1>5, <1>11, <2>1, EvaluateDecides DEF InHand, Busy
  <1>12. ASSUME NEW r \in Trades, SubmitExit(r)
         PROVE  Typed
    <2> DEFINE action == Head(worker.actions)
    <2>1. action \in Action
      BY <1>12, SubmitMarks
    <2>2. exits' \in [Trades -> Nat]
      BY <1>5, <1>12, <2>1, SubmitMarks DEF Action
    <2>3. taken' \subseteq Trades \X Nat \X Targets
      <3>1. action.target # 0 => action.target \in Targets
        BY <2>1, SizeAssumption DEF Action, Targets
      <3>2. worker.copy.build \in Nat
        BY <1>5 DEF Work, Plan
      <3> QED  BY <1>5, <1>12, <3>1, <3>2, SubmitMarks
    <2>4. worker'.at = "submit" => worker'.actions # <<>>
      <3>1. worker.actions \in Seq(Action)
        BY <1>5 DEF Work
      <3>2. Len(worker.actions) \in Nat \ {0}
        BY <1>12, SubmitMarks
      <3>3. Len(worker.actions) # 1 => Tail(worker.actions) # <<>>
        BY <3>1, <3>2, TailIsLeft
      <3>4. worker'.at = "submit" => Len(worker.actions) # 1
        BY <1>12, SubmitMarks
      <3>5. worker'.actions = Tail(worker.actions)
        BY <1>12, SubmitMarks
      <3> QED  BY <3>3, <3>4, <3>5
    <2> QED  BY <1>5, <1>12, <2>2, <2>3, <2>4, SubmitMarks DEF InHand, Busy
  <1>13. ASSUME NEW r \in Trades,
                \/ ClosePlan(r) \/ FinalizePlan(r) \/ FinalizeFails(r) \/ StorePlan(r)
                \/ EvaluatePlan(r) /\ NextPlan
         PROVE  Typed
    <2>1. exits' = exits /\ taken' = taken
      BY <1>13 DEF ClosePlan, FinalizePlan, FinalizeFails, StorePlan, EvaluatePlan, bitget
    <2> QED  BY <1>9, <1>13, <2>1, WritesBack
  <1> QED
    BY <1>6, <1>7, <1>8, <1>10, <1>11, <1>12, <1>13 DEF WorkerStep
(* Bitget, the price, the queue of pushed positions, and a crash.          *)
OtherStep ==
  \/ \E r \in Trades : ExitExecutes(r)
  \/ \E r \in Trades, q \in 1 .. Size : EntryFills(r, q)
  \/ HandlePosition \/ RestCatchup \/ PriceMoves \/ Crash

LEMMA OtherTyped ==
  ASSUME TInv, OtherStep
  PROVE  TInv'
  <1> USE DEF TInv, Typing
  <1>0. Size \in Nat /\ MaxReplaces \in Nat /\ MaxFailures \in Nat
    BY SizeAssumption
  <1>1. ASSUME NEW r \in Trades, ExitExecutes(r)
        PROVE  TInv'
    <2>1. exits[r] \in Nat /\ exits' \in [Trades -> Nat]
      BY <1>1 DEF ExitExecutes
    <2>2. position' \in Nat
      BY <1>1, <2>1 DEF ExitExecutes
    <2>3. feed' \in Seq(Nat)
      BY <1>1, <2>2 DEF ExitExecutes
    <2> QED  BY <1>1, <2>1, <2>2, <2>3 DEF ExitExecutes, tables, InHand, BuildsBounded
  <1>2. ASSUME NEW r \in Trades, NEW q \in 1 .. Size, EntryFills(r, q)
        PROVE  TInv'
    <2>1. entry[r] \in Order /\ entry[r].state = "working" /\ q \in Nat
      BY <1>0, <1>2 DEF EntryFills
    <2>2. PICK e \in Order : entry' = [entry EXCEPT ![r] = e] /\ e.state # "none"
      <3>1. CASE q = entry[r].open
        <4>1. [state |-> "done", open |-> 0] \in Order
          BY <1>0 DEF Order
        <4> QED  BY <1>2, <3>1, <4>1 DEF EntryFills
      <3>2. CASE q # entry[r].open
        <4>1. q \in 1 .. entry[r].open /\ entry[r].open \in 0 .. Size
          BY <1>2, <2>1 DEF EntryFills, Order
        <4>2. entry[r].open - q \in 0 .. Size
          BY <1>0, <3>2, <4>1
        <4>3. [state |-> "working", open |-> entry[r].open - q] \in Order
          BY <4>2 DEF Order
        <4> QED  BY <1>2, <3>2, <4>3 DEF EntryFills
      <3> QED  BY <3>1, <3>2
    <2>3. position' \in Nat /\ feed' \in Seq(Nat)
      BY <1>2, <2>1 DEF EntryFills
    <2>4. entry' \in [Trades -> Order]
      BY <2>2
    <2>5. Typing' /\ InHand'
      BY <1>2, <2>3, <2>4 DEF EntryFills, tables, InHand
    <2>6. BuildsBounded'
      BY <1>2, <2>1, <2>2 DEF EntryFills, tables, BuildsBounded
    <2> QED  BY <2>5, <2>6
  <1>3. CASE HandlePosition
    <2>1. Head(feed) \in Nat /\ Tail(feed) \in Seq(Nat)
      BY <1>3 DEF HandlePosition
    <2> QED  BY <1>3, <2>1 DEF HandlePosition, InHand, BuildsBounded
  <1>4. CASE RestCatchup
    BY <1>4 DEF RestCatchup, bitget, InHand, BuildsBounded
  <1>5. CASE PriceMoves
    BY <1>5 DEF PriceMoves, tables, InHand, BuildsBounded
  <1>6. CASE Crash
    <2>1. failures' \in 0 .. MaxFailures
      BY <1>0, <1>6 DEF Crash, Fails
    <2>2. [at |-> "idle", copy |-> NoPlan] \in Asked
      BY NoPlanTyped DEF Asked
    <2>3. request' \in [Trades -> Asked] /\ \A q \in Trades : request'[q].at = "idle"
      BY <1>6, <2>2 DEF Crash
    <2>4. worker' \in Work /\ worker'.at = "idle" /\ worker'.trade = {} /\ worker'.todo = {}
      BY <1>6, NoWorkTyped DEF Crash
    <2>5. feed' \in Seq(Nat)
      BY <1>6 DEF Crash
    <2>6. Typing'
      BY <1>6, <2>1, <2>3, <2>4, <2>5 DEF Crash, tables
    <2>7. InHand' /\ BuildsBounded'
      BY <1>6, <2>3, <2>4 DEF Crash, InHand, Busy, BuildsBounded
    <2> QED  BY <2>6, <2>7
  <1> QED  BY <1>1, <1>2, <1>3, <1>4, <1>5, <1>6 DEF OtherStep

LEMMA NextSteps ==
  Next <=> (\E r \in Trades : RequestStep(r)) \/ WorkerStep \/ OtherStep
  BY DEF Next, OtherStep

LEMMA InitTyped ==
  ASSUME Init
  PROVE  TInv
  <1>0. Size \in Nat /\ MaxReplaces \in Nat /\ MaxFailures \in Nat
    BY SizeAssumption
  <1>1. [at |-> "idle", copy |-> NoPlan] \in Asked /\ [state |-> "none", open |-> 0] \in Order
    BY <1>0, NoPlanTyped DEF Asked, Order
  <1>2. Typing
    BY <1>0, <1>1, NoPlanTyped, NoWorkTyped DEF Init, Typing, Stop
  <1>3. InHand /\ BuildsBounded
    BY <1>0, NoWorkTyped DEF Init, InHand, Busy, BuildsBounded
  <1> QED  BY <1>2, <1>3 DEF TInv

LEMMA StepTyped ==
  ASSUME TInv, [Next]_vars
  PROVE  TInv'
  <1>1. CASE UNCHANGED vars
    BY <1>1 DEF vars, TInv, Typing, InHand, BuildsBounded
  <1> QED  BY <1>1, NextSteps, RequestTyped, WorkerTyped, OtherTyped

LEMMA TypesHold ==
  Spec => []TInv
  BY InitTyped, StepTyped, PTL DEF Spec

(* Every variable keeps its type; a plan is built at most once for its     *)
(* entry order and once per replacement, and the worker has at most one    *)
(* plan in hand.                                                           *)
THEOREM TypeCorrect ==
  Spec => []TypeOK
  <1>1. TInv => TypeOK
    <2> SUFFICES ASSUME TInv
                 PROVE  TypeOK
      OBVIOUS
    <2> USE DEF TInv, Typing
    <2>1. /\ worker.at \in {"idle", "next"} \cup Busy /\ worker.todo \subseteq Trades \X Plan
          /\ worker.trade \subseteq Trades /\ worker.copy \in Plan
          /\ worker.actions \in Seq(Action) /\ worker.seen \in Nat /\ worker.left \in Nat
      BY DEF Work
    <2>2. Cardinality(worker.trade) <= 1
      <3>1. worker.trade = {} \/ \E r \in Trades : worker.trade = {r}
        BY DEF InHand
      <3>2. ASSUME NEW r \in Trades, worker.trade = {r}
            PROVE  Cardinality(worker.trade) <= 1
        <4>1. Cardinality({r}) = 1
          BY FS_Singleton
        <4> QED  BY <3>2, <4>1
      <3>3. CASE worker.trade = {}
        <4>1. Cardinality({}) = 0
          BY FS_EmptySet
        <4> QED  BY <3>3, <4>1
      <3> QED  BY <3>1, <3>2, <3>3
    <2>3. builds \in [Trades -> 0 .. (MaxReplaces + 1)]
      <3>1. \A r \in Trades : builds[r] \in 0 .. (MaxReplaces + 1)
        BY SizeAssumption DEF BuildsBounded
      <3> QED  BY <3>1
    <2> QED  BY <2>1, <2>2, <2>3 DEF TypeOK, Busy, Asked, Order
  <1> QED  BY <1>1, TypesHold, PTL
-----------------------------------------------------------------------------
(* Copies *)

(* The worker keeps its copies.                                            *)
LEMMA CopiesKept ==
  ASSUME worker' = worker
  PROVE  \A r \in Trades, c \in Plan : CopyOf(r, c)' <=> CopyOf(r, c)
  BY DEF CopyOf

LEMMA RequestWrites ==
  ASSUME TInv, NEW r \in Trades, RequestStep(r)
  PROVE  /\ worker' = worker /\ exits' = exits /\ taken' = taken /\ snapshot' = snapshot
         /\ position' = position /\ feed' = feed /\ price' = price
         /\ \A q \in Trades : builds'[q] \in {builds[q], builds[q] + 1}
         /\ \A q \in Trades : q # r => plan'[q] = plan[q] /\ request'[q] = request[q]
                                         /\ builds'[q] = builds[q] /\ entry'[q] = entry[q]
         /\ request'[r].copy \in {request[r].copy, NoPlan, plan[r]}
         /\ \/ plan'[r] = plan[r]
            \/ plan'[r] = Built(r) /\ builds'[r] = builds[r] + 1
            \/ DiscardPlan(r) /\ plan'[r] = [request[r].copy EXCEPT !.state = "cancelled"]
  <1> USE DEF TInv, Typing
  <1>1. request[r] \in Asked
    OBVIOUS
  <1>2. CASE CreateAccepted(r) \/ ReplaceAccepted(r) \/ CancelAccepted(r)
    BY <1>1, <1>2 DEF CreateAccepted, ReplaceAccepted, CancelAccepted, Request, tables, Asked
  <1>3. CASE PersistPlan(r) \/ OnOrderReplaced(r)
    <2>1. request' = [request EXCEPT ![r].at = "idle"]
      BY <1>3 DEF PersistPlan, OnOrderReplaced, Request
    <2>2. request'[r].copy = request[r].copy
      BY <1>1, <2>1 DEF Asked
    <2>3. plan' = [plan EXCEPT ![r] = Built(r)] \/ plan' = plan
      BY <1>3 DEF PersistPlan, OnOrderReplaced
    <2>4. builds' = [builds EXCEPT ![r] = @ + 1]
      BY <1>3 DEF PersistPlan, OnOrderReplaced
    <2>5. \A q \in Trades : q # r => plan'[q] = plan[q] /\ request'[q] = request[q]
                                         /\ builds'[q] = builds[q]
      BY <2>1, <2>3, <2>4
    <2>6. builds'[r] = builds[r] + 1 /\ (plan'[r] = plan[r] \/ plan'[r] = Built(r))
      BY <2>3, <2>4
    <2> QED  BY <1>3, <2>2, <2>5, <2>6 DEF PersistPlan, OnOrderReplaced, bitget
  <1>4. CASE OnOrderCanceled(r)
    BY <1>4 DEF OnOrderCanceled, tables, bitget
  <1>5. CASE DiscardPlan(r)
    BY <1>5 DEF DiscardPlan, bitget
  <1>6. CASE HookFails(r)
    BY <1>6 DEF HookFails, tables, bitget
  <1> QED  BY <1>2, <1>3, <1>4, <1>5, <1>6 DEF RequestStep

(* The steps that leave plans and requests alone.                          *)
LEMMA OtherWrites ==
  ASSUME OtherStep
  PROVE  /\ plan' = plan /\ builds' = builds /\ taken' = taken
         /\ \/ Crash
            \/ request' = request /\ worker' = worker
  BY DEF OtherStep, ExitExecutes, EntryFills, HandlePosition, RestCatchup, PriceMoves, Crash,
         tables, bitget

LEMMA RequestCopies ==
  ASSUME TInv, CInv, NEW r \in Trades, RequestStep(r)
  PROVE  CInv'
  <1> USE DEF CInv
  <1>1. \A q \in Trades, c \in Plan : CopyOf(q, c)' <=> CopyOf(q, c)
    BY RequestWrites, CopiesKept
  <1>2. OneCopy' /\ TodoNotInHand'
    BY <1>1, RequestWrites DEF OneCopy, TodoNotInHand
  <1>7. CopiedIsAlive'
    BY <1>1 DEF CopiedIsAlive
  <1>3. /\ \A q \in Trades : builds[q] \in Nat /\ plan[q] \in Plan /\ request[q].copy \in Plan
        /\ Built(r).build = builds[r] + 1 /\ Built(r).state \in {"active", "pending"}
        /\ NoPlan.build = 0
    BY BuiltTyped, NoPlanTyped DEF TInv, Typing, Asked
  <1>4. /\ [request[r].copy EXCEPT !.state = "cancelled"].build = request[r].copy.build
        /\ [request[r].copy EXCEPT !.state = "cancelled"].state = "cancelled"
    BY <1>3 DEF Plan
  <1>5. BuildsKnown'
    <2> SUFFICES ASSUME NEW q \in Trades
                 PROVE  /\ plan'[q].build <= builds'[q] /\ request'[q].copy.build <= builds'[q]
                        /\ \A c \in Plan : CopyOf(q, c)' => c.build <= builds'[q]
      BY DEF BuildsKnown
    <2>1. /\ plan[q].build <= builds[q] /\ request[q].copy.build <= builds[q]
          /\ \A c \in Plan : CopyOf(q, c) => c.build <= builds[q]
      BY DEF BuildsKnown
    <2>2. /\ plan[q].build \in Nat /\ request[q].copy.build \in Nat /\ builds[q] \in Nat
          /\ \A c \in Plan : c.build \in Nat
      BY <1>3 DEF Plan
    <2>3. builds'[q] \in {builds[q], builds[q] + 1}
      BY RequestWrites
    <2>4. builds[q] <= builds'[q] /\ builds'[q] \in Nat
      BY <2>2, <2>3
    <2>5. plan'[q].build <= builds'[q]
      <3>1. CASE plan'[q] = plan[q]
        BY <2>1, <2>2, <2>4, <3>1
      <3>2. CASE q = r /\ plan'[r] = Built(r) /\ builds'[r] = builds[r] + 1
        BY <1>3, <2>4, <3>2
      <3>3. CASE q = r /\ plan'[r] = [request[r].copy EXCEPT !.state = "cancelled"]
        BY <1>4, <2>1, <2>2, <2>4, <3>3
      <3> QED  BY <3>1, <3>2, <3>3, RequestWrites
    <2>6. request'[q].copy.build <= builds'[q]
      <3>1. request'[q].copy \in {request[q].copy, NoPlan, plan[q]}
        BY RequestWrites
      <3> QED  BY <1>3, <2>1, <2>2, <2>4, <3>1
    <2>7. \A c \in Plan : CopyOf(q, c)' => c.build <= builds'[q]
      BY <1>1, <2>1, <2>2, <2>4
    <2> QED  BY <2>5, <2>6, <2>7
  <1>6. CopiedHasNotEnded'
    <2> SUFFICES ASSUME NEW q \in Trades, NEW c \in Plan, CopyOf(q, c)
                 PROVE  plan'[q].state \notin {"closed", "invalid"}
      BY <1>1 DEF CopiedHasNotEnded
    <2>1. plan[q].state \notin {"closed", "invalid"}
      BY DEF CopiedHasNotEnded
    <2> QED  BY <1>3, <1>4, <2>1, RequestWrites
  <1> QED  BY <1>2, <1>5, <1>6, <1>7

(* The worker writes its copy of r back, or forgets it.                    *)
LEMMA PutAwayCopies ==
  ASSUME TInv, CInv, NEW r \in Trades, worker.trade = {r},
         Written(r) \/ (NextPlan /\ plan' = plan), builds' = builds, request' = request
  PROVE  CInv'
  <1> USE DEF CInv
  <1>1. worker \in Work /\ worker.copy \in Plan /\ plan \in [Trades -> Plan]
    BY DEF TInv, Typing, Work
  <1>2. NextPlan
    BY DEF Written
  <1>3. worker'.trade = {} /\ worker'.todo = worker.todo
    BY <1>1, <1>2, PutAway
  <1>4. \A q \in Trades, c \in Plan : CopyOf(q, c)' => CopyOf(q, c) /\ q # r
    BY <1>3 DEF CopyOf, TodoNotInHand
  <1>5. OneCopy' /\ TodoNotInHand' /\ CopiedIsAlive'
    BY <1>3, <1>4 DEF OneCopy, TodoNotInHand, CopiedIsAlive
  <1>6. CopyOf(r, worker.copy)
    BY DEF CopyOf
  <1>7. /\ \A q \in Trades : q # r => plan'[q] = plan[q]
        /\ plan'[r].build \in {plan[r].build, worker.copy.build}
    BY <1>1 DEF Written
  <1>8. BuildsKnown'
    BY <1>1, <1>4, <1>6, <1>7 DEF BuildsKnown
  <1>9. CopiedHasNotEnded'
    BY <1>4, <1>7 DEF CopiedHasNotEnded
  <1> QED  BY <1>5, <1>8, <1>9

LEMMA WorkerCopies ==
  ASSUME TInv, CInv, WorkerStep
  PROVE  CInv'
  <1> USE DEF CInv
  <1>1. worker \in Work /\ worker.copy \in Plan /\ plan \in [Trades -> Plan]
    BY DEF TInv, Typing, Work
  <1>2. builds' = builds /\ request' = request
    BY WorkerLeaves
  <1>3. CASE ListPlans
    <2>1. /\ worker'.todo = {<<r, plan[r]>> : r \in Listed} /\ worker'.trade = {} /\ plan' = plan
      BY <1>3 DEF ListPlans, NoWork, tables
    <2>2. \A r \in Trades, c \in Plan : CopyOf(r, c)' => c = plan[r] /\ plan[r].state \in Alive
      BY <2>1 DEF CopyOf, Listed
    <2>3. OneCopy' /\ TodoNotInHand'
      BY <2>1, <2>2 DEF OneCopy, TodoNotInHand
    <2>4. BuildsKnown' /\ CopiedHasNotEnded' /\ CopiedIsAlive'
      BY <1>2, <2>1, <2>2 DEF BuildsKnown, CopiedHasNotEnded, CopiedIsAlive, Alive
    <2> QED  BY <2>3, <2>4
  <1>4. CASE TickEnds
    <2>1. worker'.todo = {} /\ worker'.trade = {} /\ plan' = plan
      BY <1>4 DEF TickEnds, NoWork, tables
    <2>2. \A r \in Trades, c \in Plan : ~CopyOf(r, c)'
      BY <2>1 DEF CopyOf
    <2> QED  BY <1>2, <2>1, <2>2
         DEF OneCopy, TodoNotInHand, BuildsKnown, CopiedHasNotEnded, CopiedIsAlive
  <1>5. ASSUME NEW r \in Trades, NEW c \in {w[2] : w \in worker.todo}, LookAt(r, c)
        PROVE  CInv'
    <2>1. /\ worker.at = "next" /\ <<r, c>> \in worker.todo /\ c \in Plan
          /\ worker'.todo = worker.todo \ {<<r, c>>}
          /\ worker'.trade = {} \/ (worker'.trade = {r} /\ worker'.copy = c)
      BY <1>5, LookAtTakes DEF TInv
    <2>2. plan' = plan
      BY <1>5 DEF LookAt, tables
    <2>3. \A q \in Trades, d \in Plan : CopyOf(q, d)' => CopyOf(q, d)
      BY <2>1 DEF CopyOf
    <2>4. \A d \in Plan : <<r, d>> \in worker.todo => d = c
      BY <2>1 DEF CopyOf, OneCopy
    <2>5. TodoNotInHand'
      BY <2>1, <2>4 DEF TodoNotInHand
    <2>6. OneCopy' /\ CopiedIsAlive'
      BY <2>3 DEF OneCopy, CopiedIsAlive
    <2>7. BuildsKnown' /\ CopiedHasNotEnded'
      BY <1>2, <2>2, <2>3 DEF BuildsKnown, CopiedHasNotEnded
    <2> QED  BY <2>5, <2>6, <2>7
  <1>6. ASSUME NEW r \in Trades, EvaluatePlan(r), ~NextPlan
        PROVE  CInv'
    <2>1. /\ worker'.todo = worker.todo /\ worker'.trade = worker.trade
          /\ worker'.copy = worker.copy /\ plan' = plan
      BY <1>6, EvaluateDecides DEF TInv
    <2>2. \A q \in Trades, d \in Plan : CopyOf(q, d)' <=> CopyOf(q, d)
      BY <2>1 DEF CopyOf
    <2> QED  BY <1>2, <2>1, <2>2
         DEF OneCopy, TodoNotInHand, BuildsKnown, CopiedHasNotEnded, CopiedIsAlive
  <1>7. ASSUME NEW r \in Trades, SubmitExit(r)
        PROVE  CInv'
    <2>1. /\ worker'.todo = worker.todo /\ worker.trade = {r} /\ worker'.trade = {r}
          /\ worker'.copy.build = worker.copy.build /\ plan' = plan
      BY <1>7, SubmitMarks DEF TInv
    <2>2. CopyOf(r, worker.copy)
      BY <2>1 DEF CopyOf
    <2>3. \A q \in Trades, d \in Plan : CopyOf(q, d)' =>
            \/ q = r /\ d = worker'.copy
            \/ q # r /\ CopyOf(q, d)
      BY <2>1 DEF CopyOf, TodoNotInHand
    <2>4. OneCopy'
      BY <2>3 DEF OneCopy
    <2>5. TodoNotInHand'
      BY <2>1 DEF TodoNotInHand
    <2>6. BuildsKnown'
      BY <1>1, <1>2, <2>1, <2>2, <2>3 DEF BuildsKnown
    <2>7. CopiedHasNotEnded'
      BY <1>1, <2>1, <2>2, <2>3 DEF CopiedHasNotEnded
    <2>8. CopiedIsAlive'
      <3>1. worker.copy.state \in Alive
        BY <1>1, <2>2 DEF CopiedIsAlive
      <3>2. worker'.copy.state \in {worker.copy.state, "closing"}
        BY <1>7, SubmitMarks DEF TInv
      <3> QED  BY <2>3, <3>1, <3>2 DEF CopiedIsAlive, Alive
    <2> QED  BY <2>4, <2>5, <2>6, <2>7, <2>8
  <1>8. ASSUME NEW r \in Trades, MarketFails(r) \/ SubmitFails(r)
        PROVE  CInv'
    BY <1>2, <1>8, PutAwayCopies DEF MarketFails, SubmitFails, Writes, tables
  <1>9. ASSUME NEW r \in Trades,
               \/ ClosePlan(r) \/ FinalizePlan(r) \/ FinalizeFails(r) \/ StorePlan(r)
               \/ EvaluatePlan(r) /\ NextPlan
        PROVE  CInv'
    <2>1. Written(r)
      BY <1>9, WritesBack DEF TInv
    <2>2. worker.trade = {r}
      BY <1>9 DEF ClosePlan, FinalizePlan, FinalizeFails, StorePlan, EvaluatePlan, Writes
    <2> QED  BY <1>2, <2>1, <2>2, PutAwayCopies
  <1> QED
    BY <1>3, <1>4, <1>5, <1>6, <1>7, <1>8, <1>9 DEF WorkerStep

LEMMA OtherCopies ==
  ASSUME TInv, CInv, OtherStep
  PROVE  CInv'
  <1> USE DEF CInv
  <1>1. CASE Crash
    <2>1. worker'.todo = {} /\ worker'.trade = {}
      BY <1>1, NoWorkTyped DEF Crash
    <2>2. \A r \in Trades, c \in Plan : ~CopyOf(r, c)'
      BY <2>1 DEF CopyOf
    <2>3. \A r \in Trades : request'[r].copy.build = 0 /\ builds[r] \in Nat
      BY <1>1, NoPlanTyped DEF Crash, TInv, Typing
    <2>4. BuildsKnown'
      BY <2>2, <2>3, OtherWrites DEF BuildsKnown
    <2> QED  BY <2>1, <2>2, <2>4, OtherWrites DEF OneCopy, TodoNotInHand, CopiedHasNotEnded, CopiedIsAlive
  <1>2. CASE request' = request /\ worker' = worker
    <2>1. \A q \in Trades, c \in Plan : CopyOf(q, c)' <=> CopyOf(q, c)
      BY <1>2, CopiesKept
    <2> QED
      BY <1>2, <2>1, OtherWrites
         DEF OneCopy, TodoNotInHand, BuildsKnown, CopiedHasNotEnded, CopiedIsAlive
  <1> QED  BY <1>1, <1>2, OtherWrites

LEMMA InitCopies ==
  ASSUME Init
  PROVE  CInv
  <1>1. worker.todo = {} /\ worker.trade = {}
    BY NoWorkTyped DEF Init
  <1>2. \A r \in Trades, c \in Plan : ~CopyOf(r, c)
    BY <1>1 DEF CopyOf
  <1>3. BuildsKnown
    BY <1>2, NoPlanTyped DEF Init, BuildsKnown
  <1> QED  BY <1>1, <1>2, <1>3 DEF CInv, OneCopy, TodoNotInHand, CopiedHasNotEnded, CopiedIsAlive

LEMMA StepCopies ==
  ASSUME TInv, CInv, [Next]_vars
  PROVE  CInv'
  <1>1. CASE UNCHANGED vars
    <2>1. \A q \in Trades, c \in Plan : CopyOf(q, c)' <=> CopyOf(q, c)
      BY <1>1, CopiesKept DEF vars
    <2> QED
      BY <1>1, <2>1
         DEF vars, CInv, OneCopy, TodoNotInHand, BuildsKnown, CopiedHasNotEnded, CopiedIsAlive
  <1> QED  BY <1>1, NextSteps, RequestCopies, WorkerCopies, OtherCopies

LEMMA CopiesHold ==
  Spec => [](TInv /\ CInv)
  BY InitTyped, InitCopies, StepTyped, StepCopies, PTL DEF Spec
(* A worker step writes the copy in hand back, or no row at all.           *)
LEMMA WorkerWrites ==
  ASSUME TInv, WorkerStep
  PROVE  plan' = plan \/ \E q \in Trades : worker.trade = {q} /\ Written(q)
  <1>1. ASSUME NEW q \in Trades,
               \/ ClosePlan(q) \/ FinalizePlan(q) \/ FinalizeFails(q) \/ StorePlan(q)
               \/ EvaluatePlan(q) /\ NextPlan
        PROVE  worker.trade = {q} /\ Written(q)
    <2>1. Writes(q, worker.at)
      BY <1>1 DEF ClosePlan, FinalizePlan, FinalizeFails, StorePlan, EvaluatePlan, Writes
    <2> QED  BY <1>1, <2>1, WritesBack DEF TInv, Writes
  <1>2. ASSUME NEW q \in Trades,
               \/ MarketFails(q) \/ SubmitFails(q) \/ SubmitExit(q)
               \/ EvaluatePlan(q) /\ ~NextPlan
        PROVE  plan' = plan
    BY <1>2, EvaluateDecides, SubmitMarks DEF TInv, MarketFails, SubmitFails, tables
  <1>3. (ListPlans \/ TickEnds \/ \E q \in Trades, c \in {w[2] : w \in worker.todo} : LookAt(q, c))
          => plan' = plan
    BY DEF ListPlans, TickEnds, LookAt, tables
  <1> QED  BY <1>1, <1>2, <1>3 DEF WorkerStep

(* A plan that was closed or found invalid is monitored again only after a *)
(* request has built it anew: whatever the worker still holds, it has no   *)
(* copy from before, and no other request writes a plan that is alive.     *)
THEOREM EndedPlansStayEnded ==
  Spec => EndedPlanIsNotRevived
  <1>1. ASSUME TInv, CInv, [Next]_vars, NEW r \in Trades,
               plan[r].state \in {"closed", "invalid"}, plan'[r].state \in Alive
        PROVE  plan'[r].build > plan[r].build
    <2>1. /\ plan[r] \in Plan /\ plan[r].build <= builds[r] /\ builds[r] \in Nat
          /\ plan[r].build \in Nat
      BY <1>1 DEF TInv, Typing, CInv, BuildsKnown, Plan
    <2>2. plan'[r] # plan[r]
      BY <1>1 DEF Alive
    <2>3. CASE RequestStep(r)
      <3>1. ~ DiscardPlan(r)
        <4> SUFFICES ASSUME DiscardPlan(r)
                     PROVE  FALSE
          OBVIOUS
        <4>1. request[r].copy \in Plan /\ plan'[r] = [request[r].copy EXCEPT !.state = "cancelled"]
          BY <1>1 DEF DiscardPlan, TInv, Typing, Asked
        <4>2. plan'[r].state = "cancelled"
          BY <4>1 DEF Plan
        <4> QED  BY <1>1, <4>2 DEF Alive
      <3>2. plan'[r] = Built(r) /\ Built(r).build = builds[r] + 1
        BY <1>1, <2>2, <2>3, <3>1, RequestWrites, BuiltTyped DEF TInv, Typing
      <3> QED  BY <2>1, <3>2
    <2>4. ~ \E q \in Trades : q # r /\ RequestStep(q)
      BY <1>1, <2>2, RequestWrites
    <2>5. ~ WorkerStep
      <3>1. \A c \in Plan : ~CopyOf(r, c)
        BY <1>1 DEF CInv, CopiedHasNotEnded
      <3>2. worker.trade # {r}
        BY <1>1, <3>1 DEF CopyOf, TInv, Typing, Work
      <3>3. ASSUME NEW q \in Trades, worker.trade = {q}, Written(q)
            PROVE  plan'[r] = plan[r]
        BY <1>1, <3>2, <3>3 DEF Written, TInv, Typing
      <3>4. WorkerStep => \/ plan' = plan
                          \/ \E q \in Trades : worker.trade = {q} /\ Written(q)
        BY <1>1, WorkerWrites
      <3> QED  BY <2>2, <3>3, <3>4
    <2>6. ~ OtherStep /\ ~ UNCHANGED vars
      BY <2>2, OtherWrites DEF vars
    <2> QED  BY <1>1, <2>3, <2>4, <2>5, <2>6, NextSteps
  <1> DEFINE Step == \A r \in Trades :
                       plan[r].state \in {"closed", "invalid"} /\ plan'[r].state \in Alive
                       => plan'[r].build > plan[r].build
  <1>2. TInv /\ CInv /\ [Next]_vars => [Step]_vars
    BY <1>1
  <1> HIDE DEF Step
  <1>3. Spec => [][Step]_vars
    BY <1>2, CopiesHold, PTL DEF Spec
  <1> QED  BY <1>3 DEF Step, EndedPlanIsNotRevived
-----------------------------------------------------------------------------
(* Targets *)

(* What is submitted is stored: no later submission of the tick fails, and *)
(* the worker does not crash in between.                                   *)
ExitsAreStored == {"submit", "crash"} \cap Failures = {}

HInv == TakenIsHit /\ ActionsAreNew

LEMMA RequestHits ==
  ASSUME TInv, CInv, HInv, NEW r \in Trades, RequestStep(r)
  PROVE  HInv'
  <1>1. \A q \in Trades, c \in Plan : CopyOf(q, c)' <=> CopyOf(q, c)
    BY RequestWrites, CopiesKept
  <1>2. ActionsAreNew'
    BY RequestWrites DEF HInv, ActionsAreNew
  <1>3. TakenIsHit'
    <2> SUFFICES ASSUME NEW q \in Trades, NEW b \in Nat, NEW i \in Targets, <<q, b, i>> \in taken
                 PROVE  TakenIsHit!(q, b, i)!2'
      BY RequestWrites DEF TakenIsHit
    <2>1. TakenIsHit!(q, b, i)!2
      BY DEF HInv, TakenIsHit
    <2>2. builds[q] \in Nat /\ builds'[q] \in {builds[q], builds[q] + 1}
      BY RequestWrites DEF TInv, Typing
    <2>3. b <= builds'[q]
      BY <2>1, <2>2
    <2>4. \A c \in Plan : CopyOf(q, c)' /\ c.build = b => i \in c.hit
      BY <1>1, <2>1
    <2>5. ASSUME plan'[q].build = b, plan'[q].state \in Alive
          PROVE  plan'[q] = plan[q]
      <3>1. /\ Built(r).build = builds[r] + 1 /\ request[r].copy \in Plan
        BY BuiltTyped DEF TInv, Typing, Asked
      <3>2. [request[r].copy EXCEPT !.state = "cancelled"].state = "cancelled"
        BY <3>1 DEF Plan
      <3>3. q = r => plan'[q] # Built(r)
        BY <2>1, <2>2, <2>5, <3>1
      <3> QED  BY <2>5, <3>2, <3>3, RequestWrites DEF Alive
    <2> QED  BY <2>1, <2>3, <2>4, <2>5, RequestWrites
  <1> QED  BY <1>2, <1>3 DEF HInv

LEMMA OtherHits ==
  ASSUME TInv, CInv, HInv, OtherStep, ExitsAreStored
  PROVE  HInv'
  <1>1. ~ Crash
    BY DEF ExitsAreStored, Crash, Fails
  <1>2. worker' = worker /\ plan' = plan /\ builds' = builds /\ taken' = taken
    BY <1>1, OtherWrites
  <1>3. \A q \in Trades, c \in Plan : CopyOf(q, c)' <=> CopyOf(q, c)
    BY <1>2, CopiesKept
  <1> QED  BY <1>2, <1>3 DEF HInv, TakenIsHit, ActionsAreNew

LEMMA WorkerHits ==
  ASSUME TInv, CInv, HInv, WorkerStep, ExitsAreStored
  PROVE  HInv'
  <1> USE DEF HInv
  <1>1. worker \in Work /\ worker.copy \in Plan /\ plan \in [Trades -> Plan] /\ price \in 0 .. Stop
    BY DEF TInv, Typing, Work
  <1>2. builds' = builds
    BY WorkerLeaves
  (* The row and the copies are as before, and no plan was in hand.        *)
  <1>3. ASSUME plan' = plan, taken' = taken, worker.at \notin {"submit", "store"},
               worker'.at # "submit",
               \A q \in Trades, c \in Plan : CopyOf(q, c)' =>
                 CopyOf(q, c) \/ (c = plan[q] /\ c.state \in Alive)
        PROVE  HInv'
    BY <1>2, <1>3 DEF TakenIsHit, ActionsAreNew
  <1>4. CASE ListPlans
    <2>1. /\ worker'.todo = {<<r, plan[r]>> : r \in Listed} /\ worker'.trade = {} /\ plan' = plan
          /\ worker.at = "idle" /\ worker'.at = "next" /\ taken' = taken
      BY <1>4 DEF ListPlans, NoWork, tables
    <2>2. \A q \in Trades, c \in Plan : CopyOf(q, c)' => c = plan[q] /\ c.state \in Alive
      BY <2>1 DEF CopyOf, Listed
    <2> QED  BY <1>3, <2>1, <2>2
  <1>5. CASE TickEnds
    <2>1. /\ worker'.todo = {} /\ worker'.trade = {} /\ plan' = plan
          /\ worker.at = "next" /\ worker'.at = "idle" /\ taken' = taken
      BY <1>5 DEF TickEnds, NoWork, tables
    <2>2. \A r \in Trades, c \in Plan : ~CopyOf(r, c)'
      BY <2>1 DEF CopyOf
    <2> QED  BY <1>3, <2>1, <2>2
  <1>6. ASSUME NEW r \in Trades, NEW c \in {w[2] : w \in worker.todo}, LookAt(r, c)
        PROVE  HInv'
    <2>1. /\ worker.at = "next" /\ <<r, c>> \in worker.todo /\ c \in Plan
          /\ worker'.todo = worker.todo \ {<<r, c>>} /\ worker'.at # "submit"
          /\ worker'.trade = {} \/ (worker'.trade = {r} /\ worker'.copy = c)
      BY <1>6, LookAtTakes DEF TInv
    <2>2. plan' = plan /\ taken' = taken
      BY <1>6 DEF LookAt, tables
    <2>3. \A q \in Trades, d \in Plan : CopyOf(q, d)' =>
            CopyOf(q, d) \/ (d = plan[q] /\ d.state \in Alive)
      <3>1. \A q \in Trades, d \in Plan : CopyOf(q, d)' => CopyOf(q, d)
        BY <2>1 DEF CopyOf
      <3> QED  BY <3>1
    <2>4. worker.at \notin {"submit", "store"}
      BY <2>1
    <2> HIDE DEF HInv
    <2> QED  BY <1>3, <2>1, <2>2, <2>3, <2>4
  <1>7. ASSUME NEW r \in Trades, MarketFails(r)
        PROVE  HInv'
    <2>1. worker.at = "evaluate" /\ NextPlan /\ plan' = plan /\ taken' = taken
      BY <1>7 DEF MarketFails, Writes, tables
    <2>2. worker'.at = "next" /\ worker'.trade = {} /\ worker'.todo = worker.todo
      BY <1>1, <2>1, PutAway
    <2>3. \A q \in Trades, d \in Plan : CopyOf(q, d)' =>
            CopyOf(q, d) \/ (d = plan[q] /\ d.state \in Alive)
      <3>1. \A q \in Trades, d \in Plan : CopyOf(q, d)' => CopyOf(q, d)
        BY <2>2 DEF CopyOf
      <3> QED  BY <3>1
    <2> HIDE DEF HInv
    <2> QED  BY <1>3, <2>1, <2>2, <2>3
  <1>8. ASSUME NEW r \in Trades, SubmitFails(r)
        PROVE  HInv'
    BY <1>8 DEF SubmitFails, Fails, ExitsAreStored
  <1>9. ASSUME NEW r \in Trades,
               \/ ClosePlan(r) \/ FinalizePlan(r) \/ FinalizeFails(r) \/ StorePlan(r)
               \/ EvaluatePlan(r) /\ NextPlan
        PROVE  HInv'
    <2>1. worker.trade = {r} /\ taken' = taken
      BY <1>9 DEF ClosePlan, FinalizePlan, FinalizeFails, StorePlan, EvaluatePlan, Writes, bitget
    <2>2. PICK d \in Plan : /\ plan' = [plan EXCEPT ![r] = d] /\ NextPlan
                            /\ d.build = worker.copy.build /\ d.hit = worker.copy.hit
      BY <1>9, WritesBack DEF TInv, Written
    <2>3. worker'.at = "next" /\ worker'.trade = {} /\ worker'.todo = worker.todo
      BY <1>1, <2>2, PutAway
    <2>4. CopyOf(r, worker.copy) /\ \A q \in Trades, c \in Plan : CopyOf(q, c)' => CopyOf(q, c)
      BY <2>1, <2>3 DEF CopyOf
    <2>5. plan'[r] = d /\ \A q \in Trades : q # r => plan'[q] = plan[q]
      BY <1>1, <2>2
    <2>6. TakenIsHit'
      <3> SUFFICES ASSUME NEW q \in Trades, NEW b \in Nat, NEW i \in Targets, <<q, b, i>> \in taken
                   PROVE  TakenIsHit!(q, b, i)!2'
        BY <2>1 DEF TakenIsHit
      <3>1. TakenIsHit!(q, b, i)!2
        BY DEF TakenIsHit
      <3>2. CASE q = r
        BY <1>1, <1>2, <2>2, <2>4, <2>5, <3>1, <3>2
      <3>3. CASE q # r
        BY <1>2, <2>1, <2>4, <2>5, <3>1, <3>3
      <3> QED  BY <3>2, <3>3
    <2> QED  BY <2>3, <2>6 DEF ActionsAreNew
  <1>10. ASSUME NEW r \in Trades, EvaluatePlan(r), ~NextPlan
         PROVE  HInv'
    <2> DEFINE qty == CurrentQty(worker.copy, worker.seen)
               D   == Decision(worker.copy, qty)
    <2>1. /\ worker'.todo = worker.todo /\ worker'.trade = worker.trade /\ qty \in Nat
          /\ worker'.copy = worker.copy /\ plan' = plan /\ worker'.actions = D
      BY <1>10, EvaluateDecides DEF TInv
    <2>2. worker.at = "evaluate" /\ taken' = taken
      BY <1>10 DEF EvaluatePlan, Writes
    <2>3. \A q \in Trades, c \in Plan : CopyOf(q, c)' <=> CopyOf(q, c)
      BY <2>1 DEF CopyOf
    <2>4. TakenIsHit'
      BY <1>2, <2>1, <2>2, <2>3 DEF TakenIsHit
    <2>5. /\ \A n \in 1 .. Len(D) : D[n].target \notin worker.copy.hit
          /\ \A m, n \in 1 .. Len(D) : D[m].target = D[n].target => m = n
      <3> HIDE DEF qty
      <3>1. CASE price # Stop
        BY <1>1, <2>1, <3>1, DecisionTakes
      <3>2. CASE price = Stop
        <4>1. Len(D) = 1 /\ D[1] = [qty |-> qty, target |-> 0]
          BY <2>1, <3>2, DecisionCloses
        <4> HIDE DEF D
        <4>2. 0 \notin worker.copy.hit
          BY <1>1, SizeAssumption DEF Plan, Targets
        <4> QED  BY <4>1, <4>2
      <3> QED  BY <3>1, <3>2
    <2> HIDE DEF D
    <2>6. ActionsAreNew'
      BY <2>1, <2>5 DEF ActionsAreNew
    <2> QED  BY <2>4, <2>6
  <1>11. ASSUME NEW r \in Trades, SubmitExit(r)
         PROVE  HInv'
    <2> DEFINE action == Head(worker.actions)
    <2>1. /\ worker.at = "submit" /\ worker.trade = {r} /\ worker'.trade = {r}
          /\ worker'.todo = worker.todo /\ action \in Action /\ action = worker.actions[1]
          /\ plan' = plan /\ worker' \in Work
          /\ worker'.at \in {"submit", "store"}
          /\ worker'.copy.build = worker.copy.build
          /\ worker'.copy.hit = Marked(worker.copy, action)
          /\ worker'.actions = Tail(worker.actions)
          /\ taken' = IF action.target = 0 THEN taken
                         ELSE taken \cup {<<r, worker.copy.build, action.target>>}
      BY <1>11, SubmitMarks DEF TInv
    <2>2. worker.actions \in Seq(Action) /\ Len(worker.actions) \in Nat \ {0}
      BY <1>1, <1>11, SubmitMarks DEF TInv, Work
    <2> HIDE DEF action
    <2>3. /\ worker.copy.hit \subseteq worker'.copy.hit
          /\ action.target # 0 => action.target \in worker'.copy.hit
          /\ \A i \in worker'.copy.hit : i \in worker.copy.hit \/ i = action.target
      BY <2>1 DEF Marked
    <2>4. CopyOf(r, worker.copy)
      BY <2>1 DEF CopyOf
    <2>5. \A q \in Trades, d \in Plan : CopyOf(q, d)' =>
            \/ q = r /\ d = worker'.copy
            \/ q # r /\ CopyOf(q, d)
      BY <2>1 DEF CopyOf, CInv, TodoNotInHand
    <2>6. worker.copy.build <= builds[r]
      BY <1>1, <2>4 DEF CInv, BuildsKnown
    <2>7. TakenIsHit'
      <3> SUFFICES ASSUME NEW q \in Trades, NEW b \in Nat, NEW i \in Targets, <<q, b, i>> \in taken'
                   PROVE  TakenIsHit!(q, b, i)!2'
        BY DEF TakenIsHit
      <3>1. CASE <<q, b, i>> \in taken
        <4>1. TakenIsHit!(q, b, i)!2
          BY <3>1 DEF TakenIsHit
        <4>2. CASE q = r
          <5>1. b = worker.copy.build => i \in worker'.copy.hit
            BY <1>1, <2>3, <2>4, <4>1, <4>2
          <5> QED  BY <1>2, <2>1, <2>5, <4>1, <4>2, <5>1
        <4>3. CASE q # r
          BY <1>2, <2>1, <2>5, <4>1, <4>3
        <4> QED  BY <4>2, <4>3
      <3>2. CASE <<q, b, i>> \notin taken
        <4>1. q = r /\ b = worker.copy.build /\ i = action.target /\ action.target # 0
          BY <2>1, <3>2
        <4> QED  BY <1>2, <2>1, <2>3, <2>5, <2>6, <4>1
      <3> QED  BY <3>1, <3>2
    <2>8. ActionsAreNew'
      <3>0. SUFFICES ASSUME worker'.at = "submit"
                     PROVE  ActionsAreNew!2'
        BY DEF ActionsAreNew
      <3>1. Len(worker.actions) # 1
        BY <1>11, <3>0, SubmitMarks DEF TInv
      <3>2. /\ Len(worker'.actions) = Len(worker.actions) - 1
            /\ \A n \in 1 .. Len(worker'.actions) : worker'.actions[n] = worker.actions[n + 1]
        BY <2>1, <2>2, <3>1, TailIsLeft
      <3>3. /\ \A n \in 1 .. Len(worker.actions) : worker.actions[n].target \notin worker.copy.hit
            /\ \A m, n \in 1 .. Len(worker.actions) :
                 worker.actions[m].target = worker.actions[n].target => m = n
        BY <2>1 DEF ActionsAreNew
      <3>4. \A n \in 1 .. Len(worker'.actions) :
              n + 1 \in 1 .. Len(worker.actions) /\ n + 1 # 1 /\ n \in Nat
        BY <2>2, <3>2
      <3>5. 1 \in 1 .. Len(worker.actions)
        BY <2>2
      <3>6. \A n \in 1 .. Len(worker'.actions) : worker'.actions[n].target \notin worker'.copy.hit
        BY <2>1, <2>3, <3>2, <3>3, <3>4, <3>5
      <3>7. ASSUME NEW m \in 1 .. Len(worker'.actions), NEW n \in 1 .. Len(worker'.actions),
                   worker'.actions[m].target = worker'.actions[n].target
            PROVE  m = n
        <4>1. m + 1 = n + 1
          BY <3>2, <3>3, <3>4, <3>7
        <4> QED  BY <3>4, <4>1
      <3> QED  BY <3>6, <3>7
    <2> QED  BY <2>7, <2>8
  <1> QED
    BY <1>4, <1>5, <1>6, <1>7, <1>8, <1>9, <1>10, <1>11 DEF WorkerStep
LEMMA InitHits ==
  ASSUME Init
  PROVE  HInv
  BY NoWorkTyped DEF Init, HInv, TakenIsHit, ActionsAreNew

LEMMA StepHits ==
  ASSUME TInv, CInv, HInv, [Next]_vars, ExitsAreStored
  PROVE  HInv'
  <1>1. CASE UNCHANGED vars
    <2>1. \A q \in Trades, c \in Plan : CopyOf(q, c)' <=> CopyOf(q, c)
      BY <1>1, CopiesKept DEF vars
    <2> QED  BY <1>1, <2>1 DEF vars, HInv, TakenIsHit, ActionsAreNew
  <1> QED  BY <1>1, NextSteps, RequestHits, WorkerHits, OtherHits

(* No target of a plan is taken twice, for any trades that share the       *)
(* position, replaced or cancelled, and whatever fails but a submission or *)
(* the worker itself between a submission and the row.                     *)
THEOREM TargetsTakenOnce ==
  ASSUME ExitsAreStored
  PROVE  Spec => TargetTakenOnce
  <1> DEFINE Step == \A r \in Trades :
                       Writes(r, "submit") /\ exits' # exits
                       => <<r, worker.copy.build, Head(worker.actions).target>> \notin taken
  <1>1. ASSUME TInv, CInv, HInv, NEW r \in Trades, Writes(r, "submit")
        PROVE  <<r, worker.copy.build, Head(worker.actions).target>> \notin taken
    <2> DEFINE i == Head(worker.actions).target
    <2>1. /\ worker.at = "submit" /\ worker.trade = {r} /\ worker.copy \in Plan
          /\ worker.actions \in Seq(Action) /\ worker.actions # <<>>
          /\ taken \subseteq Trades \X Nat \X Targets
      BY <1>1 DEF Writes, TInv, InHand, Typing, Work
    <2>2. Len(worker.actions) \in Nat \ {0} /\ Head(worker.actions) = worker.actions[1]
      BY <2>1
    <2>3. i \notin worker.copy.hit
      BY <1>1, <2>1, <2>2 DEF HInv, ActionsAreNew
    <2>4. CopyOf(r, worker.copy)
      BY <2>1 DEF CopyOf
    <2> HIDE DEF i
    <2>5. <<r, worker.copy.build, i>> \notin taken
      <3> SUFFICES ASSUME <<r, worker.copy.build, i>> \in taken
                   PROVE  FALSE
        OBVIOUS
      <3>1. i \in Targets /\ worker.copy.build \in Nat
        BY <2>1
      <3> QED  BY <1>1, <2>1, <2>3, <2>4, <3>1 DEF HInv, TakenIsHit
    <2> QED  BY <2>5 DEF i
  <1>2. TInv /\ CInv /\ HInv /\ [Next]_vars => [Step]_vars
    BY <1>1
  <1>3. Spec => [](TInv /\ CInv /\ HInv)
    BY InitTyped, InitCopies, InitHits, StepTyped, StepCopies, StepHits, PTL DEF Spec
  <1> HIDE DEF Step
  <1>4. Spec => [][Step]_vars
    BY <1>2, <1>3, PTL DEF Spec
  <1> QED  BY <1>4 DEF Step, TargetTakenOnce
-----------------------------------------------------------------------------
(* A closed plan *)

LEMMA FlatRequest ==
  ASSUME NEW a, Trades = {a}, Priced = {}, TInv, CInv, FlatIsFinal(a), RequestStep(a)
  PROVE  FlatIsFinal(a)'
  <1> USE DEF FlatIsFinal
  <1>1. a \in Trades
    OBVIOUS
  <1>2. /\ worker' = worker /\ snapshot' = snapshot /\ position' = position /\ feed' = feed
        /\ \A q \in Trades, c \in Plan : CopyOf(q, c)' <=> CopyOf(q, c)
    BY <1>1, RequestWrites, CopiesKept
  <1>3. entry'[a].state = entry[a].state \/ entry[a].state # "done"
    <2>1. entry \in [Trades -> Order] /\ entry[a] \in Order
      BY <1>1 DEF TInv, Typing
    <2>2. CASE CreateAccepted(a) \/ CancelAccepted(a)
      BY <2>2 DEF CreateAccepted, CancelAccepted
    <2>3. CASE ReplaceAccepted(a)
      BY <2>3 DEF ReplaceAccepted
    <2>4. CASE entry' = entry
      BY <2>4
    <2> QED
      BY <2>2, <2>3, <2>4
         DEF RequestStep, PersistPlan, OnOrderReplaced, OnOrderCanceled, DiscardPlan, HookFails, bitget
  <1>4. entry'[a].state # "done" => entry[a].state # "done"
    BY <1>3
  <1>5. SnapshotIsPast(a) => SnapshotIsPast(a)'
    BY <1>2, <1>3 DEF SnapshotIsPast
  <1>6. WasOpen(plan'[a]) => WasOpen(plan[a])
    <2>1. Built(a).state = "active" => WasOpen(plan[a])
      BY <1>1, BuiltTyped DEF TInv, Typing, HasPrice, WasOpen
    <2>2. Built(a).state \in {"active", "pending"} /\ request[a].copy \in Plan
      BY <1>1, BuiltTyped DEF TInv, Typing, Asked
    <2>3. [request[a].copy EXCEPT !.state = "cancelled"].state = "cancelled"
      BY <2>2 DEF Plan
    <2> QED  BY <1>1, <2>1, <2>2, <2>3, RequestWrites DEF WasOpen
  <1>7. plan'[a].state = "closed" => plan[a].state = "closed"
    <2>1. Built(a).state \in {"active", "pending"} /\ request[a].copy \in Plan
      BY <1>1, BuiltTyped DEF TInv, Typing, Asked
    <2>2. [request[a].copy EXCEPT !.state = "cancelled"].state = "cancelled"
      BY <2>1 DEF Plan
    <2> QED  BY <1>1, <2>1, <2>2, RequestWrites
  <1> QED  BY <1>1, <1>2, <1>4, <1>5, <1>6, <1>7

LEMMA FlatWorker ==
  ASSUME NEW a, Trades = {a}, TInv, CInv, FlatIsFinal(a), WorkerStep
  PROVE  FlatIsFinal(a)'
  <1> USE DEF FlatIsFinal
  <1>1. /\ a \in Trades /\ worker \in Work /\ worker.copy \in Plan /\ plan \in [Trades -> Plan]
        /\ snapshot \in Nat
    BY DEF TInv, Typing, Work
  <1>2. /\ entry' = entry /\ position' = position /\ feed' = feed /\ snapshot' = snapshot
        /\ SnapshotIsPast(a)' <=> SnapshotIsPast(a)
    BY WorkerLeaves DEF SnapshotIsPast
  <1>3. ASSUME WasOpen(plan'[a]) \/ worker'.at \in Busy => SnapshotIsPast(a),
               \A c \in Plan : CopyOf(a, c)' /\ WasOpen(c) => SnapshotIsPast(a),
               plan'[a].state = "closed" \/ worker'.at = "close" => position = 0
        PROVE  FlatIsFinal(a)'
    BY <1>2, <1>3
  (* No plan is in hand afterwards.                                        *)
  <1>4. ASSUME worker'.at \notin Busy,
               \A c \in Plan : CopyOf(a, c)' => CopyOf(a, c) \/ c = plan[a],
               plan' = plan
        PROVE  FlatIsFinal(a)'
    BY <1>2, <1>4 DEF Busy
  <1>5. CASE ListPlans
    <2>1. /\ worker'.todo = {<<r, plan[r]>> : r \in Listed} /\ worker'.trade = {} /\ plan' = plan
          /\ worker'.at = "next"
      BY <1>5 DEF ListPlans, NoWork, tables
    <2>2. \A c \in Plan : CopyOf(a, c)' => c = plan[a]
      BY <2>1 DEF CopyOf, Listed
    <2> QED  BY <1>4, <2>1, <2>2 DEF Busy
  <1>6. CASE TickEnds
    <2>1. worker'.todo = {} /\ worker'.trade = {} /\ plan' = plan /\ worker'.at = "idle"
      BY <1>6 DEF TickEnds, NoWork, tables
    <2>2. \A c \in Plan : ~CopyOf(a, c)'
      BY <2>1 DEF CopyOf
    <2> QED  BY <1>4, <2>1, <2>2 DEF Busy
  <1>7. ASSUME NEW r \in Trades, NEW c \in {w[2] : w \in worker.todo}, LookAt(r, c)
        PROVE  FlatIsFinal(a)'
    <2>1. /\ worker.at = "next" /\ <<r, c>> \in worker.todo /\ c \in Plan /\ r = a
          /\ worker'.todo = worker.todo \ {<<r, c>>} /\ plan' = plan
      BY <1>7, LookAtTakes DEF TInv, LookAt, tables
    <2>2. \/ worker'.at = "next" /\ worker'.trade = {}
          \/ /\ worker'.at \in {"close", "finalize", "evaluate"}
             /\ worker'.trade = {r} /\ worker'.copy = c /\ worker'.seen = snapshot
             /\ worker'.at = "close" <=> snapshot = 0
             /\ worker'.at = "close" => c.state \in {"active", "closing"}
             /\ worker'.at = "evaluate" => c.state \notin {"closing", "pending"}
      BY <1>7, LookAtTakes DEF TInv
    <2>3. \A d \in Plan : CopyOf(a, d)' => CopyOf(a, d)
      BY <2>1, <2>2 DEF CopyOf
    <2>4. CopyOf(a, c) /\ c.state \in Alive
      BY <2>1 DEF CopyOf, CInv, CopiedIsAlive
    <2>5. worker'.at \in {"close", "evaluate"} => WasOpen(c)
      BY <2>2, <2>4 DEF WasOpen, Alive
    <2>6. worker'.at \in Busy => SnapshotIsPast(a)
      <3>1. worker'.at \in {"close", "evaluate"} => SnapshotIsPast(a)
        BY <2>1, <2>4, <2>5
      <3>2. worker'.at = "finalize" => SnapshotIsPast(a)
        BY <2>2 DEF SnapshotIsPast
      <3> QED  BY <2>2, <3>1, <3>2 DEF Busy
    <2>7. worker'.at = "close" => position = 0
      BY <2>2, <2>6 DEF SnapshotIsPast, Busy
    <2> QED  BY <1>3, <2>1, <2>3, <2>6, <2>7
  <1>8. ASSUME NEW r \in Trades, MarketFails(r) \/ SubmitFails(r)
        PROVE  FlatIsFinal(a)'
    <2>1. NextPlan /\ plan' = plan
      BY <1>8 DEF MarketFails, SubmitFails, tables
    <2>2. worker'.at = "next" /\ worker'.trade = {} /\ worker'.todo = worker.todo
      BY <1>1, <2>1, PutAway
    <2>3. \A c \in Plan : CopyOf(a, c)' => CopyOf(a, c)
      BY <2>2 DEF CopyOf
    <2> QED  BY <1>4, <2>1, <2>2, <2>3 DEF Busy
  <1>9. ASSUME NEW r \in Trades,
               \/ ClosePlan(r) \/ FinalizePlan(r) \/ FinalizeFails(r) \/ StorePlan(r)
               \/ EvaluatePlan(r) /\ NextPlan
        PROVE  FlatIsFinal(a)'
    <2>1. r = a /\ worker.trade = {a} /\ worker.at \in Busy
      BY <1>9 DEF ClosePlan, FinalizePlan, FinalizeFails, StorePlan, EvaluatePlan, Writes, Busy
    <2>2. PICK d \in Plan : plan' = [plan EXCEPT ![a] = d] /\ NextPlan /\ Outcome(d)
      BY <1>9, <2>1, WritesBack DEF TInv, Written
    <2>3. worker'.at = "next" /\ worker'.trade = {} /\ worker'.todo = worker.todo
      BY <1>1, <2>2, PutAway
    <2>4. \A c \in Plan : CopyOf(a, c)' => CopyOf(a, c)
      BY <2>3 DEF CopyOf
    <2>5. plan'[a] = d
      BY <1>1, <2>2
    <2>6. SnapshotIsPast(a)
      BY <2>1
    <2>7. d.state = "closed" => position = 0
      <3>1. worker.copy.state \in Alive
        BY <1>1, <2>1 DEF CopyOf, CInv, CopiedIsAlive
      <3> QED  BY <2>2, <3>1 DEF Outcome, Alive
    <2> QED  BY <1>3, <2>3, <2>4, <2>5, <2>6, <2>7
  <1>10. ASSUME NEW r \in Trades, EvaluatePlan(r), ~NextPlan
         PROVE  FlatIsFinal(a)'
    <2>1. /\ worker'.todo = worker.todo /\ worker'.trade = worker.trade
          /\ worker'.copy = worker.copy /\ plan' = plan /\ worker'.at = "submit"
      BY <1>10, EvaluateDecides DEF TInv
    <2>2. worker.at \in Busy
      BY <1>10 DEF EvaluatePlan, Writes, Busy
    <2>3. \A c \in Plan : CopyOf(a, c)' => CopyOf(a, c)
      BY <2>1 DEF CopyOf
    <2> QED  BY <1>3, <2>1, <2>2, <2>3
  <1>11. ASSUME NEW r \in Trades, SubmitExit(r)
         PROVE  FlatIsFinal(a)'
    <2>1. /\ worker.at = "submit" /\ worker'.at \in {"submit", "store"} /\ plan' = plan
      BY <1>11, SubmitMarks DEF TInv
    <2>2. SnapshotIsPast(a) /\ worker'.at # "close"
      BY <2>1 DEF Busy
    <2> QED  BY <1>3, <2>1, <2>2
  <1> QED
    BY <1>5, <1>6, <1>7, <1>8, <1>9, <1>10, <1>11 DEF WorkerStep

LEMMA FlatOther ==
  ASSUME NEW a, Trades = {a}, PartialFills = FALSE, TInv, FlatIsFinal(a), OtherStep
  PROVE  FlatIsFinal(a)'
  <1> USE DEF FlatIsFinal, SnapshotIsPast
  <1>1. /\ a \in Trades /\ position \in Nat /\ snapshot \in Nat /\ feed \in Seq(Nat)
        /\ exits[a] \in Nat /\ entry[a] \in Order
    BY DEF TInv, Typing
  <1>2. plan' = plan
    BY OtherWrites
  <1>3. worker' = worker => \A c \in Plan : CopyOf(a, c)' <=> CopyOf(a, c)
    BY <1>1, CopiesKept
  <1>4. CASE ExitExecutes(a)
    <2>1. /\ exits[a] > 0 /\ position' = (IF exits[a] > position THEN 0 ELSE position - exits[a])
          /\ feed' = (IF position' = position THEN feed ELSE Append(feed, position'))
          /\ entry' = entry /\ snapshot' = snapshot /\ worker' = worker
      BY <1>4 DEF ExitExecutes, tables
    <2>2. position' \in Nat /\ (position = 0 => position' = 0)
      BY <1>1, <2>1
    <2>3. \A i \in 1 .. Len(feed') : feed'[i] = 0 => position' = 0
      <3>1. CASE feed' = feed
        BY <2>2, <3>1
      <3>2. CASE feed' = Append(feed, position')
        BY <1>1, <2>2, <3>2
      <3> QED  BY <2>1, <3>1, <3>2
    <2>4. position = 0 => feed' = feed
      BY <2>1, <2>2
    <2> QED  BY <1>2, <1>3, <2>1, <2>2, <2>3, <2>4
  <1>5. ASSUME NEW q \in 1 .. Size, EntryFills(a, q)
        PROVE  FlatIsFinal(a)'
    <2>1. /\ entry[a].state = "working" /\ q = entry[a].open /\ snapshot' = snapshot
          /\ entry' = [entry EXCEPT ![a] = [state |-> "done", open |-> 0]]
          /\ position' = position + q /\ feed' = Append(feed, position') /\ worker' = worker
      BY <1>5 DEF EntryFills, tables
    <2>2. position = 0 /\ feed = <<>> /\ q \in Nat /\ q > 0
      BY <2>1, SizeAssumption
    <2>3. entry'[a].state = "done"
      BY <1>1, <2>1 DEF TInv, Typing
    <2>4. position' # 0 /\ position' \in Nat
      BY <2>1, <2>2
    <2>5. \A i \in 1 .. Len(feed') : feed'[i] = 0 => position' = 0
      BY <2>1, <2>2, <2>4
    <2>6. /\ ~ WasOpen(plan[a]) /\ worker.at \notin Busy
          /\ \A c \in Plan : CopyOf(a, c) => ~ WasOpen(c)
      BY <2>1
    <2>7. plan[a].state # "closed" /\ worker.at # "close"
      BY <2>6 DEF WasOpen, Busy
    <2> QED  BY <1>2, <1>3, <2>1, <2>3, <2>5, <2>6, <2>7
  <1>6. CASE HandlePosition
    <2>1. /\ feed # <<>> /\ snapshot' = Head(feed) /\ feed' = Tail(feed) /\ entry' = entry
          /\ position' = position /\ worker' = worker
      BY <1>6 DEF HandlePosition
    <2>2. Len(feed) \in Nat \ {0} /\ Head(feed) = feed[1]
      BY <1>1, <2>1
    <2>3. \A i \in 1 .. Len(feed') : feed'[i] = feed[i + 1] /\ i + 1 \in 1 .. Len(feed)
      BY <1>1, <2>1
    <2>4. entry[a].state = "done" /\ (snapshot' = 0 => position = 0)
      BY <2>1, <2>2
    <2> QED  BY <1>2, <1>3, <2>1, <2>3, <2>4
  <1>7. CASE RestCatchup
    BY <1>2, <1>3, <1>7 DEF RestCatchup, bitget
  <1>8. CASE PriceMoves
    BY <1>2, <1>3, <1>8 DEF PriceMoves, tables
  <1>9. CASE Crash
    <2>1. worker'.todo = {} /\ worker'.trade = {} /\ worker'.at = "idle"
      BY <1>9, NoWorkTyped DEF Crash
    <2>2. \A c \in Plan : ~CopyOf(a, c)'
      BY <2>1 DEF CopyOf
    <2>3. feed' = <<>> /\ entry' = entry /\ position' = position /\ snapshot' = snapshot
      BY <1>9 DEF Crash, tables
    <2> QED  BY <1>2, <2>1, <2>2, <2>3 DEF Busy
  <1> QED  BY <1>4, <1>5, <1>6, <1>7, <1>8, <1>9 DEF OtherStep

(* A plan that was closed has no position: with one market entry that is   *)
(* filled as a whole, the plan becomes active only once the fill is in the *)
(* snapshot, and an empty snapshot after that is the end of the position.  *)
(* This is for any size, any number of replacements, cancels and failures. *)
THEOREM ClosedPlansAreFlat ==
  ASSUME NEW a, Trades = {a}, Priced = {}, PartialFills = FALSE
  PROVE  Spec => []ClosedPlanMeansFlat
  <1>1. Init => FlatIsFinal(a)
    <2> SUFFICES ASSUME Init
                 PROVE  FlatIsFinal(a)
      OBVIOUS
    <2>1. worker.at = "idle" /\ worker.todo = {} /\ worker.trade = {}
      BY NoWorkTyped DEF Init
    <2>2. plan[a].state = "none" /\ position = 0 /\ snapshot = 0 /\ feed = <<>>
      BY NoPlanTyped DEF Init
    <2> QED  BY <2>1, <2>2 DEF FlatIsFinal, CopyOf, WasOpen, Busy
  <1>2. ASSUME TInv, CInv, FlatIsFinal(a), [Next]_vars
        PROVE  FlatIsFinal(a)'
    <2>1. CASE UNCHANGED vars
      BY <1>2, <2>1 DEF vars, FlatIsFinal, CopyOf, WasOpen, SnapshotIsPast
    <2> QED  BY <1>2, <2>1, NextSteps, FlatRequest, FlatWorker, FlatOther
  <1>3. FlatIsFinal(a) => ClosedPlanMeansFlat
    BY DEF FlatIsFinal, ClosedPlanMeansFlat
  <1> HIDE DEF FlatIsFinal
  <1> QED  BY <1>1, <1>2, <1>3, CopiesHold, PTL DEF Spec
-----------------------------------------------------------------------------
(* Exits and the position *)

LEMMA SoldRequest ==
  ASSUME NEW a, Trades = {a}, MaxReplaces = 0, TInv, CInv, SoldIsCovered(a), RequestStep(a)
  PROVE  SoldIsCovered(a)'
  <1> USE DEF SoldIsCovered
  <1>1. /\ a \in Trades /\ plan[a] \in Plan /\ builds[a] \in Nat /\ request[a] \in Asked
        /\ request \in [Trades -> Asked]
    BY DEF TInv, Typing
  <1>2. /\ worker' = worker /\ exits' = exits /\ snapshot' = snapshot /\ position' = position
        /\ feed' = feed /\ builds'[a] \in {builds[a], builds[a] + 1}
        /\ \A q \in Trades, c \in Plan : CopyOf(q, c)' <=> CopyOf(q, c)
    BY <1>1, RequestWrites, CopiesKept
  <1>3. Unsold(a)' <=> Unsold(a)
    BY <1>2 DEF Unsold
  <1>4. \A c \in Plan : Covered(a, c)' <=> Covered(a, c)
    BY <1>2, <1>3 DEF Covered
  <1>5. InHandIsOpen' /\ ActionsFit' /\ StoredIsOpen'
    BY <1>2 DEF InHandIsOpen, ActionsFit, StoredIsOpen
  <1>6. builds'[a] = builds[a] + 1 => builds[a] = 0
    <2>1. builds'[a] <= MaxReplaces + 1
      BY <1>1, RequestTyped DEF TInv, BuildsBounded
    <2> QED  BY <1>1, <2>1
  <1>7. builds[a] = 0 => /\ Unsold(a) /\ plan[a].state = "none" /\ request[a].at # "discard"
                         /\ worker.trade = {} /\ worker.todo = {}
    BY DEF NothingBuilt
  <1>8. request'[a].at = "discard" => request[a].at = "discard" \/ plan[a].state = "pending"
    <2>1. CASE OnOrderCanceled(a)
      BY <1>1, <2>1 DEF OnOrderCanceled
    <2>2. CASE CreateAccepted(a) \/ PersistPlan(a) \/ ReplaceAccepted(a) \/ OnOrderReplaced(a)
                 \/ CancelAccepted(a)
      BY <1>1, <2>2 DEF CreateAccepted, PersistPlan, ReplaceAccepted, OnOrderReplaced,
                        CancelAccepted, Request, Asked
    <2>3. CASE DiscardPlan(a) \/ HookFails(a)
      BY <1>1, <2>3 DEF DiscardPlan, HookFails
    <2> QED  BY <2>1, <2>2, <2>3 DEF RequestStep
  <1>9. DiscardPlan(a) => builds[a] # 0 /\ builds' = builds
    BY <1>7 DEF DiscardPlan
  <1>10. NothingBuilt(a)'
    <2> SUFFICES ASSUME builds'[a] = 0
                 PROVE  /\ Unsold(a) /\ plan'[a].state = "none" /\ request'[a].at # "discard"
                        /\ worker.trade = {} /\ worker.todo = {}
      BY <1>2, <1>3 DEF NothingBuilt
    <2>1. builds[a] = 0
      BY <1>1, <1>2
    <2>2. builds'[a] # builds[a] + 1 /\ ~ DiscardPlan(a)
      BY <1>9, <2>1
    <2>3. plan'[a] = plan[a]
      BY <1>1, <2>2, RequestWrites
    <2> QED  BY <1>7, <1>8, <2>1, <2>3
  <1>11. PlansAreCovered(a)'
    <2> SUFFICES ASSUME worker.at \notin {"submit", "store"}
                 PROVE  /\ Covered(a, plan[a])'
                        /\ \A c \in Plan : CopyOf(a, c)' => Covered(a, c)'
      BY <1>2 DEF PlansAreCovered
    <2>1. \A c \in Plan : CopyOf(a, c)' => Covered(a, c)'
      BY <1>1, <1>2, <1>4 DEF PlansAreCovered
    <2>2. CASE plan'[a] = plan[a]
      BY <1>2, <1>3, <2>1, <2>2 DEF PlansAreCovered, Covered
    <2>3. CASE plan'[a] = Built(a) /\ builds'[a] = builds[a] + 1
      <3>1. Unsold(a)' /\ Built(a).hit = {}
        BY <1>1, <1>3, <1>6, <1>7, <2>3, BuiltTyped DEF TInv, Typing
      <3> QED  BY <2>1, <2>3, <3>1 DEF Covered
    <2>4. CASE plan'[a] = [request[a].copy EXCEPT !.state = "cancelled"]
      <3>1. plan'[a].state = "cancelled"
        BY <1>1, <2>4 DEF Asked, Plan
      <3> QED  BY <2>1, <3>1 DEF Covered
    <2> QED  BY <1>1, <2>1, <2>2, <2>3, <2>4, RequestWrites
  <1> QED  BY <1>2, <1>5, <1>10, <1>11

LEMMA SoldOther ==
  ASSUME NEW a, Trades = {a}, ExitsAreStored, TInv, SoldIsCovered(a), OtherStep
  PROVE  SoldIsCovered(a)'
  <1> USE DEF SoldIsCovered
  <1>0. ~ Crash
    BY DEF ExitsAreStored, Crash, Fails
  <1>1. /\ a \in Trades /\ position \in Nat /\ snapshot \in Nat /\ feed \in Seq(Nat)
        /\ exits[a] \in Nat /\ plan[a] \in Plan /\ worker \in Work /\ worker.seen \in Nat
        /\ worker.left \in Nat
    BY DEF TInv, Typing, Work
  <1>2. plan' = plan /\ builds' = builds /\ worker' = worker /\ request' = request
    BY <1>0, OtherWrites
  <1>3. \A c \in Plan : CopyOf(a, c)' <=> CopyOf(a, c)
    BY <1>1, <1>2, CopiesKept
  <1>4. InHandIsOpen' /\ ActionsFit' /\ StoredIsOpen'
    BY <1>2 DEF InHandIsOpen, ActionsFit, StoredIsOpen
  (* Enough: what was unsold stays unsold, and the position covers as much.*)
  <1>5. ASSUME Unsold(a) => Unsold(a)', exits'[a] \in Nat, position' \in Nat,
               \A m \in Nat : exits[a] + m <= position => exits'[a] + m <= position'
        PROVE  SoldIsCovered(a)'
    <2>1. exits'[a] <= position'
      BY <1>1, <1>5
    <2>2. NothingBuilt(a)'
      BY <1>2, <1>5 DEF NothingBuilt
    <2>3. \A c \in Plan : c.left \in Nat
      BY DEF Plan
    <2>4. \A c \in Plan : Covered(a, c) => Covered(a, c)'
      BY <1>5, <2>3 DEF Covered
    <2>5. PlansAreCovered(a)'
      <3>1. Covered(a, plan[a]) => Covered(a, plan[a])'
        BY <1>1, <1>2, <1>5, <2>3 DEF Covered
      <3> QED  BY <1>2, <1>3, <2>4, <3>1 DEF PlansAreCovered
    <2>6. worker.at \in {"submit", "store"} => exits'[a] + worker.left <= position'
      BY <1>1, <1>5
    <2> QED  BY <1>2, <1>4, <2>1, <2>2, <2>5, <2>6
  <1>6. CASE ExitExecutes(a)
    <2>1. /\ exits[a] > 0 /\ exits' = [exits EXCEPT ![a] = 0]
          /\ position' = (IF exits[a] > position THEN 0 ELSE position - exits[a])
      BY <1>6 DEF ExitExecutes
    <2>2. position' = position - exits[a] /\ position' \in Nat
      BY <1>1, <2>1
    <2>3. exits'[a] = 0
      BY <1>1, <2>1 DEF TInv, Typing
    <2>4. ~ Unsold(a)
      BY <1>1, <2>1 DEF Unsold
    <2>5. \A m \in Nat : exits[a] + m <= position => exits'[a] + m <= position'
      BY <1>1, <2>2, <2>3
    <2> QED  BY <1>5, <2>2, <2>3, <2>4, <2>5
  <1>7. ASSUME NEW q \in 1 .. Size, EntryFills(a, q)
        PROVE  SoldIsCovered(a)'
    <2>1. /\ position' = position + q /\ feed' = Append(feed, position') /\ exits' = exits
          /\ snapshot' = snapshot
      BY <1>7 DEF EntryFills, tables
    <2>2. q \in Nat
      BY SizeAssumption
    <2>3. position' \in Nat /\ position <= position'
      BY <1>1, <2>1, <2>2
    <2>4. ASSUME Unsold(a)
          PROVE  Unsold(a)'
      <3>1. \A i \in 1 .. Len(feed') : feed'[i] <= position'
        <4> SUFFICES ASSUME NEW i \in 1 .. Len(feed')
                     PROVE  feed'[i] <= position'
          OBVIOUS
        <4>1. Len(feed') = Len(feed) + 1 /\ Len(feed) \in Nat
          BY <1>1, <2>1, <2>3
        <4>2. CASE i = Len(feed) + 1
          BY <1>1, <2>1, <2>3, <4>2
        <4>3. CASE i # Len(feed) + 1
          <5>1. i \in 1 .. Len(feed)
            BY <4>1, <4>3
          <5>2. feed'[i] = feed[i] /\ feed[i] \in Nat
            BY <1>1, <2>1, <2>3, <5>1
          <5>3. feed[i] <= position
            BY <2>4, <5>1 DEF Unsold
          <5> QED  BY <1>1, <2>3, <5>2, <5>3
        <4> QED  BY <4>2, <4>3
      <3> QED  BY <1>1, <1>2, <2>1, <2>3, <2>4, <3>1 DEF Unsold
    <2>5. \A m \in Nat : exits[a] + m <= position => exits'[a] + m <= position'
      BY <1>1, <2>1, <2>3
    <2> QED  BY <1>1, <1>5, <2>1, <2>3, <2>4, <2>5
  <1>8. CASE HandlePosition
    <2>1. /\ feed # <<>> /\ snapshot' = Head(feed) /\ feed' = Tail(feed)
          /\ position' = position /\ exits' = exits
      BY <1>8 DEF HandlePosition
    <2>2. Len(feed) \in Nat \ {0} /\ Head(feed) = feed[1] /\ 1 \in 1 .. Len(feed)
      BY <1>1, <2>1
    <2>3. \A i \in 1 .. Len(feed') : feed'[i] = feed[i + 1] /\ i + 1 \in 1 .. Len(feed)
      BY <1>1, <2>1
    <2>4. Unsold(a) => Unsold(a)'
      BY <1>2, <2>1, <2>2, <2>3 DEF Unsold
    <2> QED  BY <1>1, <1>5, <2>1, <2>4
  <1>9. CASE RestCatchup
    <2>1. snapshot' = position /\ position' = position /\ exits' = exits /\ feed' = feed
      BY <1>9 DEF RestCatchup, bitget
    <2>2. Unsold(a) => Unsold(a)'
      BY <1>1, <1>2, <2>1 DEF Unsold
    <2> QED  BY <1>1, <1>5, <2>1, <2>2
  <1>10. CASE PriceMoves
    <2>1. snapshot' = snapshot /\ position' = position /\ exits' = exits /\ feed' = feed
      BY <1>10 DEF PriceMoves, tables
    <2>2. Unsold(a) => Unsold(a)'
      BY <1>2, <2>1 DEF Unsold
    <2> QED  BY <1>1, <1>5, <2>1, <2>2
  <1> QED  BY <1>0, <1>6, <1>7, <1>8, <1>9, <1>10 DEF OtherStep
(* What is sold at a time fits what the copy in hand leaves to sell.       *)
LEMMA QuantityFits ==
  ASSUME NEW a, TInv, worker.at = "evaluate", worker.copy.state = "active", worker.seen > 0,
         exits[a] \in Nat, exits[a] <= position, Covered(a, worker.copy)
  PROVE  LET qty == CurrentQty(worker.copy, worker.seen)
         IN  /\ qty \in Nat /\ qty > 0 /\ exits[a] + qty <= position
             /\ worker.copy.left > 0 => qty <= worker.copy.left
  <1>1. worker.seen \in Nat /\ worker.copy.left \in Nat /\ position \in Nat
    BY DEF TInv, Typing, Work, Plan
  <1>2. CASE worker.copy.hit = {}
    <2>1. exits[a] = 0 /\ worker.seen <= position
      BY <1>2 DEF Covered, Unsold
    <2> QED  BY <1>1, <2>1 DEF CurrentQty, Least
  <1>3. CASE worker.copy.hit # {}
    <2>1. worker.copy.left > 0 /\ exits[a] + worker.copy.left <= position
      BY <1>3 DEF Covered
    <2> QED  BY <1>1, <2>1 DEF CurrentQty, Least
  <1> QED  BY <1>2, <1>3

LEMMA SoldWorker ==
  ASSUME NEW a, Trades = {a}, ExitsAreStored, TInv, CInv, SoldIsCovered(a), WorkerStep
  PROVE  SoldIsCovered(a)'
  <1> USE DEF SoldIsCovered
  <1>1. /\ a \in Trades /\ worker \in Work /\ worker.copy \in Plan /\ plan \in [Trades -> Plan]
        /\ plan[a] \in Plan /\ snapshot \in Nat /\ exits \in [Trades -> Nat] /\ exits[a] \in Nat
        /\ position \in Nat /\ price \in 0 .. Stop /\ worker.left \in Nat
    BY DEF TInv, Typing, Work
  <1>2. /\ position' = position /\ feed' = feed /\ snapshot' = snapshot /\ builds' = builds
        /\ request' = request
    BY WorkerLeaves
  <1>3. builds[a] = 0 => /\ Unsold(a) /\ plan[a].state = "none" /\ request[a].at # "discard"
                         /\ worker.trade = {} /\ worker.todo = {}
    BY DEF NothingBuilt
  (* No plan is in hand afterwards.                                        *)
  <1>4. ASSUME worker'.at \notin Busy, exits' = exits, NothingBuilt(a)', PlansAreCovered(a)'
        PROVE  SoldIsCovered(a)'
    BY <1>2, <1>4 DEF Busy, InHandIsOpen, ActionsFit, StoredIsOpen
  <1>5. ASSUME worker'.at \notin {"evaluate", "finalize"}, exits' = exits
        PROVE  /\ Unsold(a) => Unsold(a)'
               /\ \A c \in Plan : Covered(a, c) => Covered(a, c)'
    BY <1>2, <1>5 DEF Unsold, Covered
  <1>6. worker.trade = {a} => builds[a] # 0
    BY <1>3
  <1>7. CASE ListPlans
    <2>1. /\ worker'.todo = {<<r, plan[r]>> : r \in Listed} /\ worker'.trade = {} /\ plan' = plan
          /\ worker'.at = "next" /\ worker.at = "idle" /\ exits' = exits
      BY <1>7 DEF ListPlans, NoWork, tables, bitget
    <2>2. \A c \in Plan : CopyOf(a, c)' => c = plan[a]
      BY <2>1 DEF CopyOf, Listed
    <2>3. NothingBuilt(a)'
      <3>1. plan[a].state = "none" => worker'.todo = {}
        BY <2>1 DEF Listed, Alive
      <3> QED  BY <1>2, <1>3, <1>5, <2>1, <3>1 DEF NothingBuilt
    <2>4. Covered(a, plan[a])
      BY <2>1 DEF PlansAreCovered
    <2>5. PlansAreCovered(a)'
      BY <1>1, <1>2, <2>1, <2>2, <2>4 DEF PlansAreCovered, Covered, Unsold
    <2> QED  BY <1>4, <2>1, <2>3, <2>5 DEF Busy
  <1>8. CASE TickEnds
    <2>1. /\ worker'.todo = {} /\ worker'.trade = {} /\ plan' = plan /\ worker'.at = "idle"
          /\ worker.at = "next" /\ exits' = exits
      BY <1>8 DEF TickEnds, NoWork, tables, bitget
    <2>2. \A c \in Plan : ~CopyOf(a, c)'
      BY <2>1 DEF CopyOf
    <2>3. NothingBuilt(a)'
      BY <1>2, <1>3, <1>5, <2>1 DEF NothingBuilt
    <2>4. PlansAreCovered(a)'
      BY <1>1, <1>2, <2>1, <2>2 DEF PlansAreCovered, Covered, Unsold
    <2> QED  BY <1>4, <2>1, <2>3, <2>4 DEF Busy
  <1>9. ASSUME NEW r \in Trades, NEW c \in {w[2] : w \in worker.todo}, LookAt(r, c)
        PROVE  SoldIsCovered(a)'
    <2>1. /\ worker.at = "next" /\ <<r, c>> \in worker.todo /\ c \in Plan /\ r = a
          /\ worker'.todo = worker.todo \ {<<r, c>>} /\ plan' = plan /\ exits' = exits
      BY <1>9, LookAtTakes DEF TInv, LookAt, tables, bitget
    <2>2. \/ worker'.at = "next" /\ worker'.trade = {}
          \/ /\ worker'.at \in {"close", "finalize", "evaluate"}
             /\ worker'.trade = {r} /\ worker'.copy = c /\ worker'.seen = snapshot
             /\ worker'.at = "close" <=> snapshot = 0
             /\ worker'.at = "finalize" => c.state = "pending"
             /\ worker'.at = "evaluate" => c.state \notin {"closing", "pending"}
      BY <1>9, LookAtTakes DEF TInv
    <2>3. \A d \in Plan : CopyOf(a, d)' => CopyOf(a, d)
      BY <2>1, <2>2 DEF CopyOf
    <2>4. c.state \in Alive
      BY <1>1, <2>1 DEF CopyOf, CInv, CopiedIsAlive
    <2>5. Unsold(a) => Unsold(a)'
      BY <1>2, <2>1, <2>2 DEF Unsold
    <2>6. NothingBuilt(a)'
      BY <1>2, <1>3, <2>1 DEF NothingBuilt
    <2>7. \A d \in Plan : CopyOf(a, d) => Covered(a, d)
      BY <2>1 DEF PlansAreCovered
    <2>8. \A d \in Plan : Covered(a, d) => Covered(a, d)'
      BY <1>2, <2>1, <2>5 DEF Covered
    <2>9. Covered(a, plan[a])'
      BY <1>2, <2>1, <2>5 DEF Covered, PlansAreCovered
    <2>10. PlansAreCovered(a)'
      BY <2>3, <2>7, <2>8, <2>9 DEF PlansAreCovered
    <2>11. InHandIsOpen'
      <3>1. worker'.at = "evaluate" => c.state = "active"
        BY <2>2, <2>4 DEF Alive
      <3>2. worker'.at = "evaluate" => worker'.seen > 0
        BY <1>1, <2>2
      <3> QED  BY <2>2, <3>1, <3>2 DEF InHandIsOpen
    <2>12. worker'.at \notin {"submit", "store"}
      BY <2>2
    <2> QED  BY <1>2, <2>1, <2>6, <2>10, <2>11, <2>12 DEF ActionsFit, StoredIsOpen
  <1>10. ASSUME NEW r \in Trades, MarketFails(r)
         PROVE  SoldIsCovered(a)'
    <2>1. NextPlan /\ plan' = plan /\ worker.at = "evaluate" /\ worker.trade = {a} /\ exits' = exits
      BY <1>10 DEF MarketFails, Writes, tables, bitget
    <2>2. worker'.at = "next" /\ worker'.trade = {} /\ worker'.todo = worker.todo
      BY <1>1, <2>1, PutAway
    <2>3. \A c \in Plan : CopyOf(a, c)' => CopyOf(a, c)
      BY <2>2 DEF CopyOf
    <2>4. NothingBuilt(a)'
      BY <1>2, <1>6, <2>1 DEF NothingBuilt
    <2>5. \A c \in Plan : CopyOf(a, c) => Covered(a, c)
      BY <2>1 DEF PlansAreCovered
    <2>6. Covered(a, plan[a])'
      BY <1>2, <1>5, <2>1, <2>2 DEF Covered, PlansAreCovered
    <2>7. PlansAreCovered(a)'
      BY <1>5, <2>1, <2>2, <2>3, <2>5, <2>6 DEF PlansAreCovered
    <2> QED  BY <1>4, <2>1, <2>2, <2>4, <2>7 DEF Busy
  <1>11. ASSUME NEW r \in Trades, SubmitFails(r)
         PROVE  SoldIsCovered(a)'
    BY <1>11 DEF SubmitFails, Fails, ExitsAreStored
  <1>12. ASSUME NEW r \in Trades,
                \/ ClosePlan(r) \/ FinalizePlan(r) \/ FinalizeFails(r) \/ StorePlan(r)
                \/ EvaluatePlan(r) /\ NextPlan
         PROVE  SoldIsCovered(a)'
    <2>1. r = a /\ worker.trade = {a} /\ exits' = exits
      BY <1>12 DEF ClosePlan, FinalizePlan, FinalizeFails, StorePlan, EvaluatePlan, Writes, bitget
    <2>2. PICK d \in Plan : /\ plan' = [plan EXCEPT ![a] = d] /\ NextPlan
                            /\ d.hit = worker.copy.hit /\ Outcome(d)
      BY <1>12, <2>1, WritesBack DEF TInv, Written
    <2>3. worker'.at = "next" /\ worker'.trade = {} /\ worker'.todo = worker.todo
      BY <1>1, <2>2, PutAway
    <2>4. \A c \in Plan : ~CopyOf(a, c)'
      BY <1>1, <2>1, <2>3 DEF CopyOf, CInv, TodoNotInHand
    <2>5. plan'[a] = d
      BY <1>1, <2>2
    <2>6. NothingBuilt(a)'
      BY <1>2, <1>6, <2>1 DEF NothingBuilt
    <2>7. CopyOf(a, worker.copy)
      BY <2>1 DEF CopyOf
    <2>8. worker.at # "store" => Covered(a, worker.copy)
      <3>1. worker.at # "submit"
        BY <2>2 DEF Outcome
      <3> QED  BY <1>1, <2>7, <3>1 DEF PlansAreCovered
    <2>9. Covered(a, d)
      <3>1. CASE worker.at = "close"
        BY <2>2, <3>1 DEF Outcome, Covered
      <3>2. CASE worker.at = "finalize"
        <4>1. Unsold(a) /\ worker.copy.hit = {} /\ worker.copy.state = "pending"
          BY <2>8, <3>2 DEF Covered, InHandIsOpen
        <4> QED  BY <2>2, <3>2, <4>1 DEF Outcome, Covered
      <3>3. CASE worker.at = "evaluate"
        <4>1. worker.copy.state = "active" /\ worker.seen > 0 /\ Covered(a, worker.copy)
          BY <2>8, <3>3 DEF InHandIsOpen
        <4> DEFINE qty == CurrentQty(worker.copy, worker.seen)
        <4>2. qty \in Nat /\ qty > 0 /\ exits[a] + qty <= position
          BY <1>1, <3>3, <4>1, QuantityFits
        <4>3. d.state = worker.copy.state /\ d.left \in {worker.copy.left, qty}
          BY <2>2, <3>3 DEF Outcome
        <4> HIDE DEF qty
        <4> QED  BY <2>2, <4>1, <4>2, <4>3 DEF Covered
      <3>4. CASE worker.at = "store"
        <4>1. d.state = worker.copy.state /\ d.left = worker.left
          BY <2>2, <3>4 DEF Outcome
        <4> QED  BY <2>2, <3>4, <4>1 DEF Covered, StoredIsOpen
      <3> QED  BY <2>2, <3>1, <3>2, <3>3, <3>4 DEF Outcome
    <2>10. PlansAreCovered(a)'
      BY <1>2, <1>5, <2>1, <2>3, <2>4, <2>5, <2>9 DEF PlansAreCovered, Covered
    <2> QED  BY <1>4, <2>1, <2>3, <2>6, <2>10 DEF Busy
  <1>13. ASSUME NEW r \in Trades, EvaluatePlan(r), ~NextPlan
         PROVE  SoldIsCovered(a)'
    <2> DEFINE qty == CurrentQty(worker.copy, worker.seen)
               D   == Decision(worker.copy, qty)
    <2>1. /\ worker'.trade = worker.trade /\ worker'.copy = worker.copy
          /\ worker'.at = "submit" /\ worker'.left = qty /\ worker'.actions = D
      BY <1>13, EvaluateDecides DEF TInv
    <2>2. worker.at = "evaluate" /\ worker.trade = {a} /\ exits' = exits
      BY <1>13 DEF EvaluatePlan, Writes, bitget
    <2>3. worker.copy.state = "active" /\ worker.seen > 0
      BY <2>2 DEF InHandIsOpen
    <2>4. Covered(a, worker.copy)
      BY <1>1, <2>2 DEF PlansAreCovered, CopyOf
    <2>5. qty \in Nat /\ exits[a] + qty <= position
      BY <1>1, <2>2, <2>3, <2>4, QuantityFits
    <2> HIDE DEF qty
    <2>6. \/ Len(D) = 1 /\ D[1].target = 0 /\ D[1].qty = qty
          \/ /\ Len(D) <= qty
             /\ \A n \in 1 .. Len(D) : D[n].qty = 1 /\ D[n].target # 0
      <3>1. CASE price = Stop
        <4>1. Len(D) = 1 /\ D[1] = [qty |-> qty, target |-> 0]
          BY <2>5, <3>1, DecisionCloses
        <4> HIDE DEF D
        <4> QED  BY <4>1
      <3>2. CASE price # Stop
        <4>1. /\ Len(D) <= qty
              /\ \A n \in 1 .. Len(D) : D[n].qty = 1 /\ D[n].target \in Targets \ worker.copy.hit
          BY <1>1, <2>5, <3>2, DecisionTakes
        <4> HIDE DEF D
        <4>2. \A t \in Targets : t # 0
          BY SizeAssumption DEF Targets
        <4> QED  BY <4>1, <4>2
      <3> QED  BY <3>1, <3>2
    <2> HIDE DEF D
    <2>7. ActionsFit'
      BY <2>1, <2>6 DEF ActionsFit
    <2>8. InHandIsOpen' /\ StoredIsOpen' /\ PlansAreCovered(a)' /\ NothingBuilt(a)'
      BY <1>2, <1>6, <2>1, <2>2, <2>3 DEF InHandIsOpen, StoredIsOpen, PlansAreCovered, NothingBuilt
    <2> QED  BY <1>2, <2>1, <2>2, <2>5, <2>7, <2>8
  <1>14. ASSUME NEW r \in Trades, SubmitExit(r)
         PROVE  SoldIsCovered(a)'
    <2> DEFINE action == Head(worker.actions)
               n      == Len(worker.actions)
    <2>1. /\ worker.at = "submit" /\ worker.trade = {r} /\ action \in Action
          /\ action = worker.actions[1] /\ n \in Nat \ {0}
          /\ worker'.at = IF n = 1 THEN "store" ELSE "submit"
          /\ worker'.trade = worker.trade
          /\ worker'.actions = Tail(worker.actions)
          /\ worker'.left = IF action.qty > worker.left THEN 0 ELSE worker.left - action.qty
          /\ worker'.copy.state = IF action.target = 0 \/ worker'.left = 0 THEN "closing"
                                  ELSE worker.copy.state
          /\ worker'.copy.hit = Marked(worker.copy, action)
          /\ exits' = [exits EXCEPT ![r] = @ + action.qty]
      BY <1>14, SubmitMarks DEF TInv
    <2>2. r = a /\ worker.actions \in Seq(Action)
      BY <1>1 DEF Work
    <2>3. action.qty \in Nat /\ 1 \in 1 .. n
      BY <2>1 DEF Action
    <2>4. \/ n = 1 /\ action.target = 0 /\ action.qty = worker.left
          \/ /\ n <= worker.left /\ action.qty = 1 /\ action.target # 0
             /\ \A m \in 1 .. n : worker.actions[m].qty = 1 /\ worker.actions[m].target # 0
      BY <2>1, <2>3 DEF ActionsFit
    <2>5. n # 1 => /\ Len(worker'.actions) = n - 1
                   /\ \A m \in 1 .. Len(worker'.actions) :
                        worker'.actions[m] = worker.actions[m + 1] /\ m + 1 \in 1 .. n
      <3>1. n # 1 => /\ Len(worker'.actions) = n - 1
                     /\ \A m \in 1 .. Len(worker'.actions) : worker'.actions[m] = worker.actions[m + 1]
        BY <2>1, <2>2, TailIsLeft
      <3> QED  BY <2>1, <3>1
    <2> HIDE DEF n, action
    <2>6. action.qty <= worker.left /\ worker'.left = worker.left - action.qty
      BY <1>1, <2>1, <2>3, <2>4
    <2>7. exits'[a] = exits[a] + action.qty
      BY <1>1, <2>1, <2>2
    <2>8. exits[a] + worker.left <= position
      BY <2>1
    <2>9. exits'[a] <= position' /\ exits'[a] + worker'.left <= position'
      BY <1>1, <1>2, <2>3, <2>6, <2>7, <2>8
    <2>10. NothingBuilt(a)' /\ PlansAreCovered(a)'
      BY <1>2, <1>6, <2>1, <2>2 DEF NothingBuilt, PlansAreCovered
    <2>11. worker.copy.state \in {"active", "closing"}
      BY <2>1 DEF InHandIsOpen
    <2>12. InHandIsOpen'
      BY <2>1, <2>11 DEF InHandIsOpen
    <2>13. ActionsFit'
      <3>1. worker'.at = "submit" => n # 1
        BY <2>1
      <3>2. n # 1 => n - 1 <= worker'.left
        BY <1>1, <2>1, <2>4, <2>6
      <3> QED  BY <2>4, <2>5, <3>1, <3>2 DEF ActionsFit
    <2>14. StoredIsOpen'
      <3>1. CASE action.target = 0 \/ worker'.left = 0
        BY <2>1, <3>1 DEF StoredIsOpen
      <3>2. CASE action.target # 0 /\ worker'.left # 0
        <4>1. worker'.copy.hit # {}
          BY <2>1, <3>2 DEF Marked
        <4>2. worker'.left > 0
          BY <1>1, <2>3, <2>6, <3>2
        <4> QED  BY <2>1, <2>11, <3>2, <4>1, <4>2 DEF StoredIsOpen
      <3> QED  BY <3>1, <3>2
    <2> QED  BY <2>9, <2>10, <2>12, <2>13, <2>14
  <1> QED
    BY <1>7, <1>8, <1>9, <1>10, <1>11, <1>12, <1>13, <1>14 DEF WorkerStep
(* The sum over one trade: the fold's recursive function is the one that   *)
(* satisfies its equation.                                                 *)
LEMMA SumOfOne ==
  ASSUME NEW a, NEW f \in [{a} -> Nat]
  PROVE  FoldFunction(+, 0, f) = f[a]
  <1> DEFINE step(g, s) == IF s = {} THEN 0
                           ELSE f[CHOOSE x \in s : TRUE] + g[s \ {CHOOSE x \in s : TRUE}]
             iter == CHOOSE g : g = [s \in SUBSET {a} |-> step(g, s)]
             sum  == [s \in SUBSET {a} |-> IF s = {} THEN 0 ELSE f[a]]
  <1>1. FoldFunction(+, 0, f) = iter[{a}]
    <2>1. DOMAIN f = {a}
      OBVIOUS
    <2> QED  BY <2>1, Zenon DEF FoldFunction, FoldFunctionOnSet, MapThenFoldSet
  <1>2. (CHOOSE x \in {a} : TRUE) = a /\ {a} \ {a} = {}
    OBVIOUS
  <1>3. f[a] \in Nat /\ f[a] + 0 = f[a]
    OBVIOUS
  <1>4. sum = [s \in SUBSET {a} |-> step(sum, s)]
    <2>1. \A s \in SUBSET {a} : s = {} \/ s = {a}
      OBVIOUS
    <2>2. \A s \in SUBSET {a} : sum[s] = step(sum, s)
      BY <1>2, <1>3, <2>1
    <2> QED  BY <2>2
  <1>5. iter = [s \in SUBSET {a} |-> step(iter, s)]
    <2> HIDE DEF sum, step
    <2> QED  BY <1>4
  <1>6. iter[{}] = 0 /\ iter[{a}] = f[a] + iter[{}]
    <2> HIDE DEF iter
    <2>1. iter[{}] = step(iter, {}) /\ iter[{a}] = step(iter, {a})
      BY <1>5
    <2> QED  BY <1>2, <2>1
  <1> QED  BY <1>1, <1>3, <1>6

(* The exit orders of one trade never add up to more than the position,    *)
(* however old the snapshot they were sized by: for any size, entry filled *)
(* in parts or cancelled, plan with a price or without, and whatever fails *)
(* but a submission or the worker between a submission and the row; the    *)
(* entry is not replaced.                                                  *)
THEOREM ExitsFitPosition ==
  ASSUME NEW a, Trades = {a}, MaxReplaces = 0, ExitsAreStored
  PROVE  Spec => []ExitsWithinPosition
  <1>1. Init => SoldIsCovered(a)
    <2> SUFFICES ASSUME Init
                 PROVE  SoldIsCovered(a)
      OBVIOUS
    <2>1. worker.at = "idle" /\ worker.todo = {} /\ worker.trade = {}
      BY NoWorkTyped DEF Init
    <2>2. /\ plan[a].state = "none" /\ position = 0 /\ snapshot = 0 /\ feed = <<>>
          /\ exits[a] = 0 /\ builds[a] = 0 /\ request[a].at = "idle"
      BY NoPlanTyped DEF Init
    <2>3. Unsold(a)
      BY <2>1, <2>2 DEF Unsold
    <2>4. NothingBuilt(a) /\ PlansAreCovered(a)
      BY <2>1, <2>2, <2>3 DEF NothingBuilt, PlansAreCovered, Covered, CopyOf
    <2> QED  BY <2>1, <2>2, <2>4 DEF SoldIsCovered, InHandIsOpen, ActionsFit, StoredIsOpen
  <1>2. ASSUME TInv, CInv, SoldIsCovered(a), [Next]_vars
        PROVE  SoldIsCovered(a)'
    <2>1. CASE UNCHANGED vars
      BY <1>2, <2>1
         DEF vars, SoldIsCovered, NothingBuilt, PlansAreCovered, Covered, Unsold, CopyOf,
             InHandIsOpen, ActionsFit, StoredIsOpen
    <2> QED  BY <1>2, <2>1, NextSteps, SoldRequest, SoldWorker, SoldOther
  <1>3. TInv /\ SoldIsCovered(a) => ExitsWithinPosition
    <2> SUFFICES ASSUME TInv, SoldIsCovered(a)
                 PROVE  ExitsWithinPosition
      OBVIOUS
    <2>1. exits \in [{a} -> Nat] /\ exits[a] <= position
      BY DEF TInv, Typing, SoldIsCovered
    <2>2. FoldFunction(+, 0, exits) = exits[a]
      BY <2>1, SumOfOne
    <2> QED  BY <2>1, <2>2 DEF ExitsWithinPosition
  <1> HIDE DEF SoldIsCovered
  <1> QED  BY <1>1, <1>2, <1>3, CopiesHold, PTL DEF Spec
=============================================================================
