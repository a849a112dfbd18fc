--------------------------- MODULE SignalExecution ---------------------------
(***************************************************************************)
(* From a signal_created event to an opening order: the worker thread of   *)
(* the live-broker reads the stream with its consumer group, decides every *)
(* signal (LiveExecutionService.evaluate_intent), stores the decision and  *)
(* acknowledges the message; an operator releases the execution; the order *)
(* service opens an order that names it.                                   *)
(*                                                                         *)
(* The worker asks for new messages only (">") and reads on only when it   *)
(* is through with the last batch, so what it holds is always the interval *)
(* head .. next-1 of the stream.  Redis, the safety latch, survival mode   *)
(* and the paper-broker change on their own.                               *)
(***************************************************************************)
EXTENDS Naturals, Sequences

CONSTANTS
  Signals,         (* signals of the signal-engine                         *)
  Prebound,        (* those that carry an execution id of their own        *)
  Modes,           (* values of EXECUTION_MODE the processes may start in  *)
  Binding,         (* LIVE_REQUIRE_EXECUTION_BINDING                       *)
  ReleaseRequired, (* LIVE_REQUIRE_OPERATOR_RELEASE_FOR_LIVE_OPEN          *)
  MatchRequired,   (* REQUIRE_SHADOW_MATCH_BEFORE_LIVE                     *)
  Batch,           (* messages per read; count=10 in the code              *)
  MaxMessages,     (* bound on the messages published                      *)
  MaxFaults        (* bound on crashes and failures                        *)

ASSUME PreboundAssumption == Prebound \subseteq Signals
ASSUME ModesAssumption    == Modes \subseteq {"paper", "shadow", "live"}
ASSUME SwitchAssumption   == {Binding, ReleaseRequired, MatchRequired} \subseteq BOOLEAN
ASSUME LimitAssumption    == /\ Batch \in Nat \ {0}
                             /\ MaxMessages \in Nat /\ MaxFaults \in Nat

Messages   == 1 .. MaxMessages
Executions == Prebound \cup Messages
Actions    == {"blocked", "shadow", "candidate"}

(* No decision row; no message.                                            *)
NoRow == [action |-> "none", by |-> 0]

VARIABLES
  mode,        (* EXECUTION_MODE of the process                            *)
  stream,      (* events:signal_created: the signal of every message       *)
  next,        (* first message the group has not delivered                *)
  head,        (* message the worker handles, next when it has none        *)
  pending,     (* delivered and not acknowledged                           *)
  deadLetters, (* messages published to the DLQ                            *)
  pc,          (* step of the worker                                       *)
  found,       (* the decision worked out for message head, not yet stored *)
  decision,    (* live.execution_decisions, per execution id               *)
  released,    (* live.execution_operator_releases                         *)
  opened,      (* executions an opening order was submitted for            *)
  paperOpened, (* prebound executions the paper-broker opened: history     *)
  proof,       (* Redis keys shadow:match:<execution id>                   *)
  redis,       (* Redis answers                                            *)
  latch,       (* the safety latch reads as armed                          *)
  survival,    (* the truth state reports survival mode                    *)
  halted,      (* global halt forced in this process                       *)
  faults       (* crashes and failures so far                              *)

workerVars  == <<next, head, pending, deadLetters, pc, found>>
streamVars  == <<mode, stream>>
dbVars      == <<decision, released, opened>>
outsideVars == <<paperOpened, proof, redis, latch, survival>>
vars == <<workerVars, streamVars, dbVars, outsideVars, halted, faults>>

Steps == {"poll", "decide", "await", "store", "ack", "deadLetter", "dropped", "down"}

TypeOK ==
  /\ mode \in Modes
  /\ stream \in Seq(Signals) /\ Len(stream) <= MaxMessages
  /\ next \in 1 .. Len(stream) + 1 /\ head \in 1 .. next
  /\ pending \subseteq 1 .. next - 1 /\ deadLetters \subseteq 1 .. next - 1
  /\ pc \in Steps
  /\ found \in [action : Actions, capped : BOOLEAN]
  /\ decision \in [Executions -> {NoRow} \cup [action : Actions, by : Messages]]
  /\ released \subseteq Executions /\ opened \subseteq Executions
  /\ paperOpened \subseteq Prebound /\ proof \subseteq Prebound
  /\ {redis, latch, survival, halted} \subseteq BOOLEAN
  /\ faults \in 0 .. MaxFaults

NothingFound == [action |-> "blocked", capped |-> FALSE]

Init ==
  /\ mode \in Modes
  /\ stream = <<>> /\ next = 1 /\ head = 1 /\ pending = {} /\ deadLetters = {}
  /\ pc = "poll" /\ found = NothingFound
  /\ decision = [e \in Executions |-> NoRow]
  /\ released = {} /\ opened = {}
  /\ paperOpened = {} /\ proof = {}
  /\ redis = TRUE /\ latch = FALSE /\ survival = FALSE
  /\ halted = FALSE /\ faults = 0

(* parse_prebound_execution_id, or the id gen_random_uuid() gives the row. *)
ExecutionOf(n) == IF stream[n] \in Prebound THEN stream[n] ELSE n

(* Wrong variant: an id a signal carries is as good as a decision.         *)
Announced == {e \in Executions : decision[e] # NoRow} \cup Prebound

Decided == {e \in Executions : decision[e] # NoRow}

Fault == faults < MaxFaults /\ faults' = faults + 1

-----------------------------------------------------------------------------
(* The worker thread *)

(* RedisStreamBus.publish of the signal-engine; a signal may be sent twice *)
(* (dedupe is off by default).                                             *)
Publish(s) ==
  /\ redis /\ Len(stream) < MaxMessages
  /\ stream' = Append(stream, s)
  /\ UNCHANGED <<workerVars, mode, dbVars, outsideVars, halted, faults>>

(* Wrong variant: a batch is always full.                                  *)
FullBatch == next + Batch - 1

BatchEnd == IF next + Batch - 1 < Len(stream) THEN next + Batch - 1 ELSE Len(stream)

(* consume: XREADGROUP with ">".                                           *)
Consume ==
  /\ pc = "poll" /\ redis /\ next <= Len(stream)
  /\ next' = BatchEnd + 1
  /\ pending' = pending \cup (next .. BatchEnd)
  /\ pc' = "decide"
  /\ UNCHANGED <<head, deadLetters, found, streamVars, dbVars, outsideVars, halted, faults>>

(* consume stands outside every try of run_forever: an error ends the      *)
(* thread, and start() is what starts it again.                            *)
ConsumeFails ==
  /\ pc = "poll" /\ ~redis
  /\ pc' = "down"
  /\ UNCHANGED <<next, head, pending, deadLetters, found, streamVars, dbVars, outsideVars,
                 halted, faults>>

(* The loop over the batch goes on to the next item, or reads again.       *)
GoOn ==
  /\ head' = head + 1
  /\ pc' = IF head + 1 = next THEN "poll" ELSE "decide"
  /\ found' = NothingFound

Goto(step) ==
  /\ pc' = step
  /\ UNCHANGED head

(* Wrong variants: the message is acknowledged as if it had been handled;  *)
(* the exception ends the thread.                                          *)
HandlingForgotten  == Goto("ack")
HandlingEndsThread == Goto("down")

(* An exception of handle_signal_event or of the ack: to the DLQ.          *)
HandlingFails == Goto("deadLetter")

(* EXECUTION_MODE=paper: the signal is left to the paper-broker.           *)
SkipInPaperMode ==
  /\ pc = "decide" /\ mode = "paper"
  /\ Goto("ack")
  /\ UNCHANGED <<next, pending, deadLetters, found, streamVars, dbVars, outsideVars, halted, faults>>

(* _assert_db_live_execution_policy raises SecurityException.              *)
PolicyRefuses ==
  /\ pc = "decide" /\ mode = "live"
  /\ HandlingFails
  /\ UNCHANGED <<next, pending, deadLetters, found, streamVars, dbVars, outsideVars, halted, faults>>

(* _intent_under_survival_mode caps the leverage of the intent at 1.       *)
Finds(action) ==
  /\ found' = [action |-> action, capped |-> survival]
  /\ UNCHANGED <<next, pending, deadLetters, streamVars, dbVars, outsideVars, halted>>

(* One of the checks of _decide refuses, or assess_shadow_live_divergence  *)
(* finds a hard violation, or the signal has no execution id to match.     *)
DecideBlocked ==
  /\ pc = "decide" /\ mode # "paper"
  /\ Finds("blocked") /\ Goto("store")
  /\ UNCHANGED faults

(* Shadow trading is on in shadow mode and only there (settings.py:1287).  *)
DecideShadow ==
  /\ pc = "decide" /\ mode = "shadow"
  /\ Finds("shadow") /\ Goto("store")
  /\ UNCHANGED faults

(* safety_latch_is_active answers, or raises and is passed over.           *)
LatchLetsPass == \/ ~latch /\ UNCHANGED faults
                 \/ latch /\ Fault

DecideCandidate ==
  /\ pc = "decide" /\ mode = "live"
  /\ LatchLetsPass
  /\ MatchRequired => stream[head] \in Prebound
  /\ Finds("candidate")
  /\ Goto(IF MatchRequired THEN "await" ELSE "store")

(* wait_for_shadow_match_latch polls the key until its timeout.            *)
MatchSeen ==
  /\ pc = "await" /\ redis /\ ExecutionOf(head) \in proof
  /\ Goto("store")
  /\ UNCHANGED <<next, pending, deadLetters, found, streamVars, dbVars, outsideVars, halted, faults>>

(* Wrong variant: a missed match is reported and changes nothing.          *)
StillCandidate == "candidate"

Unmatched == "blocked"

MatchMissed ==
  /\ pc = "await" /\ ~(redis /\ ExecutionOf(head) \in proof)
  /\ found' = [found EXCEPT !.action = Unmatched]
  /\ Goto("store")
  /\ UNCHANGED <<next, pending, deadLetters, streamVars, dbVars, outsideVars, halted, faults>>

(* What the table accepts: a new execution id, and a leverage its CHECK    *)
(* (7 to 75, or none) lets in.                                             *)
RowAccepted(n) == decision[ExecutionOf(n)] = NoRow /\ ~found.capped

(* record_execution_decision.                                              *)
Store ==
  /\ pc = "store" /\ RowAccepted(head)
  /\ decision' = [decision EXCEPT ![ExecutionOf(head)] = [action |-> found.action, by |-> head]]
  /\ Goto("ack")
  /\ UNCHANGED <<next, pending, deadLetters, found, streamVars, released, opened, outsideVars,
                 halted, faults>>

StoreFails ==
  /\ pc = "store"
  /\ \/ ~RowAccepted(head) /\ UNCHANGED faults
     \/ Fault
  /\ HandlingFails
  /\ UNCHANGED <<next, pending, deadLetters, found, streamVars, dbVars, outsideVars, halted>>

Ack ==
  /\ pc = "ack" /\ redis
  /\ pending' = pending \ {head}
  /\ GoOn
  /\ UNCHANGED <<next, deadLetters, streamVars, dbVars, outsideVars, halted, faults>>

(* The ack is inside the try: the stored decision goes to the DLQ as well. *)
AckFails ==
  /\ pc = "ack" /\ ~redis
  /\ HandlingFails
  /\ UNCHANGED <<next, pending, deadLetters, found, streamVars, dbVars, outsideVars, halted, faults>>

DeadLetter ==
  /\ pc = "deadLetter" /\ redis
  /\ deadLetters' = deadLetters \cup {head}
  /\ Goto("dropped")
  /\ UNCHANGED <<next, pending, found, streamVars, dbVars, outsideVars, halted, faults>>

DropAck ==
  /\ pc = "dropped" /\ redis
  /\ pending' = pending \ {head}
  /\ GoOn
  /\ UNCHANGED <<next, deadLetters, streamVars, dbVars, outsideVars, halted, faults>>

(* publish_dlq, or the ack after it, fails: the message stays pending, and *)
(* nothing reads pending messages.                                         *)
GiveUp ==
  /\ pc \in {"deadLetter", "dropped"} /\ ~redis
  /\ GoOn
  /\ UNCHANGED <<next, pending, deadLetters, streamVars, dbVars, outsideVars, halted, faults>>

(* The process dies; the batch in its memory is gone.                      *)
Crash ==
  /\ pc # "down" /\ Fault
  /\ pc' = "down" /\ UNCHANGED <<head, found>>
  /\ UNCHANGED <<next, pending, deadLetters, streamVars, dbVars, outsideVars, halted>>

Restart ==
  /\ pc = "down" /\ redis
  /\ pc' = "poll" /\ head' = next /\ found' = NothingFound /\ halted' = FALSE
  /\ UNCHANGED <<next, pending, deadLetters, streamVars, dbVars, outsideVars, faults>>

Worker ==
  \/ Consume \/ ConsumeFails \/ SkipInPaperMode \/ PolicyRefuses
  \/ DecideBlocked \/ DecideShadow \/ DecideCandidate \/ MatchSeen \/ MatchMissed
  \/ Store \/ StoreFails \/ Ack \/ AckFails \/ DeadLetter \/ DropAck \/ GiveUp

-----------------------------------------------------------------------------
(* The HTTP handlers *)

(* record_operator_release: any decided execution, as often as asked.      *)
OperatorRelease(e) ==
  /\ e \in Decided
  /\ released' = released \cup {e}
  /\ UNCHANGED <<workerVars, streamVars, decision, opened, outsideVars, halted, faults>>

(* Without these two gates nothing asks for an execution id.               *)
NeedsId == Binding \/ ReleaseRequired

(* Wrong variant: the operator release alone is asked for.                 *)
ReleaseIsEnough(e) == ReleaseRequired => e \in released

(* _assert_live_open_governance, up to the shadow match.                   *)
GovernanceAllows(e) ==
  /\ NeedsId => e \in Decided
  /\ Binding => decision[e].action = "candidate"
  /\ ReleaseRequired => e \in released

Open(e) ==
  /\ pc # "down" /\ ~halted
  /\ GovernanceAllows(e)
  /\ NeedsId /\ MatchRequired => redis /\ e \in proof
  /\ opened' = opened \cup {e}
  /\ UNCHANGED <<workerVars, streamVars, decision, released, outsideVars, halted, faults>>

(* Redis does not answer the check: force_halt_in_process, order refused.  *)
OpenHalts(e) ==
  /\ pc # "down"
  /\ GovernanceAllows(e)
  /\ NeedsId /\ MatchRequired /\ ~redis
  /\ halted' = TRUE
  /\ UNCHANGED <<workerVars, streamVars, dbVars, outsideVars, faults>>

(* A "0" on the halt channel, see GlobalHaltLatch.                         *)
HearRelease ==
  /\ halted /\ redis /\ halted' = FALSE
  /\ UNCHANGED <<workerVars, streamVars, dbVars, outsideVars, faults>>

-----------------------------------------------------------------------------
(* Outside the live-broker *)

(* The paper-broker opens the position of a prebound signal and sets the   *)
(* key; a failure to set it is only logged.                                *)
PaperOpen(s) ==
  /\ s \in Prebound /\ \E n \in DOMAIN stream : stream[n] = s
  /\ paperOpened' = paperOpened \cup {s}
  /\ proof' = IF redis THEN proof \cup {s} ELSE proof
  /\ UNCHANGED <<workerVars, streamVars, dbVars, redis, latch, survival, halted, faults>>

(* The key lives for PAPER_SHADOW_MATCH_REDIS_TTL_SEC.                     *)
ProofExpires(s) ==
  /\ s \in proof
  /\ proof' = proof \ {s}
  /\ UNCHANGED <<workerVars, streamVars, dbVars, paperOpened, redis, latch, survival, halted, faults>>

RedisFails ==
  /\ redis /\ Fault
  /\ redis' = FALSE
  /\ UNCHANGED <<workerVars, streamVars, dbVars, paperOpened, proof, latch, survival, halted>>

RedisRecovers ==
  /\ ~redis /\ redis' = TRUE
  /\ UNCHANGED <<workerVars, streamVars, dbVars, paperOpened, proof, latch, survival, halted, faults>>

MoveLatch ==
  /\ latch' = ~latch
  /\ UNCHANGED <<workerVars, streamVars, dbVars, paperOpened, proof, redis, survival, halted, faults>>

MoveSurvival ==
  /\ survival' = ~survival
  /\ UNCHANGED <<workerVars, streamVars, dbVars, paperOpened, proof, redis, latch, halted, faults>>

Outside ==
  \/ \E s \in Signals : Publish(s) \/ PaperOpen(s) \/ ProofExpires(s)
  \/ RedisFails \/ RedisRecovers \/ MoveLatch \/ MoveSurvival

Handlers == \E e \in Executions : OperatorRelease(e) \/ Open(e) \/ OpenHalts(e)

Next == Worker \/ Crash \/ Restart \/ Handlers \/ HearRelease \/ Outside

Spec == Init /\ [][Next]_vars

(* The worker thread runs on; nobody restarts it, nobody repairs Redis.    *)
FairSpec == Spec /\ WF_vars(Worker)

-----------------------------------------------------------------------------
(* Properties *)

(* An acknowledged message was answered: unless the process leaves signals *)
(* to the paper-broker, its decision is stored or the message lies in the  *)
(* DLQ.  (worker.py acknowledges after handle_signal_event or publish_dlq; *)
(* a crash between two steps must not lose the answer.)                    *)
AckedIsAnswered ==
  \A n \in 1 .. next - 1 :
    n \notin pending /\ mode # "paper" =>
      n \in deadLetters \/ \E e \in Executions : decision[e].by = n

(* An order was opened only for a live candidate, released by an operator  *)
(* and opened on paper before, as far as each gate is switched on; a later *)
(* delivery of the same signal takes none of it back.                      *)
OpenedIsProven ==
  \A e \in opened :
    /\ Binding => decision[e].action = "candidate"
    /\ ReleaseRequired => e \in released /\ e \in Decided
    /\ NeedsId /\ MatchRequired => e \in paperOpened

(* With the shadow match required, a signal becomes a live candidate only  *)
(* after the paper-broker opened the same execution, whatever the latch,   *)
(* Redis and the worker did in between.                                    *)
CandidateWasMatched ==
  MatchRequired =>
    \A e \in Executions : decision[e].action = "candidate" => e \in paperOpened

(* While the process neither crashes nor loses Redis or the database,      *)
(* every signal is decided or dead-lettered in the end.                    *)
Answered(n) ==
  n < next /\ (n \in deadLetters \/ n \notin pending)

SignalIsAnswered ==
  [](faults = 0) => \A n \in Messages : (n <= Len(stream)) ~> Answered(n)

(* With both governance gates on (a configuration switches them), the      *)
(* worker, the handlers, crashes and redeliveries together keep what       *)
(* ReleaseProtocol promises.                                               *)
Protocol == INSTANCE ReleaseProtocol WITH
  verdict <- [e \in Executions |-> decision[e].action]

KeepsProtocol == Protocol!Spec
=============================================================================
