------------------------------ MODULE AlertOutbox ------------------------------
(***************************************************************************)
(* Alerts on their way to Telegram (alert-engine).  The consumer thread    *)
(* turns an event of the bus into one outbox row per listening chat, once  *)
(* per dedupe key; the sender thread claims pending rows and sends them.   *)
(* An administrator may replay an event over HTTP meanwhile.               *)
(*                                                                         *)
(* Every transaction and every call of Telegram is a step.  Chunks of one  *)
(* message, texts and severities are left out, and so are events that      *)
(* raise no alert.                                                         *)
(***************************************************************************)
EXTENDS Naturals, Sequences, FiniteSets

CONSTANTS
  Chats,        (* chats with status "allowed"                             *)
  Keys,         (* dedupe keys                                             *)
  NoKey,        (* an alert without a dedupe key                           *)
  MaxAttempts,  (* TELEGRAM_OUTBOX_MAX_SEND_ATTEMPTS                       *)
  Cap,          (* TELEGRAM_SEND_MAX_PER_MIN_PER_CHAT                      *)
  Limit,        (* rows per claim; 15 in the code                          *)
  Batch,        (* event_batch, messages per read                          *)
  MaxInputs,    (* bound on the events published and replayed              *)
  MaxTroubles   (* bound on mutes, stops, crashes and failed calls         *)

ASSUME KeyAssumption   == NoKey \notin Keys
ASSUME LimitAssumption ==
  /\ {MaxAttempts, Cap, Limit, Batch} \subseteq Nat \ {0}
  /\ {MaxInputs, MaxTroubles} \subseteq Nat

Threads == {"consumer", "replay"}

VARIABLES
  stream,    (* the bus: the key of every event                            *)
  next,      (* first event the group has not delivered                    *)
  head,      (* event the consumer handles, next when it has none          *)
  unacked,   (* delivered and not acknowledged                             *)
  job,       (* per thread: what _process_envelope is at                   *)
  taken,     (* alert.dedupe_keys                                          *)
  window,    (* per key: how often it was taken (history)                  *)
  muted,     (* chats with muted_until in the future                       *)
  rows,      (* alert.alert_outbox, by age                                 *)
  sender,    (* the sender thread: claimed rows to go, and step            *)
  hits,      (* sends of the last minute, per chat                         *)
  calls,     (* per row: sends Telegram refused, and accepted (history)    *)
  running,   (* process: "up", "stopping" or "down"                        *)
  replays, mutes, stops, faults   (* how many of each there were           *)

busVars    == <<stream, next, head, unacked>>
insertVars == <<job, taken, window>>
sendVars   == <<sender, hits, calls>>
envVars    == <<muted, running, replays, mutes, stops>>
vars == <<busVars, insertVars, rows, sendVars, envVars, faults>>

States == {"pending", "sending", "sent", "failed"}

NoJob == [of |-> 0, key |-> NoKey, window |-> 0, todo |-> {}, step |-> "idle"]
Rest  == [batch |-> <<>>, step |-> "idle"]

TypeOK ==
  /\ stream \in Seq(Keys \cup {NoKey}) /\ Len(stream) + replays <= MaxInputs
  /\ next \in 1 .. Len(stream) + 1 /\ head \in 1 .. next
  /\ unacked \subseteq 1 .. next - 1
  /\ \A t \in Threads :
       /\ job[t].of \in 0 .. Len(stream) /\ job[t].key \in Keys \cup {NoKey}
       /\ job[t].todo \subseteq Chats
       /\ job[t].step \in {"idle", "acquire", "list", "insert", "ack"}
  /\ taken \subseteq Keys
  /\ muted \subseteq Chats
  /\ \A r \in DOMAIN rows :
       /\ rows[r].chat \in Chats /\ rows[r].state \in States
       /\ rows[r].attempts \in 0 .. MaxAttempts
       /\ calls[r].refused <= MaxAttempts /\ calls[r].accepted <= 2
  /\ \A i \in DOMAIN sender.batch : rows[sender.batch[i]].state = "sending"
  /\ sender.step \in {"idle", "row", "send", "mark", "requeue"}
  /\ hits \in [Chats -> 0 .. Cap]
  /\ running \in {"up", "stopping", "down"}
  /\ mutes + stops + faults <= MaxTroubles

Init ==
  /\ stream = <<>> /\ next = 1 /\ head = 1 /\ unacked = {}
  /\ job = [t \in Threads |-> NoJob]
  /\ taken = {} /\ window = [k \in Keys |-> 0]
  /\ rows = <<>> /\ calls = <<>>
  /\ sender = Rest /\ hits = [c \in Chats |-> 0]
  /\ muted = {} /\ running = "up"
  /\ replays = 0 /\ mutes = 0 /\ stops = 0 /\ faults = 0

MoreTrouble == mutes + stops + faults < MaxTroubles

Fault == MoreTrouble /\ faults' = faults + 1

MoreInput == Len(stream) + replays < MaxInputs

-----------------------------------------------------------------------------
(* Events become rows: consumer_loop, apply_envelope_admin *)

Publish(k) ==
  /\ MoreInput
  /\ stream' = Append(stream, k)
  /\ UNCHANGED <<next, head, unacked, insertVars, rows, sendVars, envVars, faults>>

Start(n) == [NoJob EXCEPT !.of = n, !.key = stream[n], !.step = "acquire"]

(* XREADGROUP with ">".                                                    *)
Read ==
  /\ running = "up" /\ job["consumer"].step = "idle" /\ next <= Len(stream)
  /\ LET upTo == IF next + Batch <= Len(stream) + 1 THEN next + Batch - 1 ELSE Len(stream)
     IN /\ next' = upTo + 1
        /\ unacked' = unacked \cup (next .. upTo)
  /\ job' = [job EXCEPT !["consumer"] = Start(head)]
  /\ UNCHANGED <<stream, head, taken, window, rows, sendVars, envVars, faults>>

(* POST /admin/replay-event.                                               *)
Replay(k) ==
  /\ running # "down" /\ job["replay"].step = "idle" /\ MoreInput
  /\ job' = [job EXCEPT !["replay"] = [NoJob EXCEPT !.key = k, !.step = "acquire"]]
  /\ replays' = replays + 1
  /\ UNCHANGED <<busVars, taken, window, rows, sendVars, muted, running, mutes, stops, faults>>

(* _process_envelope returns: the consumer acknowledges, in a finally.     *)
Returned(t) ==
  [job EXCEPT ![t] = IF t = "consumer" THEN [@ EXCEPT !.step = "ack", !.todo = {}] ELSE NoJob]

(* Wrong variant: the key keeps nobody out.                                *)
NeverTaken(k) == TRUE

(* try_acquire: one INSERT ... ON CONFLICT DO NOTHING.                     *)
KeyIsFree(k) == k \notin taken

Acquire(t) ==
  LET k == job[t].key
  IN /\ job[t].step = "acquire" /\ k # NoKey /\ KeyIsFree(k)
     /\ taken' = taken \cup {k}
     /\ window' = IF k \in taken THEN window ELSE [window EXCEPT ![k] = @ + 1]
     /\ job' = [job EXCEPT ![t] = [@ EXCEPT !.step = "list", !.window = window'[k]]]
     /\ UNCHANGED <<busVars, rows, sendVars, envVars, faults>>

NeedsNoKey(t) ==
  /\ job[t].step = "acquire" /\ job[t].key = NoKey
  /\ job' = [job EXCEPT ![t].step = "list"]
  /\ UNCHANGED <<busVars, taken, window, rows, sendVars, envVars, faults>>

Duplicate(t) ==
  /\ job[t].step = "acquire" /\ job[t].key # NoKey /\ ~KeyIsFree(job[t].key)
  /\ job' = Returned(t)
  /\ UNCHANGED <<busVars, taken, window, rows, sendVars, envVars, faults>>

(* list_allowed_chat_ids.                                                  *)
Subscribers == Chats \ muted

ListChats(t) ==
  /\ job[t].step = "list"
  /\ job' = IF Subscribers = {} THEN Returned(t)
            ELSE [job EXCEPT ![t] = [@ EXCEPT !.step = "insert", !.todo = Subscribers]]
  /\ UNCHANGED <<busVars, taken, window, rows, sendVars, envVars, faults>>

(* insert_pending for one chat.                                            *)
Insert(t, c) ==
  /\ job[t].step = "insert" /\ c \in job[t].todo
  /\ rows' = Append(rows, [of |-> job[t].of, key |-> job[t].key, window |-> job[t].window,
                           chat |-> c, state |-> "pending", attempts |-> 0])
  /\ calls' = Append(calls, [refused |-> 0, accepted |-> 0])
  /\ LET left == job[t].todo \ {c}
     IN job' = IF left = {} THEN Returned(t) ELSE [job EXCEPT ![t].todo = left]
  /\ UNCHANGED <<busVars, taken, window, sender, hits, envVars, faults>>

(* The database does not answer: logged, and acknowledged all the same.    *)
InsertFails(t) ==
  /\ job[t].step \in {"acquire", "list", "insert"} /\ Fault
  /\ job' = Returned(t)
  /\ UNCHANGED <<busVars, taken, window, rows, sendVars, envVars>>

Ack ==
  /\ job["consumer"].step = "ack"
  /\ unacked' = unacked \ {head}
  /\ head' = head + 1
  /\ job' = [job EXCEPT !["consumer"] = IF head + 1 = next THEN NoJob ELSE Start(head + 1)]
  /\ UNCHANGED <<stream, next, taken, window, rows, sendVars, envVars, faults>>

(* XACK raises out of both loops: what is left of the batch is dropped,    *)
(* and ">" never returns it again.                                         *)
AckFails ==
  /\ job["consumer"].step = "ack" /\ Fault
  /\ head' = next
  /\ job' = [job EXCEPT !["consumer"] = NoJob]
  /\ UNCHANGED <<stream, next, unacked, taken, window, rows, sendVars, envVars>>

(* expires_ts has passed.                                                  *)
KeyExpires(k) ==
  /\ k \in taken
  /\ taken' = taken \ {k}
  /\ UNCHANGED <<busVars, job, window, rows, sendVars, envVars, faults>>

-----------------------------------------------------------------------------
(* Rows become messages: sender_loop *)

Claimable == {r \in DOMAIN rows : rows[r].state = "pending" /\ rows[r].chat \notin muted}

(* ORDER BY created_ts LIMIT n, as a sequence.                             *)
Oldest(S) ==
  LET before(r) == Cardinality({q \in S : q < r})
      n == IF Cardinality(S) < Limit THEN Cardinality(S) ELSE Limit
  IN [i \in 1 .. n |-> CHOOSE r \in S : before(r) = i - 1]

(* Wrong variant: the attempt is not counted.                              *)
NotCounted(n) == n

(* attempt_count + 1; what counts of it is whether MaxAttempts is reached. *)
Counted(n) == IF n < MaxAttempts THEN n + 1 ELSE n

(* claim_pending_for_send, one transaction.                                *)
Claim ==
  /\ running = "up" /\ sender.step = "idle" /\ Claimable # {}
  /\ LET claimed == Oldest(Claimable)
     IN /\ sender' = [batch |-> claimed, step |-> "row"]
        /\ rows' = [r \in DOMAIN rows |->
                      IF \E i \in DOMAIN claimed : claimed[i] = r
                        THEN [rows[r] EXCEPT !.state = "sending", !.attempts = Counted(@)]
                        ELSE rows[r]]
  /\ UNCHANGED <<busVars, insertVars, hits, calls, envVars, faults>>

Row  == Head(sender.batch)
Chat == rows[Row].chat

(* Wrong variant: the loop stays with the row.                             *)
SameRow == sender' = [sender EXCEPT !.step = "row"]

NextRow ==
  sender' = IF Len(sender.batch) = 1 THEN Rest ELSE [batch |-> Tail(sender.batch), step |-> "row"]

(* stop is set: the loop over the batch breaks.                            *)
BreakOff ==
  /\ sender.step = "row" /\ running = "stopping"
  /\ sender' = Rest
  /\ UNCHANGED <<busVars, insertVars, rows, hits, calls, envVars, faults>>

(* Too many messages to this chat in the last minute.                      *)
RateLimited ==
  /\ sender.step = "row" /\ running = "up"
  /\ hits[Chat] = Cap
  /\ rows' = [rows EXCEPT ![Row].state = "pending"]
  /\ NextRow
  /\ UNCHANGED <<busVars, insertVars, hits, calls, envVars, faults>>

Admit ==
  /\ sender.step = "row" /\ running = "up"
  /\ hits[Chat] < Cap
  /\ hits' = [hits EXCEPT ![Chat] = @ + 1]
  /\ sender' = [sender EXCEPT !.step = "send"]
  /\ UNCHANGED <<busVars, insertVars, rows, calls, envVars, faults>>

Accepts == calls' = [calls EXCEPT ![Row].accepted = IF @ < 2 THEN @ + 1 ELSE @]

(* send_message: accepted; accepted without an answer, and then tried      *)
(* again or given up (_post_json); refused.                                *)
Send ==
  /\ sender.step = "send"
  /\ \/ /\ Accepts
        /\ sender' = [sender EXCEPT !.step = "mark"]
        /\ UNCHANGED faults
     \/ /\ Accepts /\ Fault
        /\ \E step \in {"send", "requeue"} : sender' = [sender EXCEPT !.step = step]
     \/ /\ calls' = [calls EXCEPT ![Row].refused = IF @ < MaxAttempts THEN @ + 1 ELSE @]
        /\ sender' = [sender EXCEPT !.step = "requeue"]
        /\ UNCHANGED faults
  /\ UNCHANGED <<busVars, insertVars, rows, hits, envVars>>

(* Wrong variant: an accepted message is sent again.                       *)
StillPending == "pending"

Accepted == "sent"

MarkSent ==
  /\ sender.step = "mark"
  /\ \/ rows' = [rows EXCEPT ![Row].state = Accepted] /\ NextRow /\ UNCHANGED faults
     \/ Fault /\ sender' = [sender EXCEPT !.step = "requeue"] /\ UNCHANGED rows
  /\ UNCHANGED <<busVars, insertVars, hits, calls, envVars>>

(* requeue_send_or_fail.                                                   *)
Requeue ==
  /\ sender.step = "requeue"
  /\ rows' = [rows EXCEPT ![Row].state =
                IF rows[Row].attempts < MaxAttempts THEN "pending" ELSE "failed"]
  /\ NextRow
  /\ UNCHANGED <<busVars, insertVars, hits, calls, envVars, faults>>

(* The database does not answer where nothing catches it: the outer loop   *)
(* forgets the batch.                                                      *)
LoseBatch ==
  /\ \/ sender.step = "row" /\ hits[Chat] = Cap
     \/ sender.step = "requeue"
  /\ Fault
  /\ sender' = Rest
  /\ UNCHANGED <<busVars, insertVars, rows, hits, calls, envVars>>

-----------------------------------------------------------------------------
(* Process, time and chats *)

(* WorkerController.stop sets the event; the process ends when the threads *)
(* are through, or after five seconds.                                     *)
Stop ==
  /\ running = "up" /\ MoreTrouble
  /\ running' = "stopping" /\ stops' = stops + 1
  /\ UNCHANGED <<busVars, insertVars, rows, sendVars, muted, replays, mutes, faults>>

Die ==
  /\ running' = "down"
  /\ job' = [t \in Threads |-> NoJob] /\ head' = next
  /\ sender' = Rest /\ hits' = [c \in Chats |-> 0]
  /\ UNCHANGED <<stream, next, unacked, taken, window, rows, calls, muted, replays, mutes, stops>>

Exit ==
  /\ running = "stopping"
  /\ sender.step = "idle" /\ \A t \in Threads : job[t].step = "idle"
  /\ Die /\ UNCHANGED faults

Crash == running # "down" /\ Fault /\ Die

(* The same consumer group and name: ">" goes on where it stood.           *)
Restart ==
  /\ running = "down" /\ running' = "up"
  /\ UNCHANGED <<busVars, insertVars, rows, sendVars, muted, replays, mutes, stops, faults>>

(* The sends of this chat leave the sliding window of a minute.            *)
MinutePasses(c) ==
  /\ hits[c] > 0
  /\ hits' = [hits EXCEPT ![c] = 0]
  /\ UNCHANGED <<busVars, insertVars, rows, sender, calls, envVars, faults>>

Mute(c) ==
  /\ c \notin muted /\ MoreTrouble
  /\ muted' = muted \cup {c} /\ mutes' = mutes + 1
  /\ UNCHANGED <<busVars, insertVars, rows, sendVars, running, replays, stops, faults>>

Unmute(c) ==
  /\ c \in muted
  /\ muted' = muted \ {c}
  /\ UNCHANGED <<busVars, insertVars, rows, sendVars, running, replays, mutes, stops, faults>>

Consumer == Read \/ Ack \/ AckFails

Process(t) ==
  \/ Acquire(t) \/ NeedsNoKey(t) \/ Duplicate(t) \/ ListChats(t) \/ InsertFails(t)
  \/ \E c \in Chats : Insert(t, c)

Sender == Claim \/ BreakOff \/ RateLimited \/ Admit \/ Send \/ MarkSent \/ Requeue \/ LoseBatch

Next ==
  \/ \E k \in Keys \cup {NoKey} : Publish(k) \/ Replay(k)
  \/ Consumer \/ \E t \in Threads : Process(t)
  \/ Sender
  \/ Stop \/ Exit \/ Crash \/ Restart
  \/ \E k \in Keys : KeyExpires(k)
  \/ \E c \in Chats : MinutePasses(c) \/ Mute(c) \/ Unmute(c)

Spec == Init /\ [][Next]_vars

(* The threads run on, time passes, a mute ends, and the service is        *)
(* started again (restart: unless-stopped).                                *)
Fairness ==
  /\ WF_vars(Consumer \/ Process("consumer")) /\ WF_vars(Process("replay"))
  /\ WF_vars(Sender) /\ WF_vars(Exit) /\ WF_vars(Restart)
  /\ \A c \in Chats : WF_vars(MinutePasses(c)) /\ WF_vars(Unmute(c))

FairSpec == Spec /\ Fairness

-----------------------------------------------------------------------------
(* Properties *)

(* While a dedupe key lives, a chat gets one row for it, although consumer *)
(* and replay interleave, and whatever fails or restarts.                  *)
OneRowPerKey ==
  \A q, r \in DOMAIN rows :
    rows[q].key # NoKey /\ rows[q].key = rows[r].key
      /\ rows[q].window = rows[r].window /\ rows[q].chat = rows[r].chat => q = r

(* Telegram gets a row twice only after something failed, and a row that   *)
(* reads as sent was accepted.                                             *)
DeliveredOnce ==
  \A r \in DOMAIN rows :
    /\ calls[r].accepted > 1 => faults > 0
    /\ rows[r].state = "sent" => calls[r].accepted > 0
    /\ rows[r].state = "failed" /\ faults = 0 => calls[r].accepted = 0

(* docs/alert_engine.md: no row is lost without a final state.             *)
Ended(r) == r \in DOMAIN rows /\ rows[r].state \in {"sent", "failed"}

RowBound == 1 .. MaxInputs * Cardinality(Chats)

EveryRowEnds == \A r \in RowBound : (r \in DOMAIN rows) ~> Ended(r)

(* docs/alert_engine.md: a row fails only after MaxAttempts failed sends.  *)
FailedWasTried ==
  \A r \in DOMAIN rows :
    rows[r].state = "failed" => calls[r].refused + calls[r].accepted >= MaxAttempts

(* While nothing fails, stops or is muted, every event reaches every chat: *)
(* a row for it, or for its key, ends as sent or failed.                   *)
Answers(r, n) ==
  r \in DOMAIN rows /\ (rows[r].of = n \/ (stream[n] # NoKey /\ rows[r].key = stream[n]))

EventIsAnnounced ==
  [](faults = 0 /\ stops = 0 /\ mutes = 0) =>
    \A n \in 1 .. MaxInputs, c \in Chats :
      (n \in DOMAIN stream) ~>
        (n \in DOMAIN stream /\ \E r \in DOMAIN rows :
           rows[r].chat = c /\ Answers(r, n) /\ Ended(r))
=============================================================================
