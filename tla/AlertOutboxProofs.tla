--------------------------- MODULE AlertOutboxProofs ---------------------------
(***************************************************************************)
(* Proofs about AlertOutbox, for any chats, keys and bounds.               *)
(*                                                                         *)
(* OneRowPerKey says nothing of a job that has taken its key and not yet   *)
(* written its rows, and so is not inductive. KInv adds that two such jobs *)
(* never hold the same key within one life of it, that a job which lists   *)
(* the chats has written none of its rows, and that one which inserts      *)
(* still owes only chats without a row.                                    *)
(*                                                                         *)
(* DeliveredOnce says nothing of a row that Telegram has accepted and the  *)
(* sender not yet marked. SInv adds that the sender holds each claimed row *)
(* once and that it still reads "sending" (BatchIsSending), and that until *)
(* something fails the accepted rows are the ones marked and the one about *)
(* to be (AcceptedIsMarked). That a claim takes no row twice is a fact     *)
(* about Oldest, which is a CHOOSE by rank: OldestDiffer.                  *)
(***************************************************************************)
EXTENDS AlertOutbox, FunctionTheorems, FiniteSetTheorems, TLAPS

AnyKey == Keys \cup {NoKey}

JobSet ==
  [of : Nat, key : AnyKey, window : Nat, todo : SUBSET Chats,
   step : {"idle", "acquire", "list", "insert", "ack"}]

RowSet ==
  [of : Nat, key : AnyKey, window : Nat, chat : Chats, state : States, attempts : Nat]

Typing ==
  /\ stream \in Seq(AnyKey)
  /\ next \in 1 .. Len(stream) + 1 /\ head \in 1 .. next
  /\ job \in [Threads -> JobSet]
  /\ window \in [Keys -> Nat]
  /\ rows \in Seq(RowSet)

(* The consumer is through with its batch when it is idle.                 *)
HeadInBatch ==
  /\ job["consumer"].step = "idle" => head = next
  /\ job["consumer"].step # "idle" => head < next

(* t has taken its key and not finished its rows.                          *)
Holds(t) == job[t].step \in {"list", "insert"} /\ job[t].key # NoKey

(* r was written for the key of t, in the same life of that key.           *)
RowOf(r, t) == rows[r].key = job[t].key /\ rows[r].window = job[t].window

WindowsPast ==
  /\ \A r \in 1 .. Len(rows) : rows[r].key # NoKey => rows[r].window <= window[rows[r].key]
  /\ \A t \in Threads : Holds(t) => job[t].window <= window[job[t].key]

HoldersDiffer ==
  \A t, u \in Threads :
    Holds(t) /\ Holds(u) /\ job[t].key = job[u].key /\ job[t].window = job[u].window => t = u

OwedHaveNone ==
  \A t \in Threads, r \in 1 .. Len(rows) :
    Holds(t) /\ RowOf(r, t) => job[t].step = "insert" /\ rows[r].chat \notin job[t].todo

NoDuplicates ==
  \A q, r \in 1 .. Len(rows) :
    rows[q].key # NoKey /\ rows[q].key = rows[r].key
      /\ rows[q].window = rows[r].window /\ rows[q].chat = rows[r].chat => q = r

KInv ==
  Typing /\ HeadInBatch /\ WindowsPast /\ HoldersDiffer /\ OwedHaveNone /\ NoDuplicates

-----------------------------------------------------------------------------
LEMMA Appended ==
  ASSUME NEW S, NEW q \in Seq(S), NEW x \in S
  PROVE  /\ Append(q, x) \in Seq(S) /\ Len(Append(q, x)) = Len(q) + 1 /\ Len(q) \in Nat
         /\ \A n \in 1 .. Len(q) : Append(q, x)[n] = q[n]
         /\ Append(q, x)[Len(q) + 1] = x
  OBVIOUS

(* Sending changes states and attempts of rows only.                       *)
TagsStay ==
  /\ Len(rows') = Len(rows)
  /\ \A r \in 1 .. Len(rows) :
       /\ rows'[r].key = rows[r].key /\ rows'[r].window = rows[r].window
       /\ rows'[r].chat = rows[r].chat

LEMMA StateChanged ==
  ASSUME Typing, NEW r, NEW s \in States, rows' = [rows EXCEPT ![r].state = s]
  PROVE  rows' \in Seq(RowSet) /\ TagsStay
  <1>1. DOMAIN rows = 1 .. Len(rows) /\ Len(rows) \in Nat /\ \A q \in 1 .. Len(rows) : rows[q] \in RowSet
    BY DEF Typing
  <1>2. rows' = [q \in 1 .. Len(rows) |-> IF q = r THEN [rows[r] EXCEPT !.state = s] ELSE rows[q]]
    BY <1>1
  <1>3. \A q \in 1 .. Len(rows) : /\ [rows[q] EXCEPT !.state = s] \in RowSet
                                  /\ [rows[q] EXCEPT !.state = s].key = rows[q].key
                                  /\ [rows[q] EXCEPT !.state = s].window = rows[q].window
                                  /\ [rows[q] EXCEPT !.state = s].chat = rows[q].chat
    BY <1>1 DEF RowSet
  <1>4. rows' \in [1 .. Len(rows) -> RowSet]
    BY <1>1, <1>2, <1>3
  <1>5. rows' \in Seq(RowSet) /\ Len(rows') = Len(rows)
    BY <1>1, <1>4
  <1> QED  BY <1>2, <1>3, <1>5 DEF TagsStay

LEMMA ClaimTyped ==
  ASSUME Typing, Claim
  PROVE  rows' \in Seq(RowSet) /\ TagsStay
  <1>1. DOMAIN rows = 1 .. Len(rows) /\ Len(rows) \in Nat /\ \A q \in 1 .. Len(rows) : rows[q] \in RowSet
    BY DEF Typing
  <1> DEFINE claimed == Oldest(Claimable)
             mine(q) == \E i \in DOMAIN claimed : claimed[i] = q
             new(q) == [rows[q] EXCEPT !.state = "sending", !.attempts = Counted(@)]
  <1>2. rows' = [q \in 1 .. Len(rows) |-> IF mine(q) THEN new(q) ELSE rows[q]]
    BY <1>1 DEF Claim
  <1>3. ASSUME NEW q \in 1 .. Len(rows)
        PROVE  /\ new(q) \in RowSet
               /\ new(q).key = rows[q].key /\ new(q).window = rows[q].window
               /\ new(q).chat = rows[q].chat
    <2>1. Counted(rows[q].attempts) \in Nat
      BY <1>1 DEF Counted, RowSet
    <2> QED  BY <1>1, <2>1 DEF RowSet, States
  <1> HIDE DEF mine, new
  <1>4. rows' \in [1 .. Len(rows) -> RowSet]
    BY <1>1, <1>2, <1>3
  <1>5. rows' \in Seq(RowSet) /\ Len(rows') = Len(rows)
    BY <1>1, <1>4
  <1> QED  BY <1>2, <1>3, <1>5 DEF TagsStay

(* Rows that keep their tags, and jobs that stay or let go of their key.   *)
LEMMA NothingNew ==
  ASSUME KInv, Typing', HeadInBatch', TagsStay, UNCHANGED window,
         \A t \in Threads :
           Holds(t)' => job'[t] = job[t]
  PROVE  KInv'
  <1>1. \A t \in Threads : Holds(t)' => Holds(t) /\ job'[t] = job[t]
    BY DEF Holds
  <1>2. WindowsPast'
    BY <1>1 DEF KInv, WindowsPast, TagsStay, Typing
  <1>3. HoldersDiffer'
    BY <1>1 DEF KInv, HoldersDiffer
  <1>4. OwedHaveNone'
    BY <1>1 DEF KInv, OwedHaveNone, TagsStay, RowOf
  <1>5. NoDuplicates'
    BY DEF KInv, NoDuplicates, TagsStay
  <1> QED  BY <1>2, <1>3, <1>4, <1>5 DEF KInv

-----------------------------------------------------------------------------
(* What the actions do to the jobs keeps them typed *)

LEMMA JobChanges ==
  ASSUME Typing, NEW t \in Threads
  PROVE  /\ Returned(t) \in [Threads -> JobSet]
         /\ Returned(t)[t].step \in {"idle", "ack"}
         /\ t = "consumer" => Returned(t)[t].step = "ack"
         /\ \A u \in Threads \ {t} : Returned(t)[u] = job[u]
  BY DEF Typing, Returned, JobSet, NoJob, AnyKey, Threads

LEMMA Started ==
  ASSUME Typing, NEW n \in 1 .. Len(stream)
  PROVE  Start(n) \in JobSet /\ Start(n).step = "acquire"
  <1>1. stream[n] \in AnyKey /\ n \in Nat
    BY DEF Typing
  <1>2. NoJob \in JobSet
    BY DEF NoJob, JobSet, AnyKey
  <1> QED  BY <1>1, <1>2 DEF Start, JobSet

(* A job that changes from one busy step to another leaves HeadInBatch.    *)
LEMMA HeadStays ==
  ASSUME HeadInBatch, UNCHANGED <<next, head>>,
         job'["consumer"].step = "idle" <=> job["consumer"].step = "idle"
  PROVE  HeadInBatch'
  BY DEF HeadInBatch

LEMMA ReturnedTyped ==
  ASSUME Typing, HeadInBatch, NEW t \in Threads, job[t].step # "idle", job' = Returned(t),
         UNCHANGED <<busVars, window, rows>>
  PROVE  Typing' /\ HeadInBatch'
  <1>1. Typing'
    BY JobChanges DEF Typing, busVars
  <1>2. job'["consumer"].step = "idle" <=> job["consumer"].step = "idle"
    BY JobChanges DEF Threads
  <1> QED  BY <1>1, <1>2, HeadStays DEF busVars

LEMMA ProcessTyped ==
  ASSUME Typing, HeadInBatch, NEW t \in Threads, Process(t)
  PROVE  Typing' /\ HeadInBatch'
  <1>0. job \in [Threads -> JobSet] /\ rows \in Seq(RowSet) /\ job[t] \in JobSet
    BY DEF Typing
  <1>1. CASE Acquire(t)
    <2>1. job[t].key \in Keys
      BY <1>1, <1>0 DEF Acquire, JobSet, AnyKey
    <2>2. window' \in [Keys -> Nat]
      BY <1>1, <2>1 DEF Acquire, Typing
    <2>3. window'[job[t].key] \in Nat
      BY <2>1, <2>2
    <2>4. /\ job' = [job EXCEPT ![t] = [@ EXCEPT !.step = "list", !.window = window'[job[t].key]]]
      BY <1>1, <1>0 DEF Acquire
    <2>5. job' \in [Threads -> JobSet]
      BY <1>0, <2>3, <2>4 DEF JobSet
    <2>6. job'["consumer"].step = "idle" <=> job["consumer"].step = "idle"
      BY <1>1, <1>0, <2>4 DEF Acquire, Threads, JobSet
    <2> QED  BY <1>1, <2>2, <2>5, <2>6, HeadStays DEF Acquire, Typing, busVars
  <1>2. CASE NeedsNoKey(t)
    <2>1. job' = [job EXCEPT ![t] = [@ EXCEPT !.step = "list"]]
      BY <1>2, <1>0 DEF NeedsNoKey
    <2>2. job' \in [Threads -> JobSet]
      BY <1>0, <2>1 DEF JobSet
    <2>3. job'["consumer"].step = "idle" <=> job["consumer"].step = "idle"
      BY <1>2, <1>0, <2>1 DEF NeedsNoKey, Threads, JobSet
    <2> QED  BY <1>2, <2>2, <2>3, HeadStays DEF NeedsNoKey, Typing, busVars
  <1>3. CASE Duplicate(t)
    BY <1>3, ReturnedTyped DEF Duplicate, busVars
  <1>4. CASE ListChats(t)
    <2>1. CASE Subscribers = {}
      BY <1>4, <2>1, ReturnedTyped DEF ListChats, busVars
    <2>2. CASE Subscribers # {}
      <3>1. job' = [job EXCEPT ![t] = [@ EXCEPT !.step = "insert", !.todo = Subscribers]]
        BY <1>4, <2>2, <1>0 DEF ListChats
      <3>2. job' \in [Threads -> JobSet]
        BY <1>0, <3>1 DEF JobSet, Subscribers
      <3>3. job'["consumer"].step = "idle" <=> job["consumer"].step = "idle"
        BY <1>4, <1>0, <3>1 DEF ListChats, Threads, JobSet
      <3> QED  BY <1>4, <3>2, <3>3, HeadStays DEF ListChats, Typing, busVars
    <2> QED  BY <2>1, <2>2
  <1>5. CASE InsertFails(t)
    BY <1>5, ReturnedTyped DEF InsertFails, busVars
  <1>6. ASSUME NEW c \in Chats, Insert(t, c)
        PROVE  Typing' /\ HeadInBatch'
    <2> DEFINE row == [of |-> job[t].of, key |-> job[t].key, window |-> job[t].window,
                       chat |-> c, state |-> "pending", attempts |-> 0]
               left == job[t].todo \ {c}
    <2>1. rows' = Append(rows, row)
      BY <1>6 DEF Insert
    <2>2. row \in RowSet
      BY <1>0, <1>6 DEF JobSet, RowSet, States
    <2> HIDE DEF row
    <2>3. rows' \in Seq(RowSet)
      BY <1>0, <2>1, <2>2
    <2>4. job' = Returned(t) \/ job' = [job EXCEPT ![t] = [@ EXCEPT !.todo = left]]
      BY <1>6, <1>0 DEF Insert
    <2>5. CASE job' = Returned(t)
      <3>1. job' \in [Threads -> JobSet]
        BY <2>5, JobChanges
      <3>2. job'["consumer"].step = "idle" <=> job["consumer"].step = "idle"
        BY <1>6, <2>5, JobChanges DEF Threads, Insert
      <3> QED  BY <1>6, <2>3, <3>1, <3>2, HeadStays DEF Insert, Typing, busVars
    <2>6. CASE job' = [job EXCEPT ![t] = [@ EXCEPT !.todo = left]]
      <3>1. job' \in [Threads -> JobSet]
        BY <1>0, <2>6 DEF JobSet
      <3>2. job'["consumer"].step = "idle" <=> job["consumer"].step = "idle"
        BY <1>0, <2>6 DEF Threads, JobSet
      <3> QED  BY <1>6, <2>3, <3>1, <3>2, HeadStays DEF Insert, Typing, busVars
    <2> QED  BY <2>4, <2>5, <2>6
  <1> QED  BY <1>1, <1>2, <1>3, <1>4, <1>5, <1>6 DEF Process

LEMMA IdleTyped ==
  NoJob \in JobSet /\ NoJob.step = "idle"
  BY DEF NoJob, JobSet, AnyKey

LEMMA ConsumerTyped ==
  ASSUME Typing, HeadInBatch, Consumer
  PROVE  Typing' /\ HeadInBatch'
  <1>0. /\ job \in [Threads -> JobSet] /\ Len(stream) \in Nat
        /\ next \in 1 .. Len(stream) + 1 /\ head \in 1 .. next /\ "consumer" \in Threads
    BY DEF Typing, Threads
  <1>1. CASE Read
    <2> DEFINE upTo == IF next + Batch <= Len(stream) + 1 THEN next + Batch - 1 ELSE Len(stream)
    <2>1. head = next /\ next <= Len(stream)
      BY <1>1 DEF Read, HeadInBatch
    <2>2. next' = upTo + 1 /\ UNCHANGED <<head, stream, window, rows>>
      BY <1>1 DEF Read
    <2>3. upTo \in next .. Len(stream)
      BY <1>0, <2>1, LimitAssumption
    <2> HIDE DEF upTo
    <2>4. next' \in 1 .. Len(stream)' + 1 /\ head' \in 1 .. next' /\ head' < next'
      BY <1>0, <2>1, <2>2, <2>3
    <2>5. Start(head) \in JobSet /\ Start(head).step = "acquire"
      BY <1>0, <2>1, Started
    <2>6. job' \in [Threads -> JobSet] /\ job'["consumer"].step = "acquire"
      BY <1>0, <1>1, <2>5 DEF Read
    <2> QED  BY <2>2, <2>4, <2>6 DEF Typing, HeadInBatch
  <1>2. CASE Ack
    <2>1. head < next
      BY <1>2 DEF Ack, HeadInBatch
    <2>2. CASE head + 1 = next
      <3>1. job' = [job EXCEPT !["consumer"] = NoJob]
        BY <1>2, <2>2 DEF Ack
      <3>2. job' \in [Threads -> JobSet] /\ job'["consumer"].step = "idle"
        BY <1>0, <3>1, IdleTyped
      <3> QED  BY <1>0, <1>2, <2>1, <2>2, <3>2 DEF Ack, Typing, HeadInBatch
    <2>3. CASE head + 1 # next
      <3>1. job' = [job EXCEPT !["consumer"] = Start(head + 1)]
        BY <1>2, <2>3 DEF Ack
      <3>2. head + 1 \in 1 .. Len(stream) /\ head + 1 < next
        BY <1>0, <2>1, <2>3
      <3>3. Start(head + 1) \in JobSet /\ Start(head + 1).step = "acquire"
        BY <3>2, Started
      <3>4. job' \in [Threads -> JobSet] /\ job'["consumer"].step = "acquire"
        BY <1>0, <3>1, <3>3
      <3> QED  BY <1>0, <1>2, <3>2, <3>4 DEF Ack, Typing, HeadInBatch
    <2> QED  BY <2>2, <2>3
  <1>3. CASE AckFails
    <2>1. job' \in [Threads -> JobSet] /\ job'["consumer"].step = "idle"
      BY <1>0, <1>3, IdleTyped DEF AckFails
    <2> QED  BY <1>0, <1>3, <2>1 DEF AckFails, Typing, HeadInBatch
  <1> QED  BY <1>1, <1>2, <1>3 DEF Consumer

(* The sender touches the rows only, and their states and attempts only.   *)
LEMMA SenderTyped ==
  ASSUME Typing, HeadInBatch, Sender
  PROVE  Typing' /\ HeadInBatch' /\ TagsStay
  <1>1. UNCHANGED <<busVars, insertVars>>
    BY DEF Sender, Claim, BreakOff, RateLimited, Admit, Send, MarkSent, Requeue, LoseBatch
  <1>2. rows' = rows \/ Claim \/ \E s \in States : rows' = [rows EXCEPT ![Row].state = s]
    BY DEF Sender, BreakOff, RateLimited, Admit, Send, MarkSent, Requeue, LoseBatch, Accepted, States
  <1>3. rows' \in Seq(RowSet) /\ TagsStay
    <2>1. CASE rows' = rows
      BY <2>1 DEF Typing, TagsStay
    <2>2. CASE Claim
      BY <2>2, ClaimTyped
    <2>3. ASSUME NEW s \in States, rows' = [rows EXCEPT ![Row].state = s]
          PROVE  rows' \in Seq(RowSet) /\ TagsStay
      BY <2>3, StateChanged
    <2> QED  BY <1>2, <2>1, <2>2, <2>3
  <1> QED  BY <1>1, <1>3 DEF Typing, HeadInBatch, busVars, insertVars

LEMMA OthersTyped ==
  ASSUME Typing, HeadInBatch,
         \/ \E k \in AnyKey : Publish(k) \/ Replay(k)
         \/ Stop \/ Exit \/ Crash \/ Restart
         \/ \E k \in Keys : KeyExpires(k)
         \/ \E c \in Chats : MinutePasses(c) \/ Mute(c) \/ Unmute(c)
  PROVE  /\ Typing' /\ HeadInBatch' /\ TagsStay /\ UNCHANGED window
         /\ \A t \in Threads : job'[t] = job[t] \/ job'[t].step \in {"idle", "acquire"}
  <1>0. /\ job \in [Threads -> JobSet] /\ Len(stream) \in Nat
        /\ next \in 1 .. Len(stream) + 1 /\ head \in 1 .. next
    BY DEF Typing
  <1>1. ASSUME NEW k \in AnyKey, Publish(k)
        PROVE  /\ Typing' /\ HeadInBatch' /\ TagsStay /\ UNCHANGED <<window, job>>
    <2>1. stream' \in Seq(AnyKey) /\ Len(stream') = Len(stream) + 1
      BY <1>1 DEF Publish, Typing
    <2> QED  BY <1>0, <1>1, <2>1 DEF Publish, Typing, HeadInBatch, TagsStay, insertVars
  <1>2. ASSUME NEW k \in AnyKey, Replay(k)
        PROVE  /\ Typing' /\ HeadInBatch' /\ TagsStay /\ UNCHANGED window
               /\ \A t \in Threads : job'[t] = job[t] \/ job'[t].step \in {"idle", "acquire"}
    <2> DEFINE new == [NoJob EXCEPT !.key = k, !.step = "acquire"]
    <2>1. new \in JobSet /\ new.step = "acquire"
      BY IdleTyped DEF JobSet
    <2>2. job' = [job EXCEPT !["replay"] = new]
      BY <1>2 DEF Replay
    <2> HIDE DEF new
    <2>3. job' \in [Threads -> JobSet] /\ job'["consumer"] = job["consumer"]
      BY <1>0, <2>1, <2>2 DEF Threads
    <2> QED  BY <1>0, <1>2, <2>1, <2>2, <2>3 DEF Replay, Typing, HeadInBatch, TagsStay, busVars
  <1>3. ASSUME Die
        PROVE  /\ Typing' /\ HeadInBatch' /\ TagsStay /\ UNCHANGED window
               /\ \A t \in Threads : job'[t].step = "idle"
    <2>1. job' \in [Threads -> JobSet] /\ \A t \in Threads : job'[t].step = "idle"
      BY <1>3, IdleTyped DEF Die
    <2> QED  BY <1>0, <1>3, <2>1 DEF Die, Typing, HeadInBatch, TagsStay, Threads
  <1>4. CASE \/ Stop \/ Restart \/ \E k \in Keys : KeyExpires(k)
             \/ \E c \in Chats : MinutePasses(c) \/ Mute(c) \/ Unmute(c)
    <2>1. UNCHANGED <<busVars, job, window, rows>>
      BY <1>4 DEF Stop, Restart, KeyExpires, MinutePasses, Mute, Unmute, insertVars
    <2> QED  BY <2>1 DEF Typing, HeadInBatch, TagsStay, busVars
  <1>5. CASE Exit \/ Crash
    BY <1>3, <1>5 DEF Exit, Crash
  <1> QED  BY <1>1, <1>2, <1>4, <1>5

-----------------------------------------------------------------------------
(* KInv is inductive *)

(* A new life of the key: its number is above every number given out.      *)
LEMMA AcquireKeeps ==
  ASSUME KInv, Typing', HeadInBatch', NEW t \in Threads, Acquire(t)
  PROVE  KInv'
  <1> DEFINE k == job[t].key
  <1>0. /\ job \in [Threads -> JobSet] /\ window \in [Keys -> Nat] /\ k \in Keys /\ k # NoKey
        /\ Len(rows) \in Nat /\ \A r \in 1 .. Len(rows) : rows[r] \in RowSet
    BY DEF KInv, Typing, Acquire, JobSet, AnyKey
  <1>1. window' = [window EXCEPT ![k] = window[k] + 1] /\ UNCHANGED rows
    BY DEF Acquire, KeyIsFree
  <1>2. /\ window'[k] = window[k] + 1
        /\ \A l \in Keys : window[l] \in Nat /\ window'[l] \in Nat /\ window[l] <= window'[l]
    BY <1>0, <1>1
  <1>3. job' = [job EXCEPT ![t] = [@ EXCEPT !.step = "list", !.window = window'[k]]]
    BY DEF Acquire
  <1>4. /\ job'[t].key = k /\ job'[t].window = window[k] + 1 /\ job'[t].step = "list"
        /\ \A u \in Threads \ {t} : job'[u] = job[u]
    BY <1>0, <1>2, <1>3 DEF JobSet
  <1>5. \A u \in Threads \ {t} : Holds(u)' => Holds(u)
    BY <1>4 DEF Holds
  <1>6. \A u \in Threads : Holds(u) => job[u].key \in Keys /\ job[u].window <= window[job[u].key]
    BY <1>0 DEF KInv, WindowsPast, Holds, JobSet, AnyKey
  <1>7. \A r \in 1 .. Len(rows) :
          rows[r].key # NoKey => rows[r].key \in Keys /\ rows[r].window <= window[rows[r].key]
    BY <1>0 DEF KInv, WindowsPast, RowSet, AnyKey
  <1>8. /\ \A u \in Threads : job[u].window \in Nat
        /\ \A r \in 1 .. Len(rows) : rows[r].window \in Nat
    BY <1>0 DEF JobSet, RowSet
  <1> HIDE DEF k
  <1>9. WindowsPast'
    <2>1. ASSUME NEW r \in 1 .. Len(rows), rows[r].key # NoKey
          PROVE  rows[r].window <= window'[rows[r].key]
      BY <1>2, <1>7, <1>8, <2>1, <1>0
    <2>2. ASSUME NEW u \in Threads, Holds(u)'
          PROVE  job'[u].window <= window'[job'[u].key]
      <3>1. CASE u = t
        BY <3>1, <1>2, <1>4, <1>0
      <3>2. CASE u # t
        BY <3>2, <2>2, <1>2, <1>4, <1>5, <1>6, <1>8
      <3> QED  BY <3>1, <3>2
    <2> QED  BY <1>1, <2>1, <2>2 DEF WindowsPast
  <1>10. HoldersDiffer'
    <2>1. ASSUME NEW u \in Threads \ {t}, Holds(u)', job'[u].key = k
          PROVE  job'[u].window # window[k] + 1
      BY <2>1, <1>0, <1>4, <1>5, <1>6, <1>8
    <2> QED  BY <1>4, <1>5, <2>1 DEF KInv, HoldersDiffer
  <1>11. OwedHaveNone'
    <2>1. ASSUME NEW r \in 1 .. Len(rows)
          PROVE  ~ RowOf(r, t)'
      BY <1>0, <1>1, <1>4, <1>7, <1>8 DEF RowOf
    <2>2. ASSUME NEW u \in Threads \ {t}, NEW r \in 1 .. Len(rows), Holds(u)', RowOf(r, u)'
          PROVE  job'[u].step = "insert" /\ rows'[r].chat \notin job'[u].todo
      BY <1>1, <1>4, <1>5, <2>2 DEF KInv, OwedHaveNone, RowOf
    <2> QED  BY <1>1, <2>1, <2>2 DEF OwedHaveNone
  <1>12. NoDuplicates'
    BY <1>1 DEF KInv, NoDuplicates
  <1> QED  BY <1>9, <1>10, <1>11, <1>12 DEF KInv

(* The job that lists the chats has no row yet, so it owes every one.      *)
LEMMA ListKeeps ==
  ASSUME KInv, Typing', HeadInBatch', NEW t \in Threads, ListChats(t), Subscribers # {}
  PROVE  KInv'
  <1>0. job \in [Threads -> JobSet] /\ Len(rows) \in Nat
    BY DEF KInv, Typing
  <1>1. job' = [job EXCEPT ![t] = [@ EXCEPT !.step = "insert", !.todo = Subscribers]]
        /\ job[t].step = "list" /\ UNCHANGED <<window, rows>>
    BY DEF ListChats
  <1>2. /\ job'[t].key = job[t].key /\ job'[t].window = job[t].window /\ job'[t].step = "insert"
        /\ \A u \in Threads \ {t} : job'[u] = job[u]
    BY <1>0, <1>1 DEF JobSet
  <1>3. \A u \in Threads : /\ Holds(u)' <=> Holds(u)
                           /\ job'[u].key = job[u].key /\ job'[u].window = job[u].window
    BY <1>1, <1>2 DEF Holds
  <1>4. WindowsPast'
    BY <1>1, <1>3 DEF KInv, WindowsPast
  <1>5. HoldersDiffer'
    BY <1>3 DEF KInv, HoldersDiffer
  <1>6. OwedHaveNone'
    <2>1. ASSUME NEW u \in Threads, NEW r \in 1 .. Len(rows), Holds(u)', RowOf(r, u)'
          PROVE  job'[u].step = "insert" /\ rows'[r].chat \notin job'[u].todo
      <3>1. Holds(u) /\ RowOf(r, u)
        BY <1>1, <1>3, <2>1 DEF RowOf
      <3>2. job[u].step = "insert" /\ rows[r].chat \notin job[u].todo
        BY <3>1 DEF KInv, OwedHaveNone
      <3>3. u # t
        BY <1>1, <3>2
      <3> QED  BY <1>1, <1>2, <3>2, <3>3
    <2> QED  BY <1>1, <2>1 DEF OwedHaveNone
  <1>7. NoDuplicates'
    BY <1>1 DEF KInv, NoDuplicates
  <1> QED  BY <1>4, <1>5, <1>6, <1>7 DEF KInv

(* The chat was owed: it has no row of this key yet, and is owed no more.  *)
LEMMA InsertKeeps ==
  ASSUME KInv, Typing', HeadInBatch', NEW t \in Threads, NEW c \in Chats, Insert(t, c)
  PROVE  KInv'
  <1> DEFINE n == Len(rows) + 1
             row == [of |-> job[t].of, key |-> job[t].key, window |-> job[t].window,
                     chat |-> c, state |-> "pending", attempts |-> 0]
  <1>0. job \in [Threads -> JobSet] /\ rows \in Seq(RowSet) /\ Len(rows) \in Nat /\ n \in Nat
    BY DEF KInv, Typing
  <1>1. /\ job[t].step = "insert" /\ c \in job[t].todo /\ UNCHANGED window
        /\ rows' = Append(rows, row)
    BY DEF Insert
  <1>2. /\ row \in RowSet
        /\ row.key = job[t].key /\ row.window = job[t].window /\ row.chat = c
    BY <1>0, <1>1 DEF JobSet, RowSet, States
  <1> HIDE DEF row
  <1>3. /\ Len(rows') = n /\ rows'[n] = row
        /\ \A r \in 1 .. Len(rows) : rows'[r] = rows[r]
    BY <1>0, <1>1, <1>2, Appended
  <1>4. \A r \in 1 .. n : r = n \/ r \in 1 .. Len(rows)
    BY <1>0
  <1> HIDE DEF n
  <1>5. /\ \A u \in Threads \ {t} : job'[u] = job[u]
        /\ Holds(t)' => /\ job'[t].key = job[t].key /\ job'[t].window = job[t].window
                        /\ job'[t].step = "insert" /\ job'[t].todo = job[t].todo \ {c}
    <2>1. job' = Returned(t) \/ job' = [job EXCEPT ![t] = [@ EXCEPT !.todo = job[t].todo \ {c}]]
      BY <1>0 DEF Insert
    <2>2. CASE job' = Returned(t)
      BY <2>2, JobChanges DEF KInv, Holds
    <2>3. CASE job' = [job EXCEPT ![t] = [@ EXCEPT !.todo = job[t].todo \ {c}]]
      BY <1>0, <1>1, <2>3 DEF JobSet
    <2> QED  BY <2>1, <2>2, <2>3
  <1>6. \A u \in Threads : Holds(u)' => /\ Holds(u) /\ job'[u].key = job[u].key
                                        /\ job'[u].window = job[u].window
    <2>1. ASSUME NEW u \in Threads, Holds(u)'
          PROVE  Holds(u) /\ job'[u].key = job[u].key /\ job'[u].window = job[u].window
      <3>1. CASE u = t
        BY <1>1, <1>5, <2>1, <3>1 DEF Holds
      <3>2. CASE u # t
        BY <1>5, <2>1, <3>2 DEF Holds
      <3> QED  BY <3>1, <3>2
    <2> QED  BY <2>1
  <1>7. job[t].key # NoKey => Holds(t)
    BY <1>1 DEF Holds
  <1>8. WindowsPast'
    <2>1. ASSUME NEW r \in 1 .. n, rows'[r].key # NoKey
          PROVE  rows'[r].window <= window[rows'[r].key]
      <3>1. CASE r = n
        BY <3>1, <2>1, <1>2, <1>3, <1>7 DEF KInv, WindowsPast
      <3>2. CASE r # n
        BY <3>2, <2>1, <1>3, <1>4 DEF KInv, WindowsPast
      <3> QED  BY <3>1, <3>2
    <2>2. \A u \in Threads : Holds(u)' => job'[u].window <= window[job'[u].key]
      BY <1>6 DEF KInv, WindowsPast
    <2> QED  BY <1>1, <1>3, <2>1, <2>2 DEF WindowsPast
  <1>9. HoldersDiffer'
    BY <1>6 DEF KInv, HoldersDiffer
  <1>10. OwedHaveNone'
    <2>1. ASSUME NEW u \in Threads, NEW r \in 1 .. n, Holds(u)', RowOf(r, u)'
          PROVE  job'[u].step = "insert" /\ rows'[r].chat \notin job'[u].todo
      <3>1. CASE r = n
        <4>1. row.key = job[u].key /\ row.window = job[u].window /\ Holds(u)
          BY <1>3, <1>6, <2>1, <3>1 DEF RowOf
        <4>2. u = t
          BY <4>1, <1>2, <1>7 DEF KInv, HoldersDiffer, Holds
        <4> QED  BY <4>2, <1>2, <1>3, <1>5, <2>1, <3>1
      <3>2. CASE r # n
        <4>1. Holds(u) /\ RowOf(r, u) /\ r \in 1 .. Len(rows)
          BY <1>3, <1>4, <1>6, <2>1, <3>2 DEF RowOf
        <4>2. job[u].step = "insert" /\ rows[r].chat \notin job[u].todo
          BY <4>1 DEF KInv, OwedHaveNone
        <4>3. CASE u = t
          BY <4>1, <4>2, <4>3, <1>3, <1>5, <2>1
        <4>4. CASE u # t
          BY <4>1, <4>2, <4>4, <1>3, <1>5
        <4> QED  BY <4>3, <4>4
      <3> QED  BY <3>1, <3>2
    <2> QED  BY <1>3, <2>1 DEF OwedHaveNone
  <1>11. NoDuplicates'
    <2>1. ASSUME NEW r \in 1 .. Len(rows), row.key # NoKey, rows[r].key = row.key,
                 rows[r].window = row.window, rows[r].chat = c
          PROVE  FALSE
      <3>1. Holds(t) /\ RowOf(r, t)
        BY <1>2, <1>7, <2>1 DEF RowOf
      <3> QED  BY <3>1, <1>1, <2>1 DEF KInv, OwedHaveNone
    <2>2. ASSUME NEW q \in 1 .. n, NEW r \in 1 .. n,
                 rows'[q].key # NoKey, rows'[q].key = rows'[r].key,
                 rows'[q].window = rows'[r].window, rows'[q].chat = rows'[r].chat
          PROVE  q = r
      <3>1. CASE q \in 1 .. Len(rows) /\ r \in 1 .. Len(rows)
        BY <1>3, <2>2, <3>1 DEF KInv, NoDuplicates
      <3>2. CASE q = n /\ r \in 1 .. Len(rows)
        BY <1>2, <1>3, <2>1, <2>2, <3>2
      <3>3. CASE r = n /\ q \in 1 .. Len(rows)
        BY <1>2, <1>3, <2>1, <2>2, <3>3
      <3> QED  BY <1>4, <3>1, <3>2, <3>3
    <2> QED  BY <1>3, <2>2 DEF NoDuplicates
  <1> QED  BY <1>8, <1>9, <1>10, <1>11 DEF KInv

LEMMA ProcessKeeps ==
  ASSUME KInv, NEW t \in Threads, Process(t)
  PROVE  KInv'
  <1>0. /\ Typing' /\ HeadInBatch' /\ job \in [Threads -> JobSet] /\ Typing
    BY ProcessTyped DEF KInv, Typing
  <1>1. ASSUME job' = Returned(t), UNCHANGED <<window, rows>>
        PROVE  KInv'
    <2>1. \A u \in Threads : Holds(u)' => job'[u] = job[u]
      BY <1>0, <1>1, JobChanges DEF Holds
    <2> QED  BY <1>0, <1>1, <2>1, NothingNew DEF TagsStay
  <1>2. CASE Acquire(t)
    BY <1>0, <1>2, AcquireKeeps
  <1>3. CASE NeedsNoKey(t)
    <2>1. job' = [job EXCEPT ![t] = [@ EXCEPT !.step = "list"]] /\ job[t].key = NoKey
      BY <1>3, <1>0 DEF NeedsNoKey
    <2>2. job'[t].key = NoKey /\ \A u \in Threads \ {t} : job'[u] = job[u]
      BY <1>0, <2>1 DEF JobSet
    <2>3. \A u \in Threads : Holds(u)' => job'[u] = job[u]
      BY <2>2 DEF Holds
    <2> QED  BY <1>0, <1>3, <2>3, NothingNew DEF NeedsNoKey, TagsStay
  <1>4. CASE Duplicate(t)
    BY <1>1, <1>4 DEF Duplicate
  <1>5. CASE ListChats(t)
    <2>1. CASE Subscribers = {}
      BY <1>1, <1>5, <2>1 DEF ListChats
    <2>2. CASE Subscribers # {}
      BY <1>0, <1>5, <2>2, ListKeeps
    <2> QED  BY <2>1, <2>2
  <1>6. CASE InsertFails(t)
    BY <1>1, <1>6 DEF InsertFails
  <1>7. ASSUME NEW c \in Chats, Insert(t, c)
        PROVE  KInv'
    BY <1>0, <1>7, InsertKeeps
  <1> QED  BY <1>2, <1>3, <1>4, <1>5, <1>6, <1>7 DEF Process

LEMMA StepHolds == KInv /\ [Next]_vars => KInv'
  <1> SUFFICES ASSUME KInv, [Next]_vars
               PROVE  KInv'
    OBVIOUS
  <1>0. Typing /\ HeadInBatch
    BY DEF KInv
  <1>1. CASE \E t \in Threads : Process(t)
    BY <1>1, ProcessKeeps
  <1>2. CASE Consumer
    <2>1. Typing' /\ HeadInBatch'
      BY <1>0, <1>2, ConsumerTyped
    <2>2. UNCHANGED <<window, rows>>
      BY <1>2 DEF Consumer, Read, Ack, AckFails
    <2>3. job'["consumer"].step \in {"idle", "acquire"} /\ job'["replay"] = job["replay"]
      <3>1. job \in [Threads -> JobSet] /\ Len(stream) \in Nat
        BY <1>0 DEF Typing
      <3>2. PICK n : \/ job' = [job EXCEPT !["consumer"] = NoJob]
                     \/ job' = [job EXCEPT !["consumer"] = Start(n)]
        BY <1>2 DEF Consumer, Read, Ack, AckFails
      <3>3. NoJob.step = "idle" /\ Start(n).step = "acquire"
        BY DEF Start, NoJob
      <3> QED  BY <3>1, <3>2, <3>3 DEF Threads
    <2>4. \A t \in Threads : Holds(t)' => job'[t] = job[t]
      BY <2>3 DEF Holds, Threads
    <2> QED  BY <2>1, <2>2, <2>4, NothingNew DEF TagsStay
  <1>3. CASE Sender
    <2>1. Typing' /\ HeadInBatch' /\ TagsStay
      BY <1>0, <1>3, SenderTyped
    <2>2. UNCHANGED <<window, job>>
      BY <1>3 DEF Sender, Claim, BreakOff, RateLimited, Admit, Send, MarkSent, Requeue, LoseBatch,
                  insertVars
    <2> QED  BY <2>1, <2>2, NothingNew
  <1>4. CASE \/ \E k \in AnyKey : Publish(k) \/ Replay(k)
             \/ Stop \/ Exit \/ Crash \/ Restart
             \/ \E k \in Keys : KeyExpires(k)
             \/ \E c \in Chats : MinutePasses(c) \/ Mute(c) \/ Unmute(c)
    <2>1. /\ Typing' /\ HeadInBatch' /\ TagsStay /\ UNCHANGED window
          /\ \A t \in Threads : job'[t] = job[t] \/ job'[t].step \in {"idle", "acquire"}
      BY <1>0, <1>4, OthersTyped
    <2>2. \A t \in Threads : Holds(t)' => job'[t] = job[t]
      BY <2>1 DEF Holds
    <2> QED  BY <2>1, <2>2, NothingNew
  <1>5. CASE UNCHANGED vars
    BY <1>5 DEF vars, busVars, insertVars, KInv, Typing, HeadInBatch, WindowsPast, HoldersDiffer,
                OwedHaveNone, NoDuplicates, Holds, RowOf
  <1> QED  BY <1>1, <1>2, <1>3, <1>4, <1>5 DEF Next, AnyKey

LEMMA InitHolds == Init => KInv
  <1> SUFFICES ASSUME Init
               PROVE  KInv
    OBVIOUS
  <1>1. Typing /\ HeadInBatch
    BY IdleTyped DEF Init, Typing, HeadInBatch, Threads
  <1>2. Len(rows) = 0 /\ \A t \in Threads : ~ Holds(t)
    BY IdleTyped DEF Init, Holds
  <1> QED  BY <1>1, <1>2 DEF KInv, WindowsPast, HoldersDiffer, OwedHaveNone, NoDuplicates

(* While a dedupe key lives, a chat gets one row for it, although consumer *)
(* and replay interleave, and whatever fails or restarts: for any number   *)
(* of chats, keys, events and faults.                                      *)
THEOREM OneRow == Spec => []OneRowPerKey
  <1>1. KInv => OneRowPerKey
    <2> SUFFICES ASSUME KInv
                 PROVE  OneRowPerKey
      OBVIOUS
    <2>1. DOMAIN rows = 1 .. Len(rows)
      BY DEF KInv, Typing
    <2> QED  BY <2>1 DEF KInv, NoDuplicates, OneRowPerKey
  <1> QED  BY <1>1, InitHolds, StepHolds, PTL DEF Spec
-----------------------------------------------------------------------------
(* The claim: the oldest rows of a set, each once *)

(* Counting the smaller members numbers the members of a finite set of     *)
(* naturals from 0 to n - 1 without a gap.                                 *)
LEMMA RankExists ==
  ASSUME NEW S \in SUBSET Nat, IsFiniteSet(S), NEW i \in 0 .. Cardinality(S) - 1
  PROVE  \E r \in S : Cardinality({q \in S : q < r}) = i
  <1> DEFINE below(r) == {q \in S : q < r}
             n == Cardinality(S)
             rank == [r \in S |-> Cardinality(below(r))]
  <1>1. n \in Nat
    BY FS_CardinalityType
  <1>2. \A r \in S : IsFiniteSet(below(r)) /\ Cardinality(below(r)) \in Nat
    BY FS_Subset, FS_CardinalityType
  <1>3. ASSUME NEW r \in S
        PROVE  rank[r] \in 0 .. n - 1
    <2>1. below(r) \subseteq S \ {r}
      OBVIOUS
    <2>2. IsFiniteSet(S \ {r}) /\ Cardinality(S \ {r}) = n - 1
      BY FS_RemoveElement
    <2>3. Cardinality(below(r)) <= n - 1
      BY <2>1, <2>2, FS_Subset
    <2> QED  BY <1>1, <1>2, <2>3
  <1>4. ASSUME NEW q \in S, NEW r \in S, q < r
        PROVE  rank[q] < rank[r]
    <2>1. below(q) \subseteq below(r) /\ below(q) # below(r)
      <3>1. q \in Nat /\ r \in Nat
        OBVIOUS
      <3>2. q \in below(r) /\ q \notin below(q)
        BY <1>4, <3>1
      <3>3. \A x \in S : x < q => x < r
        BY <1>4, <3>1
      <3> QED  BY <3>2, <3>3
    <2>2. Cardinality(below(q)) <= Cardinality(below(r))
          /\ Cardinality(below(q)) # Cardinality(below(r))
      BY <1>2, <2>1, FS_Subset
    <2> QED  BY <1>2, <2>2
  <1> HIDE DEF below
  <1>5. rank \in Injection(S, 0 .. n - 1)
    <2>1. rank \in [S -> 0 .. n - 1]
      BY <1>3
    <2>2. \A q, r \in S : rank[q] = rank[r] => q = r
      <3> SUFFICES ASSUME NEW q \in S, NEW r \in S, rank[q] = rank[r], q # r
                   PROVE  FALSE
        OBVIOUS
      <3>1. (q < r \/ r < q) /\ rank[q] \in Nat
        BY <1>1, <1>3
      <3> HIDE DEF rank
      <3> QED  BY <1>4, <3>1
    <2> QED  BY <2>1, <2>2 DEF Injection, IsInjective
  <1>6. IsFiniteSet(0 .. n - 1) /\ Cardinality(0 .. n - 1) = n
    BY <1>1, FS_Interval
  <1>7. rank \in Surjection(S, 0 .. n - 1)
    BY <1>5, <1>6, FS_Injection
  <1>8. \E r \in S : rank[r] = i
    BY <1>7 DEF Surjection
  <1> QED  BY <1>8 DEF below

LEMMA OldestDiffer ==
  ASSUME NEW S \in SUBSET Nat, IsFiniteSet(S), S # {}
  PROVE  /\ Oldest(S) \in Seq(S) /\ Oldest(S) # <<>>
         /\ \A i, j \in 1 .. Len(Oldest(S)) : Oldest(S)[i] = Oldest(S)[j] => i = j
  <1> DEFINE before(r) == Cardinality({q \in S : q < r})
             n == IF Cardinality(S) < Limit THEN Cardinality(S) ELSE Limit
             pick(i) == CHOOSE r \in S : before(r) = i - 1
  <1>1. Oldest(S) = [i \in 1 .. n |-> pick(i)]
    BY DEF Oldest
  <1>2. Cardinality(S) \in Nat \ {0} /\ n \in Nat \ {0} /\ n <= Cardinality(S)
    BY FS_CardinalityType, FS_EmptySet, LimitAssumption
  <1>3. ASSUME NEW i \in 1 .. n
        PROVE  pick(i) \in S /\ before(pick(i)) = i - 1
    <2>1. i - 1 \in 0 .. Cardinality(S) - 1
      BY <1>2
    <2>2. \E r \in S : before(r) = i - 1
      BY <2>1, RankExists
    <2> QED  BY <2>2
  <1> HIDE DEF before, pick, n
  <1>4. Oldest(S) \in [1 .. n -> S] /\ \A i \in 1 .. n : Oldest(S)[i] = pick(i)
    BY <1>1, <1>3
  <1>5. Oldest(S) \in Seq(S) /\ Len(Oldest(S)) = n
    BY <1>2, <1>4
  <1>6. Oldest(S) # <<>>
    BY <1>2, <1>5
  <1>7. ASSUME NEW i \in 1 .. n, NEW j \in 1 .. n, pick(i) = pick(j)
        PROVE  i = j
    <2>1. i - 1 = j - 1
      BY <1>3, <1>7
    <2> QED  BY <1>2, <2>1
  <1> QED  BY <1>4, <1>5, <1>6, <1>7
-----------------------------------------------------------------------------
(* What the sender relies on *)

CallSet == [refused : 0 .. MaxAttempts, accepted : 0 .. 2]

Steps == {"idle", "row", "send", "mark", "requeue"}

QueueTyping ==
  /\ sender \in [batch : Seq(Nat), step : Steps]
  /\ calls \in Seq(CallSet) /\ Len(calls) = Len(rows)
  /\ \A r \in 1 .. Len(rows) : rows[r].attempts <= MaxAttempts
  /\ hits \in [Chats -> 0 .. Cap]
  /\ faults \in Nat

(* The sender holds each of its rows once, and as "sending".               *)
BatchIsSending ==
  /\ sender.step # "idle" => sender.batch # <<>>
  /\ \A i \in 1 .. Len(sender.batch) :
       sender.batch[i] \in 1 .. Len(rows) /\ rows[sender.batch[i]].state = "sending"
  /\ \A i, j \in 1 .. Len(sender.batch) : sender.batch[i] = sender.batch[j] => i = j

(* Until something fails, Telegram has accepted the rows that read as sent *)
(* and the one the sender is about to mark, each of them once.             *)
AcceptedIsMarked ==
  \A r \in 1 .. Len(rows) :
    /\ rows[r].state = "sent" => calls[r].accepted > 0
    /\ sender.step = "mark" /\ r = Row => calls[r].accepted > 0
    /\ faults = 0 /\ calls[r].accepted > 0 =>
         /\ calls[r].accepted = 1
         /\ \/ rows[r].state = "sent"
            \/ rows[r].state = "sending" /\ sender.step = "mark" /\ r = Row

SInv == QueueTyping /\ BatchIsSending /\ AcceptedIsMarked
LEMMA RowHeld ==
  ASSUME Typing, SInv, sender.step # "idle"
  PROVE  /\ Len(sender.batch) \in Nat \ {0} /\ Row = sender.batch[1]
         /\ Row \in 1 .. Len(rows) /\ rows[Row].state = "sending"
         /\ rows[Row].chat \in Chats /\ hits[Chat] \in 0 .. Cap
         /\ faults = 0 /\ sender.step # "mark" => calls[Row].accepted = 0
  <1>1. sender.batch \in Seq(Nat) /\ sender.batch # <<>>
    BY DEF SInv, QueueTyping, BatchIsSending
  <1>2. Len(sender.batch) \in Nat \ {0} /\ Row = sender.batch[1]
    BY <1>1 DEF Row
  <1>3. Row \in 1 .. Len(rows) /\ rows[Row].state = "sending"
    BY <1>2 DEF SInv, BatchIsSending
  <1>4. rows[Row] \in RowSet /\ calls[Row] \in CallSet
    BY <1>3 DEF Typing, SInv, QueueTyping
  <1>5. calls[Row].accepted \in 0 .. 2
    BY <1>4 DEF CallSet
  <1>6. faults = 0 /\ sender.step # "mark" => ~ (calls[Row].accepted > 0)
    BY <1>3 DEF SInv, AcceptedIsMarked
  <1>7. rows[Row].chat \in Chats
    BY <1>4 DEF RowSet
  <1>8. hits[Chat] \in 0 .. Cap
    BY <1>7 DEF Chat, SInv, QueueTyping
  <1> QED  BY <1>2, <1>3, <1>5, <1>6, <1>7, <1>8

(* Steps of others.                                                        *)
LEMMA QueueStays ==
  ASSUME SInv, UNCHANGED <<rows, sender, calls>>, hits' \in [Chats -> 0 .. Cap],
         faults' = faults \/ faults' = faults + 1
  PROVE  SInv'
  <1>1. QueueTyping'
    BY DEF SInv, QueueTyping
  <1>2. BatchIsSending'
    BY DEF SInv, BatchIsSending
  <1>3. faults' = 0 => faults = 0
    BY DEF SInv, QueueTyping
  <1>4. AcceptedIsMarked'
    BY <1>3 DEF SInv, AcceptedIsMarked, Row
  <1> QED  BY <1>1, <1>2, <1>4 DEF SInv

(* The batch is given up, between two rows or because something failed.    *)
LEMMA BatchDropped ==
  ASSUME SInv, sender' = Rest, UNCHANGED <<rows, calls>>, hits' \in [Chats -> 0 .. Cap],
         \/ faults' = faults /\ sender.step # "mark"
         \/ faults' = faults + 1
  PROVE  SInv'
  <1>1. Rest \in [batch : Seq(Nat), step : Steps] /\ Rest.step = "idle" /\ Len(Rest.batch) = 0
    BY DEF Rest, Steps
  <1>2. faults \in Nat
    BY DEF SInv, QueueTyping
  <1>3. QueueTyping'
    BY <1>1, <1>2 DEF SInv, QueueTyping
  <1>4. BatchIsSending'
    BY <1>1 DEF BatchIsSending
  <1>5. AcceptedIsMarked'
    BY <1>1, <1>2 DEF SInv, AcceptedIsMarked
  <1> QED  BY <1>3, <1>4, <1>5 DEF SInv

LEMMA TailFacts ==
  ASSUME NEW q \in Seq(Nat), q # <<>>, Len(q) # 1
  PROVE  /\ Tail(q) \in Seq(Nat) /\ Tail(q) # <<>>
         /\ \A i \in 1 .. Len(Tail(q)) : i + 1 \in 1 .. Len(q) /\ Tail(q)[i] = q[i + 1]
  <1>1. Len(q) \in Nat \ {0}
    OBVIOUS
  <1>2. Len(q) - 1 \in Nat \ {0}
    BY <1>1
  <1>3. Tail(q) \in Seq(Nat) /\ Len(Tail(q)) = Len(q) - 1
    BY <1>1
  <1>4. Tail(q) # <<>>
    BY <1>2, <1>3
  <1>5. ASSUME NEW i \in 1 .. Len(Tail(q))
        PROVE  i + 1 \in 1 .. Len(q) /\ Tail(q)[i] = q[i + 1]
    BY <1>1, <1>3
  <1> QED  BY <1>3, <1>4, <1>5

(* The row in hand gets its next state and the loop goes on.               *)
LEMMA RowDone ==
  ASSUME Typing, SInv, sender.step # "idle", NextRow,
         NEW s \in {"pending", "sent", "failed"}, rows' = [rows EXCEPT ![Row].state = s],
         UNCHANGED <<calls, hits, faults>>,
         s = "sent" => calls[Row].accepted > 0,
         s # "sent" /\ faults = 0 => calls[Row].accepted = 0
  PROVE  SInv'
  <1>0. /\ rows \in Seq(RowSet) /\ Len(rows) \in Nat /\ DOMAIN rows = 1 .. Len(rows)
        /\ \A r \in 1 .. Len(rows) : rows[r] \in RowSet
        /\ sender.batch \in Seq(Nat) /\ Len(sender.batch) \in Nat \ {0}
        /\ Row = sender.batch[1] /\ Row \in 1 .. Len(rows)
    BY RowHeld DEF Typing, SInv, QueueTyping
  <1>1. /\ Len(rows') = Len(rows)
        /\ rows'[Row].state = s /\ rows'[Row].attempts = rows[Row].attempts
        /\ \A r \in 1 .. Len(rows) : r # Row => rows'[r] = rows[r]
    BY <1>0 DEF RowSet
  <1>2. /\ sender' \in [batch : Seq(Nat), step : Steps]
        /\ sender'.step \in {"idle", "row"} /\ (sender'.step # "idle" => sender'.batch # <<>>)
        /\ \A i \in 1 .. Len(sender'.batch) :
             i + 1 \in 1 .. Len(sender.batch) /\ sender'.batch[i] = sender.batch[i + 1]
    <2>1. CASE Len(sender.batch) = 1
      BY <1>0, <2>1 DEF NextRow, Rest, Steps
    <2>2. CASE Len(sender.batch) # 1
      <3>1. sender' = [batch |-> Tail(sender.batch), step |-> "row"]
        BY <2>2 DEF NextRow
      <3>2. sender.batch # <<>> /\ sender.batch \in Seq(Nat)
        BY <1>0
      <3> QED  BY <2>2, <3>1, <3>2, TailFacts DEF Steps
    <2> QED  BY <2>1, <2>2
  <1>3. QueueTyping'
    <2>1. \A r \in 1 .. Len(rows)' : rows'[r].attempts <= MaxAttempts
      BY <1>0, <1>1 DEF SInv, QueueTyping
    <2> QED  BY <1>1, <1>2, <2>1 DEF SInv, QueueTyping
  <1>4. BatchIsSending'
    <2>1. ASSUME NEW i \in 1 .. Len(sender'.batch)
          PROVE  /\ sender'.batch[i] \in 1 .. Len(rows) /\ sender'.batch[i] # Row
                 /\ rows'[sender'.batch[i]].state = "sending"
      <3>1. i + 1 \in 1 .. Len(sender.batch) /\ sender'.batch[i] = sender.batch[i + 1]
        BY <1>2
      <3>2. sender'.batch[i] \in 1 .. Len(rows) /\ rows[sender'.batch[i]].state = "sending"
        BY <3>1 DEF SInv, BatchIsSending
      <3>3. sender.batch[i + 1] # sender.batch[1]
        <4>1. i + 1 # 1 /\ 1 \in 1 .. Len(sender.batch)
          BY <1>0
        <4> QED  BY <3>1, <4>1 DEF SInv, BatchIsSending
      <3> QED  BY <1>0, <1>1, <3>1, <3>2, <3>3
    <2>2. ASSUME NEW i \in 1 .. Len(sender'.batch), NEW j \in 1 .. Len(sender'.batch),
                 sender'.batch[i] = sender'.batch[j]
          PROVE  i = j
      <3>1. i + 1 = j + 1
        BY <1>2, <2>2 DEF SInv, BatchIsSending
      <3> QED  BY <3>1
    <2> QED  BY <1>1, <1>2, <2>1, <2>2 DEF BatchIsSending
  <1>5. AcceptedIsMarked'
    <2> SUFFICES ASSUME NEW r \in 1 .. Len(rows)
                 PROVE  /\ rows'[r].state = "sent" => calls[r].accepted > 0
                        /\ faults = 0 /\ calls[r].accepted > 0 =>
                             calls[r].accepted = 1 /\ rows'[r].state = "sent"
      BY <1>1, <1>2 DEF AcceptedIsMarked
    <2>1. CASE r = Row
      <3>1. calls[Row] \in CallSet
        BY <1>0 DEF SInv, QueueTyping
      <3>2. faults = 0 /\ calls[Row].accepted > 0 => calls[Row].accepted = 1
        BY <1>0 DEF SInv, AcceptedIsMarked
      <3> QED  BY <1>1, <2>1, <3>1, <3>2 DEF CallSet
    <2>2. CASE r # Row
      BY <1>1, <2>2 DEF SInv, AcceptedIsMarked
    <2> QED  BY <2>1, <2>2
  <1> QED  BY <1>3, <1>4, <1>5 DEF SInv
(* A new row is pending, and nobody has sent it.                           *)
LEMMA InsertQueues ==
  ASSUME Typing, SInv, NEW t \in Threads, NEW c \in Chats, Insert(t, c), rows' \in Seq(RowSet)
  PROVE  SInv'
  <1> DEFINE row == [of |-> job[t].of, key |-> job[t].key, window |-> job[t].window,
                     chat |-> c, state |-> "pending", attempts |-> 0]
             call == [refused |-> 0, accepted |-> 0]
             n == Len(rows) + 1
  <1>0. /\ rows \in Seq(RowSet) /\ calls \in Seq(CallSet)
        /\ Len(rows) \in Nat /\ Len(calls) = Len(rows)
    BY DEF Typing, SInv, QueueTyping
  <1>1. /\ rows' = Append(rows, row) /\ calls' = Append(calls, call)
        /\ UNCHANGED <<sender, hits, faults>>
    BY DEF Insert
  <1>2. row.state = "pending" /\ row.attempts = 0 /\ call \in CallSet /\ call.accepted = 0
    BY LimitAssumption DEF CallSet
  <1> HIDE DEF row, call
  <1>3. row \in RowSet
    <2>1. Len(rows') = n /\ rows'[n] = row
      BY <1>0, <1>1
    <2> QED  BY <1>0, <2>1
  <1>4. /\ Len(rows') = n /\ Len(calls') = n /\ calls' \in Seq(CallSet)
        /\ rows'[n] = row /\ calls'[n] = call
        /\ \A r \in 1 .. Len(rows) : rows'[r] = rows[r] /\ calls'[r] = calls[r]
    BY <1>0, <1>1, <1>2, <1>3
  <1>5. \A r \in 1 .. n : r = n \/ r \in 1 .. Len(rows)
    BY <1>0
  <1>6. \A r \in 1 .. Len(rows) : r \in 1 .. n
    BY <1>0
  <1> HIDE DEF n
  <1>7. QueueTyping'
    BY <1>1, <1>2, <1>4, <1>5, LimitAssumption DEF SInv, QueueTyping
  <1>8. BatchIsSending'
    BY <1>1, <1>4, <1>6 DEF SInv, BatchIsSending
  <1>9. AcceptedIsMarked'
    <2> SUFFICES ASSUME NEW r \in 1 .. n
                 PROVE  AcceptedIsMarked!(r)'
      BY <1>4 DEF AcceptedIsMarked
    <2>1. CASE r = n
      <3>1. sender.step = "mark" => Row # n
        <4>1. sender.step = "mark" => Row \in 1 .. Len(rows)
          BY RowHeld
        <4> QED  BY <1>0, <4>1 DEF n
      <3> QED  BY <1>1, <1>2, <1>4, <2>1, <3>1 DEF Row
    <2>2. CASE r # n
      BY <1>1, <1>4, <1>5, <2>2 DEF SInv, AcceptedIsMarked, Row
    <2> QED  BY <2>1, <2>2
  <1> QED  BY <1>7, <1>8, <1>9 DEF SInv

LEMMA ClaimQueues ==
  ASSUME Typing, SInv, Claim
  PROVE  SInv'
  <1> DEFINE claimed == Oldest(Claimable)
             mine(q) == \E i \in DOMAIN claimed : claimed[i] = q
             new(q) == [rows[q] EXCEPT !.state = "sending", !.attempts = Counted(@)]
  <1>0. /\ Len(rows) \in Nat /\ DOMAIN rows = 1 .. Len(rows)
        /\ \A r \in 1 .. Len(rows) : rows[r] \in RowSet
    BY DEF Typing
  <1>1. Claimable \in SUBSET Nat /\ IsFiniteSet(Claimable) /\ Claimable # {}
    <2>1. IsFiniteSet(1 .. Len(rows))
      BY <1>0, FS_Interval
    <2>2. Claimable \subseteq 1 .. Len(rows) /\ 1 .. Len(rows) \subseteq Nat
      BY <1>0 DEF Claimable
    <2> QED  BY <2>1, <2>2, FS_Subset DEF Claim
  <1>2. /\ claimed \in Seq(Claimable) /\ claimed # <<>>
        /\ \A i, j \in 1 .. Len(claimed) : claimed[i] = claimed[j] => i = j
    BY <1>1, OldestDiffer
  <1>3. /\ sender' = [batch |-> claimed, step |-> "row"]
        /\ rows' = [q \in 1 .. Len(rows) |-> IF mine(q) THEN new(q) ELSE rows[q]]
        /\ sender.step = "idle" /\ UNCHANGED <<hits, calls, faults>>
    BY <1>0 DEF Claim
  <1>4. ASSUME NEW q \in 1 .. Len(rows)
        PROVE  new(q).state = "sending" /\ new(q).attempts <= MaxAttempts
    <2>1. new(q).state = "sending" /\ new(q).attempts = Counted(rows[q].attempts)
      BY <1>0 DEF RowSet
    <2>2. rows[q].attempts \in Nat /\ rows[q].attempts <= MaxAttempts
      BY <1>0 DEF RowSet, SInv, QueueTyping
    <2>3. Counted(rows[q].attempts) <= MaxAttempts
      BY <2>2, LimitAssumption DEF Counted
    <2> QED  BY <2>1, <2>3
  <1>5. /\ \A i \in 1 .. Len(claimed) : claimed[i] \in Claimable /\ mine(claimed[i])
        /\ \A q : mine(q) => q \in Claimable
    BY <1>2
  <1>6. \A q \in Claimable : q \in 1 .. Len(rows) /\ rows[q].state = "pending"
    BY <1>0 DEF Claimable
  <1> HIDE DEF claimed, mine, new
  <1>7. /\ Len(rows') = Len(rows)
        /\ \A q \in 1 .. Len(rows) : rows'[q] = IF mine(q) THEN new(q) ELSE rows[q]
    <2>1. Len(rows') = Len(rows)
      BY ClaimTyped DEF TagsStay
    <2> QED  BY <1>3, <2>1
  <1>8. QueueTyping'
    <2>1. \A q \in 1 .. Len(rows) : rows'[q].attempts <= MaxAttempts
      BY <1>4, <1>7 DEF SInv, QueueTyping
    <2>2. claimed \in Seq(Nat)
      <3>1. Len(claimed) \in Nat /\ claimed \in [1 .. Len(claimed) -> Claimable]
        BY <1>2
      <3>2. claimed \in [1 .. Len(claimed) -> Nat]
        BY <1>1, <3>1
      <3> QED  BY <3>1, <3>2
    <2>3. sender' \in [batch : Seq(Nat), step : Steps]
      BY <1>3, <2>2 DEF Steps
    <2> QED  BY <1>3, <1>7, <2>1, <2>3 DEF SInv, QueueTyping
  <1>9. BatchIsSending'
    <2>1. sender'.batch = claimed
      BY <1>3
    <2>2. \A i \in 1 .. Len(claimed) :
            claimed[i] \in 1 .. Len(rows) /\ rows'[claimed[i]].state = "sending"
      BY <1>4, <1>5, <1>6, <1>7
    <2> QED  BY <1>2, <1>7, <2>1, <2>2 DEF BatchIsSending
  <1>10. AcceptedIsMarked'
    <2> SUFFICES ASSUME NEW q \in 1 .. Len(rows)
                 PROVE  /\ rows'[q].state = "sent" => calls[q].accepted > 0
                        /\ faults = 0 /\ calls[q].accepted > 0 =>
                             calls[q].accepted = 1 /\ rows'[q].state = "sent"
      BY <1>3, <1>7 DEF AcceptedIsMarked
    <2>1. faults = 0 /\ calls[q].accepted > 0 => calls[q].accepted = 1 /\ rows[q].state = "sent"
      BY <1>3 DEF SInv, AcceptedIsMarked
    <2>2. CASE mine(q)
      BY <1>4, <1>5, <1>6, <1>7, <2>1, <2>2
    <2>3. CASE ~ mine(q)
      BY <1>7, <2>1, <2>3 DEF SInv, AcceptedIsMarked
    <2> QED  BY <2>2, <2>3
  <1> QED  BY <1>8, <1>9, <1>10 DEF SInv

(* The row in hand goes on to its next step.                               *)
LEMMA StepQueues ==
  ASSUME Typing, SInv, sender.step \in {"row", "send", "mark"},
         NEW s \in Steps \ {"idle", "row", "mark"}, sender' = [sender EXCEPT !.step = s],
         UNCHANGED <<rows, calls>>, hits' \in [Chats -> 0 .. Cap],
         \/ sender.step = "row" /\ faults' = faults
         \/ faults' = faults + 1
  PROVE  SInv'
  <1>1. /\ sender' \in [batch : Seq(Nat), step : Steps] /\ sender'.batch = sender.batch
        /\ sender'.step = s /\ faults \in Nat
    BY DEF SInv, QueueTyping
  <1>2. QueueTyping'
    BY <1>1 DEF SInv, QueueTyping
  <1>3. BatchIsSending'
    BY <1>1 DEF SInv, BatchIsSending
  <1>4. AcceptedIsMarked'
    BY <1>1 DEF SInv, AcceptedIsMarked
  <1> QED  BY <1>2, <1>3, <1>4 DEF SInv

LEMMA SendQueues ==
  ASSUME Typing, SInv, Send
  PROVE  SInv'
  <1>0. /\ Row \in 1 .. Len(rows) /\ rows[Row].state = "sending" /\ sender.step = "send"
        /\ faults = 0 => calls[Row].accepted = 0
    BY RowHeld DEF Send
  <1>1. /\ calls \in Seq(CallSet) /\ Len(calls) = Len(rows) /\ Len(rows) \in Nat
        /\ DOMAIN calls = 1 .. Len(rows) /\ faults \in Nat
        /\ \A r \in 1 .. Len(rows) : calls[r] \in CallSet
    BY DEF Typing, SInv, QueueTyping
  <1>2. PICK s \in {"mark", "send", "requeue"}, d \in CallSet :
          /\ calls' = [calls EXCEPT ![Row] = d] /\ sender' = [sender EXCEPT !.step = s]
          /\ d.accepted >= calls[Row].accepted
          /\ \/ s = "mark" /\ d.accepted > 0 /\ (faults = 0 => d.accepted = 1) /\ faults' = faults
             \/ s = "requeue" /\ d.accepted = calls[Row].accepted /\ faults' = faults
             \/ s # "mark" /\ faults' = faults + 1
    <2> DEFINE yes == [calls[Row] EXCEPT !.accepted = IF @ < 2 THEN @ + 1 ELSE @]
               no  == [calls[Row] EXCEPT !.refused = IF @ < MaxAttempts THEN @ + 1 ELSE @]
    <2>1. /\ yes \in CallSet /\ yes.accepted > 0 /\ yes.accepted >= calls[Row].accepted
          /\ calls[Row].accepted = 0 => yes.accepted = 1
      BY <1>0, <1>1 DEF CallSet
    <2>2. no \in CallSet /\ no.accepted = calls[Row].accepted /\ no.accepted >= calls[Row].accepted
      BY <1>0, <1>1, LimitAssumption DEF CallSet
    <2>3. \/ /\ calls' = [calls EXCEPT ![Row] = yes]
             /\ \/ sender' = [sender EXCEPT !.step = "mark"] /\ faults' = faults
                \/ /\ \E step \in {"send", "requeue"} : sender' = [sender EXCEPT !.step = step]
                   /\ faults' = faults + 1
          \/ /\ calls' = [calls EXCEPT ![Row] = no]
             /\ sender' = [sender EXCEPT !.step = "requeue"] /\ faults' = faults
      BY <1>0, <1>1 DEF Send, Accepts, Fault
    <2> HIDE DEF yes, no
    <2> QED  BY <1>0, <2>1, <2>2, <2>3
  <1>3. /\ UNCHANGED <<rows, hits>>
        /\ sender' \in [batch : Seq(Nat), step : Steps] /\ sender'.batch = sender.batch
        /\ sender'.step = s
    BY <1>2 DEF Send, SInv, QueueTyping, Steps
  <1>4. /\ calls' \in Seq(CallSet) /\ Len(calls') = Len(rows) /\ calls'[Row] = d
        /\ \A r \in 1 .. Len(rows) : r # Row => calls'[r] = calls[r]
    BY <1>0, <1>1, <1>2
  <1>5. QueueTyping'
    BY <1>1, <1>2, <1>3, <1>4 DEF SInv, QueueTyping
  <1>6. BatchIsSending'
    BY <1>0, <1>3 DEF SInv, BatchIsSending
  <1>7. AcceptedIsMarked'
    <2> SUFFICES ASSUME NEW r \in 1 .. Len(rows)
                 PROVE  AcceptedIsMarked!(r)'
      BY <1>3 DEF AcceptedIsMarked
    <2>1. Row' = Row
      BY <1>3 DEF Row
    <2>2. CASE r = Row
      BY <1>0, <1>1, <1>2, <1>3, <1>4, <2>1, <2>2 DEF CallSet
    <2>3. CASE r # Row
      BY <1>0, <1>1, <1>2, <1>3, <1>4, <2>1, <2>3 DEF SInv, AcceptedIsMarked
    <2> QED  BY <2>2, <2>3
  <1> QED  BY <1>5, <1>6, <1>7 DEF SInv
LEMMA SenderQueues ==
  ASSUME Typing, SInv, Sender
  PROVE  SInv'
  <1>0. hits \in [Chats -> 0 .. Cap] /\ faults \in Nat
    BY DEF SInv, QueueTyping
  <1>1. CASE Claim
    BY <1>1, ClaimQueues
  <1>2. CASE BreakOff
    BY <1>0, <1>2, BatchDropped DEF BreakOff
  <1>3. CASE RateLimited
    <2>1. sender.step = "row" /\ faults = 0 => calls[Row].accepted = 0
      BY RowHeld
    <2> QED  BY <1>3, <2>1, RowDone DEF RateLimited
  <1>4. CASE Admit
    <2>1. hits' = [hits EXCEPT ![Chat] = hits[Chat] + 1] /\ hits[Chat] < Cap /\ sender.step = "row"
      BY <1>4 DEF Admit
    <2>2. hits[Chat] \in 0 .. Cap
      BY <2>1, RowHeld
    <2>3. hits[Chat] + 1 \in 0 .. Cap
      BY <2>1, <2>2, LimitAssumption
    <2>4. hits' \in [Chats -> 0 .. Cap]
      BY <1>0, <2>1, <2>3
    <2>5. sender' = [sender EXCEPT !.step = "send"] /\ UNCHANGED <<rows, calls, faults>>
      BY <1>4 DEF Admit
    <2> QED  BY <2>1, <2>4, <2>5, StepQueues DEF Steps
  <1>5. CASE Send
    BY <1>5, SendQueues
  <1>6. CASE MarkSent
    <2>1. sender.step = "mark" /\ UNCHANGED <<hits, calls>>
      BY <1>6 DEF MarkSent
    <2>2. CASE rows' = [rows EXCEPT ![Row].state = Accepted] /\ NextRow /\ UNCHANGED faults
      <3>1. Row \in 1 .. Len(rows)
        BY <2>1, RowHeld
      <3>2. calls[Row].accepted > 0
        BY <2>1, <3>1 DEF SInv, AcceptedIsMarked
      <3> QED  BY <2>1, <2>2, <3>2, RowDone DEF Accepted
    <2>3. CASE Fault /\ sender' = [sender EXCEPT !.step = "requeue"] /\ UNCHANGED rows
      <3>1. faults' = faults + 1
        BY <2>3 DEF Fault
      <3> QED  BY <1>0, <2>1, <2>3, <3>1, StepQueues DEF Steps
    <2> QED  BY <1>6, <2>2, <2>3 DEF MarkSent
  <1>7. CASE Requeue
    <2> DEFINE s == IF rows[Row].attempts < MaxAttempts THEN "pending" ELSE "failed"
    <2>1. /\ sender.step = "requeue" /\ rows' = [rows EXCEPT ![Row].state = s] /\ NextRow
          /\ UNCHANGED <<hits, calls, faults>>
      BY <1>7 DEF Requeue
    <2>2. s \in {"pending", "sent", "failed"} /\ s # "sent"
      OBVIOUS
    <2>3. faults = 0 => calls[Row].accepted = 0
      BY <2>1, RowHeld
    <2> HIDE DEF s
    <2> QED  BY <2>1, <2>2, <2>3, RowDone
  <1>8. CASE LoseBatch
    <2>1. sender' = Rest /\ faults' = faults + 1 /\ UNCHANGED <<rows, hits, calls>>
      BY <1>8 DEF LoseBatch, Fault
    <2> QED  BY <1>0, <2>1, BatchDropped
  <1> QED  BY <1>1, <1>2, <1>3, <1>4, <1>5, <1>6, <1>7, <1>8 DEF Sender

LEMMA StepQueued == KInv /\ SInv /\ [Next]_vars => SInv'
  <1> SUFFICES ASSUME KInv, SInv, [Next]_vars
               PROVE  SInv'
    OBVIOUS
  <1>0. Typing /\ Typing' /\ hits \in [Chats -> 0 .. Cap] /\ faults \in Nat
    BY StepHolds DEF KInv, SInv, QueueTyping
  <1>1. CASE Sender
    BY <1>0, <1>1, SenderQueues
  <1>2. ASSUME NEW t \in Threads, NEW c \in Chats, Insert(t, c)
        PROVE  SInv'
    <2>1. rows' \in Seq(RowSet)
      BY <1>0 DEF Typing
    <2> QED  BY <1>0, <1>2, <2>1, InsertQueues
  <1>3. CASE Exit \/ Crash
    <2>1. sender' = Rest /\ hits' \in [Chats -> 0 .. Cap] /\ UNCHANGED <<rows, calls>>
      <3>1. Die
        BY <1>3 DEF Exit, Crash
      <3>2. 0 \in 0 .. Cap
        BY LimitAssumption
      <3> QED  BY <3>1, <3>2 DEF Die
    <2>2. (faults' = faults /\ sender.step # "mark") \/ faults' = faults + 1
      BY <1>3 DEF Exit, Crash, Fault
    <2> QED  BY <2>1, <2>2, BatchDropped
  <1>4. ASSUME UNCHANGED <<rows, sendVars>>, faults' = faults \/ faults' = faults + 1
        PROVE  SInv'
    BY <1>0, <1>4, QueueStays DEF sendVars
  <1>5. CASE Consumer \/ \E k \in AnyKey : Publish(k) \/ Replay(k)
    BY <1>4, <1>5 DEF Consumer, Read, Ack, AckFails, Publish, Replay, Fault
  <1>6. ASSUME NEW t \in Threads, \/ Acquire(t) \/ NeedsNoKey(t) \/ Duplicate(t)
                                  \/ ListChats(t) \/ InsertFails(t)
        PROVE  SInv'
    BY <1>4, <1>6 DEF Acquire, NeedsNoKey, Duplicate, ListChats, InsertFails, Fault
  <1>7. CASE \/ Stop \/ Restart \/ \E k \in Keys : KeyExpires(k)
             \/ \E c \in Chats : Mute(c) \/ Unmute(c)
    BY <1>4, <1>7 DEF Stop, Restart, KeyExpires, Mute, Unmute, envVars
  <1>8. ASSUME NEW c \in Chats, MinutePasses(c)
        PROVE  SInv'
    <2>1. 0 \in 0 .. Cap
      BY LimitAssumption
    <2>2. hits' \in [Chats -> 0 .. Cap] /\ UNCHANGED <<rows, sender, calls, faults>>
      BY <1>0, <1>8, <2>1 DEF MinutePasses
    <2> QED  BY <2>2, QueueStays
  <1>9. CASE UNCHANGED vars
    BY <1>4, <1>9 DEF vars
  <1> QED  BY <1>1, <1>2, <1>3, <1>5, <1>6, <1>7, <1>8, <1>9 DEF Next, Process, AnyKey

LEMMA InitQueued == Init => SInv
  <1> SUFFICES ASSUME Init
               PROVE  SInv
    OBVIOUS
  <1>1. /\ Rest \in [batch : Seq(Nat), step : Steps] /\ Rest.step = "idle"
        /\ Len(Rest.batch) = 0 /\ 0 \in 0 .. Cap
    BY LimitAssumption DEF Rest, Steps
  <1>2. /\ rows = <<>> /\ calls = <<>> /\ sender = Rest /\ faults = 0
        /\ hits = [c \in Chats |-> 0]
    BY DEF Init
  <1>3. Len(rows) = 0 /\ calls \in Seq(CallSet)
    BY <1>2
  <1> QED  BY <1>1, <1>2, <1>3 DEF SInv, QueueTyping, BatchIsSending, AcceptedIsMarked

(* Telegram gets a row twice only after something failed, and a row that   *)
(* reads as sent was accepted: for any number of chats, events and rows,   *)
(* any size of a claim and any number of attempts.                         *)
THEOREM Delivered == Spec => []DeliveredOnce
  <1>1. KInv /\ SInv => DeliveredOnce
    <2> SUFFICES ASSUME KInv, SInv, NEW r \in DOMAIN rows
                 PROVE  /\ calls[r].accepted > 1 => faults > 0
                        /\ rows[r].state = "sent" => calls[r].accepted > 0
                        /\ rows[r].state = "failed" /\ faults = 0 => calls[r].accepted = 0
      BY DEF DeliveredOnce
    <2>1. r \in 1 .. Len(rows) /\ calls[r] \in CallSet /\ faults \in Nat
      BY DEF KInv, Typing, SInv, QueueTyping
    <2>2. calls[r].accepted \in 0 .. 2
      BY <2>1 DEF CallSet
    <2> QED  BY <2>1, <2>2 DEF SInv, AcceptedIsMarked
  <1> QED  BY <1>1, InitHolds, StepHolds, InitQueued, StepQueued, PTL DEF Spec
-----------------------------------------------------------------------------
(* Type correctness: what the two invariants leave open *)

Bounds ==
  /\ replays \in Nat /\ Len(stream) + replays <= MaxInputs
  /\ unacked \subseteq 1 .. next - 1
  /\ \A t \in Threads : job[t].of <= Len(stream)
  /\ taken \subseteq Keys
  /\ muted \subseteq Chats
  /\ running \in {"up", "stopping", "down"}
  /\ {mutes, stops, faults} \subseteq Nat /\ mutes + stops + faults <= MaxTroubles

LEMMA InitBounded == Init => Bounds
  BY LimitAssumption DEF Init, Bounds, NoJob, Threads

(* A job of the bus is about an event of the stream.                       *)
LEMMA JobsBounded ==
  ASSUME Typing, Bounds, NEW t \in Threads, NEW j,
         j.of \in 0 .. Len(stream), job' = [job EXCEPT ![t] = j], UNCHANGED stream
  PROVE  \A u \in Threads : job'[u].of <= Len(stream')
  <1>1. job'[t] = j /\ \A u \in Threads \ {t} : job'[u] = job[u]
    BY DEF Typing
  <1>2. Len(stream) \in Nat
    BY DEF Typing
  <1> QED  BY <1>1, <1>2 DEF Bounds

LEMMA StepBounded == KInv /\ SInv /\ Bounds /\ [Next]_vars => Bounds'
  <1> SUFFICES ASSUME KInv, SInv, Bounds, [Next]_vars
               PROVE  Bounds'
    OBVIOUS
  <1>0. /\ Typing /\ job \in [Threads -> JobSet] /\ Len(stream) \in Nat
        /\ next \in 1 .. Len(stream) + 1 /\ head \in 1 .. next /\ faults \in Nat
        /\ NoJob.of = 0 /\ {MaxInputs, MaxTroubles} \subseteq Nat
    BY LimitAssumption DEF KInv, Typing, SInv, QueueTyping, NoJob
  <1>t. mutes \in Nat /\ stops \in Nat /\ mutes + stops + faults <= MaxTroubles
    BY DEF Bounds
  <1>1. ASSUME NEW k \in AnyKey, Publish(k)
        PROVE  Bounds'
    <2>1. stream' = Append(stream, k) /\ Len(stream') = Len(stream) + 1
      BY <1>0, <1>1 DEF Publish, Typing
    <2>2. /\ UNCHANGED <<next, unacked, job, taken, muted, running, replays, mutes, stops, faults>>
          /\ Len(stream) + replays < MaxInputs
      BY <1>1 DEF Publish, MoreInput, insertVars, envVars
    <2>3. \A u \in Threads : job'[u].of <= Len(stream')
      <3>1. \A u \in Threads : job[u].of \in Nat /\ job[u].of <= Len(stream)
        BY <1>0 DEF Bounds, JobSet
      <3> QED  BY <1>0, <2>1, <2>2, <3>1
    <2>4. Len(stream') + replays' <= MaxInputs
      BY <1>0, <2>1, <2>2 DEF Bounds
    <2> QED  BY <2>2, <2>3, <2>4 DEF Bounds
  <1>2. ASSUME NEW k \in AnyKey, Replay(k)
        PROVE  Bounds'
    <2>1. /\ job' = [job EXCEPT !["replay"] = [NoJob EXCEPT !.key = k, !.step = "acquire"]]
          /\ UNCHANGED stream
      BY <1>2 DEF Replay, busVars
    <2>2. [NoJob EXCEPT !.key = k, !.step = "acquire"].of \in 0 .. Len(stream)
      BY <1>0 DEF NoJob
    <2>3. \A u \in Threads : job'[u].of <= Len(stream')
      BY <1>0, <2>1, <2>2, JobsBounded DEF Threads
    <2>4. /\ UNCHANGED <<stream, next, unacked, taken, muted, running, mutes, stops, faults>>
          /\ replays' = replays + 1 /\ Len(stream) + replays < MaxInputs
      BY <1>2 DEF Replay, MoreInput, busVars
    <2>5. replays' \in Nat /\ Len(stream') + replays' <= MaxInputs
      BY <1>0, <2>4 DEF Bounds
    <2> QED  BY <2>3, <2>4, <2>5 DEF Bounds
  <1>3. CASE Read
    <2> DEFINE upTo == IF next + Batch <= Len(stream) + 1 THEN next + Batch - 1 ELSE Len(stream)
    <2>1. /\ head = next /\ next <= Len(stream) /\ next' = upTo + 1
          /\ unacked' = unacked \cup (next .. upTo) /\ UNCHANGED stream
          /\ job' = [job EXCEPT !["consumer"] = Start(head)]
      BY <1>3 DEF Read, KInv, HeadInBatch
    <2>2. upTo \in next .. Len(stream)
      BY <1>0, <2>1, LimitAssumption
    <2> HIDE DEF upTo
    <2>3. unacked' \subseteq 1 .. next' - 1
      BY <1>0, <2>1, <2>2 DEF Bounds
    <2>4. Start(head).of \in 0 .. Len(stream)
      BY <1>0, <2>1 DEF Start, NoJob
    <2>5. \A u \in Threads : job'[u].of <= Len(stream')
      BY <1>0, <2>1, <2>4, JobsBounded DEF Threads
    <2> QED  BY <1>3, <2>3, <2>5 DEF Read, Bounds, envVars
  <1>4. CASE Ack
    <2>1. UNCHANGED <<stream, next>> /\ unacked' \subseteq unacked /\ head < next
      BY <1>4 DEF Ack, KInv, HeadInBatch
    <2>2. PICK j : job' = [job EXCEPT !["consumer"] = j] /\ j.of \in 0 .. Len(stream)
      <3>1. head + 1 # next => head + 1 \in 0 .. Len(stream)
        BY <1>0, <2>1
      <3>2. Start(head + 1).of = head + 1
        BY DEF Start, NoJob
      <3>3. CASE head + 1 = next
        <4>1. job' = [job EXCEPT !["consumer"] = NoJob]
          BY <1>4, <3>3 DEF Ack
        <4>2. NoJob.of \in 0 .. Len(stream)
          BY <1>0
        <4> QED  BY <4>1, <4>2
      <3>4. CASE head + 1 # next
        BY <1>4, <3>1, <3>2, <3>4 DEF Ack
      <3> QED  BY <3>3, <3>4
    <2>3. \A u \in Threads : job'[u].of <= Len(stream')
      BY <1>0, <2>1, <2>2, JobsBounded DEF Threads
    <2> QED  BY <1>0, <1>4, <2>1, <2>3 DEF Ack, Bounds, envVars
  <1>5. CASE AckFails
    <2>1. \A u \in Threads : job'[u].of <= Len(stream')
      <3>1. /\ job' = [job EXCEPT !["consumer"] = NoJob] /\ UNCHANGED stream
            /\ NoJob.of \in 0 .. Len(stream)
        BY <1>0, <1>5 DEF AckFails
      <3> QED  BY <1>0, <3>1, JobsBounded DEF Threads
    <2> QED  BY <1>0, <1>5, <2>1 DEF AckFails, Fault, MoreTrouble, Bounds, envVars
  <1>6. ASSUME NEW t \in Threads, Process(t)
        PROVE  Bounds'
    <2>1. \A u \in Threads : job'[u].of <= Len(stream')
      <3>1. ASSUME job' = Returned(t)
            PROVE  \A u \in Threads : job'[u].of \in {job[u].of, 0}
        BY <1>0, <3>1 DEF Returned, Threads, JobSet
      <3>2. \A u \in Threads : job'[u].of \in {job[u].of, 0}
        <4>1. CASE Acquire(t)
          BY <1>0, <4>1 DEF Acquire, JobSet
        <4>2. CASE NeedsNoKey(t)
          BY <1>0, <4>2 DEF NeedsNoKey, JobSet
        <4>3. CASE Duplicate(t)
          BY <3>1, <4>3 DEF Duplicate
        <4>4. CASE ListChats(t)
          BY <1>0, <3>1, <4>4 DEF ListChats, JobSet
        <4>5. CASE InsertFails(t)
          BY <3>1, <4>5 DEF InsertFails
        <4>6. ASSUME NEW c \in Chats, Insert(t, c)
              PROVE  \A u \in Threads : job'[u].of \in {job[u].of, 0}
          BY <1>0, <3>1, <4>6 DEF Insert, JobSet
        <4> QED  BY <1>6, <4>1, <4>2, <4>3, <4>4, <4>5, <4>6 DEF Process
      <3>3. UNCHANGED stream
        BY <1>6 DEF Process, Acquire, NeedsNoKey, Duplicate, ListChats, InsertFails, Insert, busVars
      <3> QED  BY <1>0, <3>2, <3>3 DEF Bounds
    <2>2. taken' \subseteq Keys
      <3>1. taken' = taken \/ (job[t].key # NoKey /\ taken' = taken \cup {job[t].key})
        BY <1>6 DEF Process, Acquire, NeedsNoKey, Duplicate, ListChats, InsertFails, Insert
      <3>2. job[t].key \in AnyKey
        BY <1>0 DEF JobSet
      <3> QED  BY <3>1, <3>2 DEF Bounds, AnyKey
    <2>3. UNCHANGED <<busVars, envVars>> /\ (faults' = faults \/ Fault)
      BY <1>6 DEF Process, Acquire, NeedsNoKey, Duplicate, ListChats, InsertFails, Insert
    <2> QED  BY <1>0, <2>1, <2>2, <2>3 DEF Bounds, Fault, MoreTrouble, busVars, envVars
  <1>7. CASE Sender
    <2>1. UNCHANGED <<busVars, insertVars, envVars>> /\ (faults' = faults \/ Fault)
      BY <1>7 DEF Sender, Claim, BreakOff, RateLimited, Admit, Send, MarkSent, Requeue, LoseBatch
    <2> QED  BY <1>0, <2>1 DEF Bounds, Fault, MoreTrouble, busVars, insertVars, envVars
  <1>8. CASE Exit \/ Crash
    <2>1. \A u \in Threads : job'[u].of = 0
      BY <1>0, <1>8 DEF Exit, Crash, Die
    <2>2. /\ UNCHANGED <<stream, next, unacked, taken, muted, replays, mutes, stops>>
          /\ running' = "down"
      BY <1>8 DEF Exit, Crash, Die
    <2>3. faults' \in Nat /\ mutes + stops + faults' <= MaxTroubles
      BY <1>0, <1>8, <1>t DEF Exit, Crash, Fault, MoreTrouble
    <2>4. \A u \in Threads : job'[u].of <= Len(stream')
      BY <1>0, <2>1, <2>2
    <2> QED  BY <2>2, <2>3, <2>4 DEF Bounds
  <1>9. CASE Stop \/ Restart
    <2>1. /\ UNCHANGED <<stream, next, unacked, job, taken, muted, replays, mutes, faults>>
          /\ running' \in {"up", "stopping", "down"}
      BY <1>9 DEF Stop, Restart, busVars, insertVars
    <2>2. stops' \in Nat /\ mutes + stops' + faults <= MaxTroubles
      BY <1>0, <1>9, <1>t DEF Stop, Restart, MoreTrouble
    <2> QED  BY <2>1, <2>2 DEF Bounds
  <1>10. ASSUME NEW c \in Chats, MinutePasses(c) \/ Mute(c) \/ Unmute(c)
         PROVE  Bounds'
    <2>1. UNCHANGED <<stream, next, unacked, job, taken, running, replays, stops, faults>>
      BY <1>10 DEF MinutePasses, Mute, Unmute, busVars, insertVars, envVars
    <2>2. muted' \subseteq Chats
      BY <1>10 DEF MinutePasses, Mute, Unmute, envVars, Bounds
    <2>3. mutes' \in Nat /\ mutes' + stops + faults <= MaxTroubles
      BY <1>0, <1>10, <1>t DEF MinutePasses, Mute, Unmute, MoreTrouble, envVars
    <2> QED  BY <2>1, <2>2, <2>3 DEF Bounds
  <1>11. CASE \E k \in Keys : KeyExpires(k)
    BY <1>0, <1>11 DEF KeyExpires, Bounds, busVars, envVars
  <1>12. CASE UNCHANGED vars
    BY <1>12 DEF vars, busVars, insertVars, envVars, Bounds
  <1> QED  BY <1>1, <1>2, <1>3, <1>4, <1>5, <1>6, <1>7, <1>8, <1>9, <1>10, <1>11, <1>12
           DEF Next, Consumer, AnyKey

(* The type invariant, for any chats, keys and bounds.                     *)
THEOREM Typed == Spec => []TypeOK
  <1>1. KInv /\ SInv /\ Bounds => TypeOK
    <2> SUFFICES ASSUME KInv, SInv, Bounds
                 PROVE  TypeOK
      OBVIOUS
    <2>1. /\ stream \in Seq(AnyKey) /\ next \in 1 .. Len(stream) + 1 /\ head \in 1 .. next
          /\ Len(stream) \in Nat
      BY DEF KInv, Typing
    <2>2. \A t \in Threads : /\ job[t].of \in 0 .. Len(stream) /\ job[t].key \in AnyKey
                             /\ job[t].todo \subseteq Chats
                             /\ job[t].step \in {"idle", "acquire", "list", "insert", "ack"}
      <3>1. \A t \in Threads : job[t] \in JobSet /\ job[t].of <= Len(stream)
        BY DEF KInv, Typing, Bounds
      <3> QED  BY <2>1, <3>1 DEF JobSet
    <2>3. ASSUME NEW r \in DOMAIN rows
          PROVE  /\ rows[r].chat \in Chats /\ rows[r].state \in States
                 /\ rows[r].attempts \in 0 .. MaxAttempts
                 /\ calls[r].refused <= MaxAttempts /\ calls[r].accepted <= 2
      <3>1. rows[r] \in RowSet /\ calls[r] \in CallSet /\ rows[r].attempts <= MaxAttempts
        BY DEF KInv, Typing, SInv, QueueTyping
      <3> QED  BY <3>1, LimitAssumption DEF RowSet, CallSet
    <2>4. /\ \A i \in DOMAIN sender.batch : rows[sender.batch[i]].state = "sending"
          /\ sender.step \in {"idle", "row", "send", "mark", "requeue"}
          /\ hits \in [Chats -> 0 .. Cap]
      <3>1. DOMAIN sender.batch = 1 .. Len(sender.batch)
        BY DEF SInv, QueueTyping
      <3> QED  BY <3>1 DEF SInv, QueueTyping, BatchIsSending, Steps
    <2> QED  BY <2>1, <2>2, <2>3, <2>4 DEF TypeOK, Bounds, AnyKey
  <1> QED  BY <1>1, InitHolds, StepHolds, InitQueued, StepQueued, InitBounded, StepBounded, PTL
           DEF Spec
=============================================================================
