---------------------------- MODULE KirimAccept ----------------------------
(***************************************************************************)
(* How Kirim SQ accepts a message of one consumer: the automatic messages  *)
(* of POST /messages (service.ts, acceptMessage) and the officers' replies *)
(* (conversations.ts, reply and queueReply), which share the outbox and    *)
(* its idempotency keys.  Every check is a query of its own; only the      *)
(* inserts run in a transaction, and the unique key decides between        *)
(* requests that race.  The opt-outs, the days and the hand-over of what   *)
(* was accepted go on meanwhile.                                           *)
(*                                                                         *)
(* Consumers share nothing but the opt-outs, so one consumer is enough.    *)
(* MaxDays bounds the days.                                                *)
(***************************************************************************)
EXTENDS Integers, FiniteSets

CONSTANTS
    Handler,     \* requests under way at a time
    Key,         \* Idempotency-Key
    Body,        \* request bodies, the request_hash of each
    Number,      \* recipients
    Kind,        \* [Body -> jenis]
    To,          \* [Body -> Number]
    Message,     \* ids of messages
    Quota,       \* kuota_harian
    MaxDays,
    NoRow, NoRequest, NoAnswer

\* The refusals of a request, without those made before its consumer is known.
Code == {"denied", "optout", "quota_exceeded", "media_invalid", "conflict"}

ASSUME AcceptAssumption ==
    /\ IsFiniteSet(Handler)
    /\ IsFiniteSet(Message)
    /\ Kind \in [Body -> {"notifikasi", "kode", "percakapan"}]
    /\ To \in [Body -> Number]
    /\ Quota \in Nat \ {0}
    /\ MaxDays \in Nat
    /\ NoRow \notin [key : Key, body : Body, day : Nat, handed : BOOLEAN]
    /\ NoRequest \notin [key : Key, body : Body]
    /\ NoAnswer \notin Message \cup Code
    /\ Message \cap Code = {}

VARIABLES
    row,         \* kirim_outbox with its message, by message id
    optouts,     \* kirim_optouts that apply to the consumer
    today,       \* the WIB day
    (* one request: its step, what it asks, the day it counts from, its answer *)
    pc, req, day, answer,
    found        \* history: the messages of its key when the request came

requestVars == <<pc, req, day, answer, found>>
vars == <<row, optouts, today, requestVars>>

Request == [key : Key, body : Body]
Row == [key : Key, body : Body, day : Nat, handed : BOOLEAN]
Pc == {"idle", "replay", "number", "optout", "now", "quota", "media", "insert", "raced"}

Automatic(b) == Kind[b] # "percakapan"

Stored == {m \in Message : row[m] # NoRow}

Init ==
    /\ row = [m \in Message |-> NoRow]
    /\ optouts = {}
    /\ today = 0
    /\ pc = [h \in Handler |-> "idle"]
    /\ req = [h \in Handler |-> NoRequest]
    /\ day = [h \in Handler |-> 0]
    /\ answer = [h \in Handler |-> NoAnswer]
    /\ found = [h \in Handler |-> {}]

-----------------------------------------------------------------------------
(* What the queries return. *)

\* Mutant: keys are free again the next day.
HoldersToday(k) == {m \in Stored : row[m].key = k /\ row[m].day = today}

\* findIdempotent, the rows of a key.
Holders(k) == {m \in Stored : row[m].key = k}

\* Mutant: the request is not compared.
AnyRequest(h, m) == TRUE

\* request_hash, a hash of the whole body.
SameRequest(h, m) == row[m].body = req[h].body

\* Mutant: the row may be inserted again.
KeyNeverTaken(k) == FALSE

\* UNIQUE (consumer_id, idempotency_key).
KeyTaken(k) == \E m \in Stored : row[m].key = k

\* wibDayStart.
WibDayStart == today

\* What the quota counts: every row of the consumer since the start of the day.
Used(h) == Cardinality({m \in Stored : row[m].day >= day[h]})

\* Mutant: one message more.
QuotaUsedUpLate(h) == Used(h) > Quota

QuotaUsedUp(h) == Used(h) >= Quota

-----------------------------------------------------------------------------
(* One request. *)

At(h, here, there) ==
    /\ pc[h] = here
    /\ pc' = [pc EXCEPT ![h] = there]
    /\ UNCHANGED <<req, found>>

\* A check passes and the request goes on.
GoOn(h, here, there) ==
    /\ At(h, here, there)
    /\ UNCHANGED <<row, optouts, today, day, answer>>

\* A check fails, or a request is answered: nothing else is done.
Answer(h, here, a) ==
    /\ At(h, here, "idle")
    /\ answer' = [answer EXCEPT ![h] = a]
    /\ UNCHANGED <<row, optouts, today, day>>

Receive(h, k, b) ==
    /\ pc[h] = "idle"
    /\ pc' = [pc EXCEPT ![h] = "replay"]
    /\ req' = [req EXCEPT ![h] = [key |-> k, body |-> b]]
    /\ answer' = [answer EXCEPT ![h] = NoAnswer]
    /\ found' = [found EXCEPT ![h] = {m \in Stored : row[m].key = k}]
    /\ UNCHANGED <<row, optouts, today, day>>

\* A stored message answers for its key: 202, or 409 to another request.
AnswerFrom(h, here, m) ==
    \/ SameRequest(h, m) /\ Answer(h, here, m)
    \/ ~SameRequest(h, m) /\ Answer(h, here, "conflict")

Replay(h) ==
    /\ pc[h] = "replay"
    /\ \/ Holders(req[h].key) = {} /\ GoOn(h, "replay", "number")
       \/ \E m \in Holders(req[h].key) : AnswerFrom(h, "replay", m)

\* The number of the request or of the conversation, its route and the
\* recipient: administrators change them at any time.
CheckNumber(h) ==
    \/ GoOn(h, "number", "optout")
    \/ Answer(h, "number", "denied")

\* An opt-out stops automatic messages other than codes, and replies to a person
\* who has not written in the last 24 hours.
CheckOptout(h) ==
    /\ pc[h] = "optout"
    /\ LET b == req[h].body
       IN  \/ /\ To[b] \in optouts => Kind[b] # "notifikasi"
              /\ GoOn(h, "optout", IF Automatic(b) THEN "now" ELSE "media")
           \/ /\ To[b] \in optouts
              /\ Kind[b] # "kode"
              /\ Answer(h, "optout", "optout")

ReadNow(h) ==
    /\ At(h, "now", "quota")
    /\ day' = [day EXCEPT ![h] = WibDayStart]
    /\ UNCHANGED <<row, optouts, today, answer>>

CheckQuota(h) ==
    /\ \/ ~QuotaUsedUp(h) /\ At(h, "quota", "media") /\ UNCHANGED answer
       \/ /\ QuotaUsedUp(h)
          /\ At(h, "quota", "idle")
          /\ answer' = [answer EXCEPT ![h] = "quota_exceeded"]
    /\ day' = [day EXCEPT ![h] = 0]
    /\ UNCHANGED <<row, optouts, today>>

\* The media, and of a reply the quoted message.
CheckMedia(h) ==
    \/ GoOn(h, "media", "insert")
    \/ Answer(h, "media", "media_invalid")

\* The transaction; an answer that gets lost is one the consumer never reads.
Insert(h) ==
    /\ pc[h] = "insert"
    /\ \/ KeyTaken(req[h].key) /\ GoOn(h, "insert", "raced")
       \/ /\ ~KeyTaken(req[h].key)
          /\ \E m \in Message \ Stored :
               /\ row' = [row EXCEPT ![m] =
                    [key |-> req[h].key, body |-> req[h].body,
                     day |-> today, handed |-> FALSE]]
               /\ answer' = [answer EXCEPT ![h] = m]
          /\ At(h, "insert", "idle")
          /\ UNCHANGED <<optouts, today, day>>

\* Another request has won the insert.
Raced(h) ==
    /\ pc[h] = "raced"
    /\ \E m \in Holders(req[h].key) : AnswerFrom(h, "raced", m)

\* The process stops, or a query fails, before an answer.
Stop(h) ==
    /\ pc[h] # "idle"
    /\ At(h, pc[h], "idle")
    /\ day' = [day EXCEPT ![h] = 0]
    /\ UNCHANGED <<row, optouts, today, answer>>

-----------------------------------------------------------------------------
(* What goes on meanwhile. *)

AddOptout(n) ==
    /\ n \notin optouts
    /\ optouts' = optouts \cup {n}
    /\ UNCHANGED <<row, today, requestVars>>

RemoveOptout(n) ==
    /\ n \in optouts
    /\ optouts' = optouts \ {n}
    /\ UNCHANGED <<row, today, requestVars>>

\* The worker (KirimOutbox) hands a queued message to the engine.
HandOver(m) ==
    /\ m \in Stored
    /\ ~row[m].handed
    /\ row' = [row EXCEPT ![m].handed = TRUE]
    /\ UNCHANGED <<optouts, today, requestVars>>

Midnight ==
    /\ today < MaxDays
    /\ today' = today + 1
    /\ UNCHANGED <<row, optouts, requestVars>>

-----------------------------------------------------------------------------

RequestStep(h) ==
    \/ \E k \in Key, b \in Body : Receive(h, k, b)
    \/ Replay(h)
    \/ CheckNumber(h)
    \/ CheckOptout(h)
    \/ ReadNow(h)
    \/ CheckQuota(h)
    \/ CheckMedia(h)
    \/ Insert(h)
    \/ Raced(h)
    \/ Stop(h)

Next ==
    \/ \E h \in Handler : RequestStep(h)
    \/ \E n \in Number : AddOptout(n) \/ RemoveOptout(n)
    \/ \E m \in Message : HandOver(m)
    \/ Midnight

Spec == Init /\ [][Next]_vars

-----------------------------------------------------------------------------
(* Properties. *)

\* Every variable stays within its type.
TypeOK ==
    /\ row \in [Message -> Row \cup {NoRow}]
    /\ optouts \subseteq Number
    /\ today \in Nat
    /\ pc \in [Handler -> Pc]
    /\ req \in [Handler -> Request \cup {NoRequest}]
    /\ day \in [Handler -> Nat]
    /\ answer \in [Handler -> Message \cup Code \cup {NoAnswer}]
    /\ found \in [Handler -> SUBSET Message]

\* Retries, races and stops never make a second message of one key (the unique
\* index of kirim_outbox with the replay of acceptMessage and queueReply).
OneMessagePerKey == \A m, n \in Stored : row[m].key = row[n].key => m = n

\* Section 5.1, step 5: an accepted request names a message that is exactly
\* what it asked for, and 409 is only said of a key used for another request.
AnswerTrue(h) ==
    /\ answer[h] \in Message =>
         /\ answer[h] \in Stored
         /\ row[answer[h]].key = req[h].key
         /\ row[answer[h]].body = req[h].body
    /\ answer[h] = "conflict" =>
         \E m \in Stored : row[m].key = req[h].key /\ row[m].body # req[h].body

AnswersTrue == \A h \in Handler : AnswerTrue(h)

\* A retry that comes after the message was accepted finds it, whatever the
\* quota, the opt-outs and the number have become since: it is never refused.
RetryFindsIt ==
    \A h \in Handler :
       found[h] # {} => answer[h] \in found[h] \cup {NoAnswer, "conflict"}

AutomaticOn(d) == {m \in Stored : Automatic(row[m].body) /\ row[m].day = d}

\* The quota is checked apart from the insert: a day's automatic messages exceed
\* kuota_harian by less than the number of requests under way at a time.
QuotaOvershoot ==
    Cardinality(AutomaticOn(today)) <= Quota + Cardinality(Handler) - 1

\* KIRIM-IMPL-002 section 5.1: replies are not counted in the quota, so a
\* request is refused for it only when the automatic messages have used it up.  The
\* code does not keep this: a reply is a row of the same queue.
RepliesKeepQuota ==
    [][\A h \in Handler :
         answer[h] # "quota_exceeded" /\ answer'[h] = "quota_exceeded"
         => Cardinality({m \in Stored : Automatic(row[m].body) /\ row[m].day >= day[h]}) >= Quota]_vars

\* KIRIM-IMPL-002, acceptance item 6: an opt-out stops the automatic messages to
\* the number, codes excepted.  The code does not keep this: opt-outs are read when a
\* message is accepted, and not again when it is sent.
OptoutStopsMessages ==
    [][\A m \in Stored :
         ~row[m].handed /\ row'[m].handed /\ Kind[row[m].body] = "notifikasi"
         => To[row[m].body] \notin optouts]_vars

=============================================================================
