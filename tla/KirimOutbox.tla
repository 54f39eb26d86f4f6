---------------------------- MODULE KirimOutbox ----------------------------
(***************************************************************************)
(* The send queue of Kirim SQ (kirim/worker.ts, transitionOutbox in        *)
(* kirim/repository.ts, retry and cancel in kirim/admin.ts, receipts in    *)
(* kirim/ingest.ts) with the processes that run it, the WhatsApp engine    *)
(* behind it, crashes, and time.                                           *)
(*                                                                         *)
(* A database transaction is one action.  Every call to the engine is a    *)
(* step of its own, as is every read the code makes outside a transaction, *)
(* so other processes and the administrators run in between.               *)
(*                                                                         *)
(* Bounds: MaxNow stops the clock; a row is accepted only when it expires  *)
(* before that.                                                            *)
(***************************************************************************)
EXTENDS KirimPolicy, FiniteSets

CONSTANTS
    Outbox,       \* kirim_outbox rows, one per accepted message
    Device,       \* kirim_devices of provider jalurpesan
    Process,      \* SQ Hub processes running a send worker
    DeviceOf,     \* the number a row leaves from
    JenisOf,      \* jenis of a row
    PriorityOf,   \* prioritas of a row: kode 0, petugas 1, tinggi 2, normal 3
    TtlOf,        \* expires_at - created_at of a row
    Replying,     \* rows that answer a message received within the last hour
    Configuration,  \* for each way to configure a process, the numbers whose provider it has
    Rate,         \* rate_per_menit
    RateWindow,   \* the rolling 60 seconds of the rate check
    Lease,        \* LEASE_MS
    SendMax,      \* the longest a live process takes from claim to result
    MaxNow,       \* bound on the clock
    NoRow, NoDevice

ASSUME RowAssumption ==
    /\ IsFiniteSet(Outbox)
    /\ DeviceOf \in [Outbox -> Device]
    /\ JenisOf \in [Outbox -> Jenis]
    /\ PriorityOf \in [Outbox -> 0 .. 3]
    /\ TtlOf \in [Outbox -> Nat \ {0}]
    /\ Replying \subseteq Outbox
    /\ Configuration \subseteq SUBSET Device
    /\ NoRow \notin Outbox
    /\ NoDevice \notin Device

\* Upload and send time out after 15 s each; the lease is 60 s.
ASSUME LeaseAssumption ==
    /\ SendMax \in Nat \ {0}
    /\ Lease \in Nat
    /\ SendMax < Lease

ASSUME ClockAssumption ==
    /\ MaxNow \in Nat
    /\ RateWindow \in Nat \ {0}
    /\ Rate \in Nat \ {0}

VARIABLES
    now,          \* the database clock
    (* kirim_outbox and the columns of its kirim_messages row *)
    status, errorCode, attempts, nextAttemptAt, expiresAt, providerAt,
    created,      \* creation order (created_at), 0 for a row not yet accepted
    (* kirim_devices *)
    connection, paused,
    (* the worker of each process, in its memory *)
    pc, todo, device, row, tries, deadline, result,
    served,       \* numbers whose provider the process is configured with
    (* the engine: requests it has not looked at, keys it has sent *)
    pending, sent,
    recorded      \* receipts stored in kirim_events, per row

rowVars == <<status, errorCode, attempts, nextAttemptAt, expiresAt, providerAt, created>>
deviceVars == <<connection, paused>>
workerVars == <<pc, todo, device, row, tries, deadline, result, served>>
engineVars == <<pending, sent>>
vars == <<now, rowVars, deviceVars, workerVars, engineVars, recorded>>

Never == -1       \* provider_at IS NULL

RowStatus == {"none", "antre", "diserahkan", "terkirim", "dibaca", "gagal", "dibatalkan"}
HandedOver == {"diserahkan", "terkirim", "dibaca"}
ErrorCode == {"none", "expired", "cancelled", "engine"}
Connection == {"tersambung", "terputus", "nonaktif"}
WorkerPc == {"idle", "expired", "round", "rated", "claimed", "calling", "answered"}
Result == {"none", "ok", "rejected", "retryable", "device"}

\* kirim:<outbox_id>: the same key on every attempt at a row.
EngineKey(o) == [outbox |-> o]

\* The message has left for WhatsApp.
WasSent(o) == \E k \in sent : k.outbox = o

\* The row a live process holds between its claim and its result.
Sending(p) == pc[p] \in {"claimed", "calling", "answered"}

-----------------------------------------------------------------------------
(* Accepting a message (the inserting transaction of acceptMessage and of  *)
(* queueReply; what is checked before it is KirimAccept's).                *)

Init ==
    /\ now = 0
    /\ status = [o \in Outbox |-> "none"]
    /\ errorCode = [o \in Outbox |-> "none"]
    /\ attempts = [o \in Outbox |-> 0]
    /\ nextAttemptAt = [o \in Outbox |-> 0]
    /\ expiresAt = [o \in Outbox |-> 0]
    /\ providerAt = [o \in Outbox |-> Never]
    /\ created = [o \in Outbox |-> 0]
    /\ connection = [d \in Device |-> "tersambung"]
    /\ paused = [d \in Device |-> FALSE]
    /\ pc = [p \in Process |-> "idle"]
    /\ todo = [p \in Process |-> {}]
    /\ device = [p \in Process |-> NoDevice]
    /\ row = [p \in Process |-> NoRow]
    /\ tries = [p \in Process |-> 0]
    /\ deadline = [p \in Process |-> 0]
    /\ result = [p \in Process |-> "none"]
    /\ served \in [Process -> Configuration]
    /\ pending = {}
    /\ sent = {}
    /\ recorded = [o \in Outbox |-> {}]

Accepted == {o \in Outbox : status[o] # "none"}

Accept(o) ==
    /\ status[o] = "none"
    /\ now + TtlOf[o] < MaxNow
    /\ status' = [status EXCEPT ![o] = "antre"]
    /\ nextAttemptAt' = [nextAttemptAt EXCEPT ![o] = now]
    /\ expiresAt' = [expiresAt EXCEPT ![o] = now + TtlOf[o]]
    /\ created' = [created EXCEPT ![o] = Cardinality(Accepted) + 1]
    /\ UNCHANGED <<now, errorCode, attempts, providerAt, deviceVars, workerVars, engineVars, recorded>>

-----------------------------------------------------------------------------
(* A worker round (runOnce): expire, list the numbers, then per number the *)
(* rate check, the claim, the send and its result.                         *)

\* Mutant: expiry runs only where sending does.
OverdueOnOpenNumbers ==
    {o \in Outbox : /\ status[o] = "antre" /\ expiresAt[o] <= now
                    /\ connection[DeviceOf[o]] = "tersambung" /\ ~paused[DeviceOf[o]]}

\* Whatever the state of its number.
Overdue == {o \in Outbox : status[o] = "antre" /\ expiresAt[o] <= now}

ExpireDue(p) ==
    LET due == Overdue
    IN  /\ pc[p] = "idle"
        /\ pc' = [pc EXCEPT ![p] = "expired"]
        /\ status' = [o \in Outbox |-> IF o \in due THEN "gagal" ELSE status[o]]
        /\ errorCode' = [o \in Outbox |-> IF o \in due THEN "expired" ELSE errorCode[o]]
        /\ UNCHANGED <<now, attempts, nextAttemptAt, expiresAt, providerAt, created, deviceVars, served,
                       todo, device, row, tries, deadline, result, engineVars, recorded>>

Due(d) ==
    {o \in Outbox : DeviceOf[o] = d /\ status[o] = "antre" /\ nextAttemptAt[o] <= now}

ListDevices(p) ==
    /\ pc[p] = "expired"
    /\ pc' = [pc EXCEPT ![p] = "round"]
    /\ todo' = [todo EXCEPT ![p] =
                  {d \in Device : ~paused[d] /\ connection[d] = "tersambung" /\ Due(d) # {}}]
    /\ UNCHANGED <<now, rowVars, deviceVars, served, device, row, tries, deadline, result, engineVars, recorded>>

RecentlyHandedOver(d) ==
    {o \in Outbox : /\ DeviceOf[o] = d
                    /\ providerAt[o] # Never
                    /\ providerAt[o] > now - RateWindow}

\* Reads the number's rate outside the claiming transaction.
CheckRate(p, d) ==
    /\ pc[p] = "round"
    /\ d \in todo[p]
    /\ RateAllows(Cardinality(RecentlyHandedOver(d)), Rate)
    /\ pc' = [pc EXCEPT ![p] = "rated"]
    /\ device' = [device EXCEPT ![p] = d]
    /\ todo' = [todo EXCEPT ![p] = @ \ {d}]
    /\ UNCHANGED <<now, rowVars, deviceVars, served, row, tries, deadline, result, engineVars, recorded>>

\* The rate is used up, or the random gap since this process's last send is not over.
SkipDevice(p, d) ==
    /\ pc[p] = "round"
    /\ d \in todo[p]
    /\ todo' = [todo EXCEPT ![p] = @ \ {d}]
    /\ UNCHANGED <<now, rowVars, deviceVars, served, pc, device, row, tries, deadline, result, engineVars, recorded>>

EndRound(p) ==
    /\ pc[p] = "round"
    /\ todo[p] = {}
    /\ pc' = [pc EXCEPT ![p] = "idle"]
    /\ UNCHANGED <<now, rowVars, deviceVars, served, todo, device, row, tries, deadline, result, engineVars, recorded>>

Before(a, b) ==
    \/ PriorityOf[a] < PriorityOf[b]
    \/ PriorityOf[a] = PriorityOf[b] /\ created[a] < created[b]

Decide(o) == WindowDecision(now, JenisOf[o], expiresAt[o], o \in Replying)

\* The first due row of the number that may leave now, if any.
FirstToSend(d) ==
    {o \in Due(d) : /\ Decide(o) = "send"
                    /\ \A c \in Due(d) : Before(c, o) => Decide(c) # "send"}

\* The rows the claim looks at before it returns.
Examined(d) == {o \in Due(d) : \A s \in FirstToSend(d) : o = s \/ Before(o, s)}

\* Mutant: a claim that leaves the row due.
NoLease == now

LeaseEnd == now + Lease

Claim(p) ==
    LET d == device[p]
        expired == {o \in Examined(d) : Decide(o) = "expire"}
        waiting == {o \in Examined(d) : Decide(o) = "wait"}
    IN  /\ pc[p] = "rated"
        /\ status' = [o \in Outbox |-> IF o \in expired THEN "gagal" ELSE status[o]]
        /\ errorCode' = [o \in Outbox |-> IF o \in expired THEN "expired" ELSE errorCode[o]]
        /\ nextAttemptAt' = [o \in Outbox |-> IF o \in FirstToSend(d) THEN LeaseEnd
                                              ELSE IF o \in waiting THEN NextOpenAt(now)
                                              ELSE nextAttemptAt[o]]
        /\ \/ /\ FirstToSend(d) = {}
              /\ pc' = [pc EXCEPT ![p] = "round"]
              /\ device' = [device EXCEPT ![p] = NoDevice]
              /\ UNCHANGED <<row, tries, deadline>>
           \/ \E o \in FirstToSend(d) :
              /\ pc' = [pc EXCEPT ![p] = "claimed"]
              /\ row' = [row EXCEPT ![p] = o]
              /\ tries' = [tries EXCEPT ![p] = attempts[o]]
              /\ deadline' = [deadline EXCEPT ![p] = now + SendMax]
              /\ UNCHANGED device
        /\ UNCHANGED <<now, attempts, expiresAt, providerAt, created, deviceVars, served, todo, result, engineVars, recorded>>

\* The worker is done with its row and goes on with the round.
Forget(p) ==
    /\ pc' = [pc EXCEPT ![p] = "round"]
    /\ device' = [device EXCEPT ![p] = NoDevice]
    /\ row' = [row EXCEPT ![p] = NoRow]
    /\ tries' = [tries EXCEPT ![p] = 0]
    /\ deadline' = [deadline EXCEPT ![p] = 0]
    /\ result' = [result EXCEPT ![p] = "none"]
    /\ UNCHANGED todo

ReleaseLease(p) ==
    /\ pc[p] = "claimed"
    /\ device[p] \notin served[p]
    /\ nextAttemptAt' = [o \in Outbox |-> IF o = row[p] /\ status[o] = "antre" THEN now ELSE nextAttemptAt[o]]
    /\ Forget(p)
    /\ UNCHANGED <<now, status, errorCode, attempts, expiresAt, providerAt, created, deviceVars, served, engineVars, recorded>>

\* The stored media is gone, or the contact has no address WhatsApp takes.
RejectLocally(p) ==
    /\ pc[p] = "claimed"
    /\ device[p] \in served[p]
    /\ pc' = [pc EXCEPT ![p] = "answered"]
    /\ result' = [result EXCEPT ![p] = "rejected"]
    /\ UNCHANGED <<now, rowVars, deviceVars, served, todo, device, row, tries, deadline, engineVars, recorded>>

CallEngine(p) ==
    /\ pc[p] = "claimed"
    /\ device[p] \in served[p]
    /\ pc' = [pc EXCEPT ![p] = "calling"]
    /\ pending' = pending \cup {EngineKey(row[p])}
    /\ UNCHANGED <<now, rowVars, deviceVars, served, todo, device, row, tries, deadline, result, sent, recorded>>

\* The engine did not answer in time; it may still send the message.
TimeoutResult == "retryable"

Timeout(p) ==
    /\ pc[p] = "calling"
    /\ pc' = [pc EXCEPT ![p] = "answered"]
    /\ result' = [result EXCEPT ![p] = TimeoutResult]
    /\ UNCHANGED <<now, rowVars, deviceVars, served, todo, device, row, tries, deadline, engineVars, recorded>>

-----------------------------------------------------------------------------
(* The result of a send (applyResult), one transaction guarded by the      *)
(* row still being antre.                                                  *)

\* Mutant: no fromStatuses guard.
WhateverItsStatus(p) == TRUE

StillQueued(p) == status[row[p]] = "antre"

ApplyOk(p) ==
    LET mine == {o \in Outbox : o = row[p] /\ StillQueued(p)}
    IN  /\ pc[p] = "answered"
        /\ result[p] = "ok"
        /\ status' = [o \in Outbox |-> IF o \in mine THEN "diserahkan" ELSE status[o]]
        /\ errorCode' = [o \in Outbox |-> IF o \in mine THEN "none" ELSE errorCode[o]]
        /\ attempts' = [o \in Outbox |-> IF o \in mine THEN attempts[o] + 1 ELSE attempts[o]]
        /\ providerAt' = [o \in Outbox |-> IF o \in mine THEN now ELSE providerAt[o]]
        /\ Forget(p)
        /\ UNCHANGED <<now, nextAttemptAt, expiresAt, created, deviceVars, served, engineVars, recorded>>

\* setDeviceStatus leaves a nonaktif number alone.
Disconnected(d) == IF connection[d] = "nonaktif" THEN "nonaktif" ELSE "terputus"

\* Not an attempt: the number is marked disconnected and its queue waits.
ApplyDevice(p) ==
    LET mine == {o \in Outbox : o = row[p] /\ StillQueued(p)}
    IN  /\ pc[p] = "answered"
        /\ result[p] = "device"
        /\ nextAttemptAt' = [o \in Outbox |-> IF o \in mine THEN now ELSE nextAttemptAt[o]]
        /\ connection' = [connection EXCEPT ![device[p]] = Disconnected(device[p])]
        /\ Forget(p)
        /\ UNCHANGED <<now, status, errorCode, attempts, expiresAt, providerAt, created, paused, served, engineVars, recorded>>

\* Whether to retry is decided on the attempts read at the claim.
WillRetry(p) == result[p] = "retryable" /\ MayRetry(tries[p] + 1)

ApplyRetry(p) ==
    LET mine == {o \in Outbox : o = row[p] /\ StillQueued(p)}
    IN  /\ pc[p] = "answered"
        /\ WillRetry(p)
        /\ attempts' = [o \in Outbox |-> IF o \in mine THEN attempts[o] + 1 ELSE attempts[o]]
        /\ errorCode' = [o \in Outbox |-> IF o \in mine THEN "engine" ELSE errorCode[o]]
        /\ nextAttemptAt' = [o \in Outbox |-> IF o \in mine THEN now + RetryDelays[tries[p] + 1]
                                              ELSE nextAttemptAt[o]]
        /\ Forget(p)
        /\ UNCHANGED <<now, status, expiresAt, providerAt, created, deviceVars, served, engineVars, recorded>>

ApplyFailure(p) ==
    LET mine == {o \in Outbox : o = row[p] /\ StillQueued(p)}
    IN  /\ pc[p] = "answered"
        /\ result[p] \in {"rejected", "retryable"}
        /\ ~WillRetry(p)
        /\ status' = [o \in Outbox |-> IF o \in mine THEN "gagal" ELSE status[o]]
        /\ errorCode' = [o \in Outbox |-> IF o \in mine THEN "engine" ELSE errorCode[o]]
        /\ attempts' = [o \in Outbox |-> IF o \in mine THEN attempts[o] + 1 ELSE attempts[o]]
        /\ Forget(p)
        /\ UNCHANGED <<now, nextAttemptAt, expiresAt, providerAt, created, deviceVars, served, engineVars, recorded>>

\* The process stops; what it knew of its round is gone.  The next one starts
\* with a round, and with the providers it is configured with.
Crash(p) ==
    /\ pc[p] # "idle"
    /\ \E c \in Configuration : served' = [served EXCEPT ![p] = c]
    /\ pc' = [pc EXCEPT ![p] = "idle"]
    /\ todo' = [todo EXCEPT ![p] = {}]
    /\ device' = [device EXCEPT ![p] = NoDevice]
    /\ row' = [row EXCEPT ![p] = NoRow]
    /\ tries' = [tries EXCEPT ![p] = 0]
    /\ deadline' = [deadline EXCEPT ![p] = 0]
    /\ result' = [result EXCEPT ![p] = "none"]
    /\ UNCHANGED <<now, rowVars, deviceVars, engineVars, recorded>>

-----------------------------------------------------------------------------
(* The engine (external): JalurPesan sends once per idempotency key.  It   *)
(* may look at a request long after the caller stopped waiting.            *)

EngineSend(k) ==
    /\ k \in pending
    /\ pending' = pending \ {k}
    /\ sent' = sent \cup {k}
    /\ UNCHANGED <<now, rowVars, deviceVars, workerVars, recorded>>

\* 200 only for a key it has sent.  A refusal may or may not clear the request;
\* a key already sent is refused when the rebuilt body differs (engine_conflict).
EngineAnswer(p) ==
    /\ pc[p] = "calling"
    /\ \E r \in Result \ {"none"} :
         /\ r = "ok" => EngineKey(row[p]) \in sent
         /\ result' = [result EXCEPT ![p] = r]
         /\ pending' \in IF r = "ok" THEN {pending}
                         ELSE {pending, pending \ {EngineKey(row[p])}}
    /\ pc' = [pc EXCEPT ![p] = "answered"]
    /\ UNCHANGED <<now, rowVars, deviceVars, served, todo, device, row, tries, deadline, sent, recorded>>

-----------------------------------------------------------------------------
(* Receipts (message.delivered and message.read in processEvent).  Each is *)
(* stored once, whether or not it finds its message.                       *)

IngestReceipt(o, r) ==
    /\ WasSent(o)
    /\ r \notin recorded[o]
    /\ recorded' = [recorded EXCEPT ![o] = @ \cup {r}]
    /\ LET found == {m \in Outbox : m = o /\ providerAt[m] # Never /\ Advances(status[m], r)}
       IN  /\ status' = [m \in Outbox |-> IF m \in found THEN AdvanceStatus(status[m], r) ELSE status[m]]
           /\ errorCode' = [m \in Outbox |-> IF m \in found THEN "none" ELSE errorCode[m]]
    /\ UNCHANGED <<now, attempts, nextAttemptAt, expiresAt, providerAt, created, deviceVars, workerVars, engineVars>>

-----------------------------------------------------------------------------
(* The queue and number screens (retry, cancel, setPaused, deactivate,     *)
(* connect again) and the engine's own status (refreshStatus).             *)

NotRetryable == {"expired"}

\* resetAttempts
AttemptsAfterRetry(o) == 0

Retry(o) ==
    /\ status[o] = "gagal"
    /\ errorCode[o] \notin NotRetryable
    /\ status' = [status EXCEPT ![o] = "antre"]
    /\ errorCode' = [errorCode EXCEPT ![o] = "none"]
    /\ attempts' = [attempts EXCEPT ![o] = AttemptsAfterRetry(o)]
    /\ nextAttemptAt' = [nextAttemptAt EXCEPT ![o] = now]
    /\ UNCHANGED <<now, expiresAt, providerAt, created, deviceVars, workerVars, engineVars, recorded>>

Cancel(o) ==
    /\ status[o] = "antre"
    /\ status' = [status EXCEPT ![o] = "dibatalkan"]
    /\ errorCode' = [errorCode EXCEPT ![o] = "cancelled"]
    /\ UNCHANGED <<now, attempts, nextAttemptAt, expiresAt, providerAt, created, deviceVars, workerVars,
                   engineVars, recorded>>

SetPaused(d) ==
    /\ paused' = [paused EXCEPT ![d] = ~@]
    /\ UNCHANGED <<now, rowVars, connection, workerVars, engineVars, recorded>>

RefreshStatus(d, c) ==
    /\ connection[d] # "nonaktif"
    /\ c # connection[d]
    /\ connection' = [connection EXCEPT ![d] = c]
    /\ UNCHANGED <<now, rowVars, paused, workerVars, engineVars, recorded>>

Deactivate(d) ==
    /\ connection[d] # "nonaktif"
    /\ connection' = [connection EXCEPT ![d] = "nonaktif"]
    /\ UNCHANGED <<now, rowVars, paused, workerVars, engineVars, recorded>>

\* The module's card takes the number back.
Reactivate(d) ==
    /\ connection[d] = "nonaktif"
    /\ connection' = [connection EXCEPT ![d] = "terputus"]
    /\ UNCHANGED <<now, rowVars, paused, workerVars, engineVars, recorded>>

\* Time passes; a live process is never past its deadline.
Tick ==
    /\ now < MaxNow
    /\ \A p \in Process : Sending(p) => now < deadline[p]
    /\ now' = now + 1
    /\ UNCHANGED <<rowVars, deviceVars, workerVars, engineVars, recorded>>

-----------------------------------------------------------------------------

\* All of applyResult.
ApplyResult(p) == ApplyOk(p) \/ ApplyDevice(p) \/ ApplyRetry(p) \/ ApplyFailure(p)

WorkerStep(p) ==
    \/ ExpireDue(p)
    \/ ListDevices(p)
    \/ \E d \in Device : CheckRate(p, d) \/ SkipDevice(p, d)
    \/ EndRound(p)
    \/ Claim(p)
    \/ ReleaseLease(p)
    \/ RejectLocally(p)
    \/ CallEngine(p)
    \/ Timeout(p)
    \/ ApplyResult(p)

EngineStep ==
    \/ \E k \in pending : EngineSend(k)
    \/ \E p \in Process : EngineAnswer(p)
    \/ \E o \in Outbox, r \in Receipt : IngestReceipt(o, r)
    \/ \E d \in Device, c \in Connection \ {"nonaktif"} : RefreshStatus(d, c)

AdminStep ==
    \/ \E o \in Outbox : Retry(o) \/ Cancel(o)
    \/ \E d \in Device : SetPaused(d) \/ Deactivate(d) \/ Reactivate(d)

Next ==
    \/ \E o \in Outbox : Accept(o)
    \/ \E p \in Process : WorkerStep(p) \/ Crash(p)
    \/ EngineStep
    \/ AdminStep
    \/ Tick

\* Rounds are started by a timer and every engine call times out: a worker
\* goes on.  Nothing is assumed of the engine, the administrators or the senders.
Fairness ==
    /\ \A p \in Process : WF_vars(WorkerStep(p))
    /\ WF_vars(Tick)

Spec == Init /\ [][Next]_vars /\ Fairness

-----------------------------------------------------------------------------
(* Properties. *)

\* Every variable stays within its type.
TypeOK ==
    /\ now \in Nat
    /\ status \in [Outbox -> RowStatus]
    /\ errorCode \in [Outbox -> ErrorCode]
    /\ attempts \in [Outbox -> Nat]
    /\ nextAttemptAt \in [Outbox -> Nat]
    /\ expiresAt \in [Outbox -> Nat]
    /\ providerAt \in [Outbox -> Nat \cup {Never}]
    /\ created \in [Outbox -> Nat]
    /\ connection \in [Device -> Connection]
    /\ paused \in [Device -> BOOLEAN]
    /\ pc \in [Process -> WorkerPc]
    /\ todo \in [Process -> SUBSET Device]
    /\ device \in [Process -> Device \cup {NoDevice}]
    /\ row \in [Process -> Outbox \cup {NoRow}]
    /\ tries \in [Process -> Nat]
    /\ deadline \in [Process -> Nat]
    /\ result \in [Process -> Result]
    /\ served \in [Process -> Configuration]
    /\ pending \subseteq [outbox : Outbox]
    /\ sent \subseteq [outbox : Outbox]
    /\ recorded \in [Outbox -> SUBSET Receipt]

\* "claims use FOR UPDATE SKIP LOCKED with a lease so two processes would not
\* double-send": no two live processes ever hold the same row, whatever is
\* cancelled, expired, retried, crashed or answered late in between.
SendExclusive ==
    \A p, q \in Process : Sending(p) /\ Sending(q) /\ row[p] = row[q] => p = q

\* MAX_SEND_ATTEMPTS bounds the attempts of a row although the decision to
\* retry is taken on attempts read before the engine was called, and a queued
\* row always has one left.
AttemptsBounded ==
    \A o \in Outbox :
       /\ attempts[o] <= MaxSendAttempts
       /\ status[o] = "antre" => attempts[o] < MaxSendAttempts

\* A message shown as handed over, delivered or read has left through the
\* engine: neither a lost answer nor another row's result makes one up.
ConfirmedWasSent ==
    \A o \in Outbox :
       status[o] \in HandedOver => WasSent(o) /\ providerAt[o] # Never

\* No number hands over more than rate_per_menit messages in any rolling minute.
RateRespected ==
    \A d \in Device : Cardinality(RecentlyHandedOver(d)) <= Rate

\* Every accepted message gets an answer: a queued row leaves the queue, be its
\* number paused, disconnected or deactivated and whatever the engine does.
Settles ==
    \A o \in Outbox : status[o] = "antre" ~> status[o] # "antre"

\* Section 5.3: terkirim follows from the message.delivered event, and section
\* 6.3 has no event missed: a handed-over message whose delivery is stored in
\* kirim_events is not left at diserahkan.  The code does not keep this: a receipt that
\* comes before the send's own result is stored finds no message.
DeliveryShown ==
    \A o \in Outbox :
       status[o] = "diserahkan" => "terkirim" \notin recorded[o]

=============================================================================
