-------------------------- MODULE KirimOutboxProofs --------------------------
(***************************************************************************)
(* What the send queue keeps for every set of rows, numbers and processes, *)
(* every window, rate and lease longer than a send.                        *)
(*                                                                         *)
(* The inductive invariant says what a process may rely on between its     *)
(* claim and its result: nobody else holds the row, the row's lease        *)
(* outlives the send, and the row's attempts are those read at the claim   *)
(* unless the row has left the queue for good.                             *)
(***************************************************************************)
EXTENDS KirimOutboxLifecycle, FiniteSetTheorems, TLAPS

\* A row that left the queue under a process never comes back to it: it is
\* cancelled, or expired and so not retryable.
LeftForGood(o) == status[o] = "dibatalkan" \/ (status[o] = "gagal" /\ errorCode[o] = "expired")

HeldRow ==
    \A p \in Process : Sending(p) =>
       /\ row[p] \in Outbox
       /\ device[p] = DeviceOf[row[p]]
       /\ tries[p] < MaxSendAttempts
       /\ now <= deadline[p]
       /\ status[row[p]] = "antre" \/ LeftForGood(row[p])

LeaseHeld ==
    \A p \in Process : Sending(p) /\ status[row[p]] = "antre" =>
       /\ deadline[p] < nextAttemptAt[row[p]]
       /\ attempts[row[p]] = tries[p]

RatedDevice == \A p \in Process : pc[p] = "rated" => device[p] \in Device

OkWasSent == \A p \in Process : pc[p] = "answered" /\ result[p] = "ok" => EngineKey(row[p]) \in sent

PendingAccepted == \A k \in pending : status[k.outbox] # "none"

\* What a process may rely on while it holds a row.
Held == RatedDevice /\ HeldRow /\ LeaseHeld /\ SendExclusive /\ OkWasSent

Untried == \A o \in Outbox : status[o] = "none" => attempts[o] = 0

\* What holds of the rows whoever works on them.
Rows == AttemptsBounded /\ ConfirmedWasSent /\ PendingAccepted /\ Untried

IInv == TypeOK /\ Held /\ Rows

-----------------------------------------------------------------------------

\* A row that waits for the window waits for a moment of the clock, later than now.
LEMMA NextOpenAtLater ==
    ASSUME NEW t \in Nat
    PROVE  NextOpenAt(t) \in Nat /\ (~WindowOpen(t) => NextOpenAt(t) > t)
<1>1. DayOffset(t) \in 0 .. (Day - 1) /\ DayOffset(t) <= t
  BY DayAssumption DEF DayOffset
<1> QED BY <1>1, DayAssumption, WindowAssumption DEF NextOpenAt, WindowOpen

\* What the assumptions say of the constants, in the forms used below.
LEMMA ConstantTypes ==
    /\ DeviceOf \in [Outbox -> Device]
    /\ TtlOf \in [Outbox -> Nat \ {0}]
    /\ SendMax \in Nat /\ Lease \in Nat /\ SendMax < Lease
    /\ MaxSendAttempts \in Nat /\ MaxSendAttempts > 0
    /\ \A n \in Nat : n + 1 < MaxSendAttempts => RetryDelays[n + 1] \in Nat
  BY RowAssumption, LeaseAssumption, RetryAssumption DEF MaxSendAttempts

\* The initial states have the right types.
LEMMA TypeInit == Init => TypeOK
  BY DEF Init, TypeOK, RowStatus, ErrorCode, Never, Connection, WorkerPc, Result

USE DEF Overdue, LeaseEnd, TimeoutResult, AttemptsAfterRetry, Forget, vars, rowVars, deviceVars, workerVars, engineVars

\* Every step keeps the types.
LEMMA TypeStep == TypeOK /\ HeldRow /\ [Next]_vars => TypeOK'
<1> SUFFICES ASSUME TypeOK, HeldRow, [Next]_vars PROVE TypeOK'
  OBVIOUS
<1> USE DEF TypeOK, RowStatus, ErrorCode, Connection, WorkerPc, Result
<1>1. CASE UNCHANGED vars
  BY <1>1
<1>2. ASSUME NEW o \in Outbox, Accept(o) PROVE TypeOK'
  <2>1. Cardinality(Accepted) + 1 \in Nat
    <3>1. Accepted \subseteq Outbox
      BY DEF Accepted
    <3>2. IsFiniteSet(Accepted)
      BY <3>1, RowAssumption, FS_Subset
    <3>3. Cardinality(Accepted) \in Nat
      BY <3>2, FS_CardinalityType
    <3> QED BY <3>3
  <2>2. TtlOf[o] \in Nat
    BY ConstantTypes
  <2>3. created' \in [Outbox -> Nat]
    BY <1>2, <2>1 DEF Accept
  <2> QED BY <1>2, <2>2, <2>3 DEF Accept
<1>3. ASSUME NEW p \in Process, ExpireDue(p) PROVE TypeOK'
  BY <1>3 DEF ExpireDue
<1>4. ASSUME NEW p \in Process, ListDevices(p) PROVE TypeOK'
  BY <1>4 DEF ListDevices
<1>5. ASSUME NEW p \in Process, NEW d \in Device, CheckRate(p, d) \/ SkipDevice(p, d) PROVE TypeOK'
  <2>1. ASSUME CheckRate(p, d) PROVE TypeOK'
    <3>1. pc' \in [Process -> WorkerPc] /\ todo' \in [Process -> SUBSET Device]
      BY <2>1 DEF CheckRate
    <3>2. device' \in [Process -> Device \cup {NoDevice}]
      BY <2>1 DEF CheckRate
    <3> QED BY <2>1, <3>1, <3>2 DEF CheckRate
  <2>2. ASSUME SkipDevice(p, d) PROVE TypeOK'
    BY <2>2 DEF SkipDevice
  <2> QED BY <1>5, <2>1, <2>2
<1>6. ASSUME NEW p \in Process, EndRound(p) PROVE TypeOK'
  BY <1>6 DEF EndRound
<1>7. ASSUME NEW p \in Process, Claim(p) PROVE TypeOK'
  <2> DEFINE first == FirstToSend(device[p])
  <2>1. first \subseteq Outbox
    BY DEF FirstToSend, Due
  <2>2. nextAttemptAt' \in [Outbox -> Nat]
    BY <1>7, ConstantTypes, NextOpenAtLater DEF Claim
  <2>3. status' \in [Outbox -> RowStatus] /\ errorCode' \in [Outbox -> ErrorCode]
    BY <1>7 DEF Claim
  <2>4. CASE first = {}
    BY <1>7, <2>2, <2>3, <2>4 DEF Claim
  <2>5. CASE first # {}
    <3>1. PICK o \in first : /\ pc' = [pc EXCEPT ![p] = "claimed"]
                             /\ row' = [row EXCEPT ![p] = o]
                             /\ tries' = [tries EXCEPT ![p] = attempts[o]]
                             /\ deadline' = [deadline EXCEPT ![p] = now + SendMax]
      BY <1>7, <2>5 DEF Claim
    <3>2. /\ pc' \in [Process -> WorkerPc]
          /\ row' \in [Process -> Outbox \cup {NoRow}]
          /\ tries' \in [Process -> Nat]
          /\ deadline' \in [Process -> Nat]
      BY <2>1, <3>1, ConstantTypes
    <3> QED BY <1>7, <2>2, <2>3, <2>5, <3>2 DEF Claim
  <2> QED BY <2>4, <2>5
<1>8. ASSUME NEW p \in Process, ReleaseLease(p) \/ RejectLocally(p) \/ Timeout(p) PROVE TypeOK'
  <2>1. CASE ReleaseLease(p)
    BY <2>1 DEF ReleaseLease
  <2>2. CASE RejectLocally(p)
    BY <2>2 DEF RejectLocally
  <2>3. CASE Timeout(p)
    BY <2>3 DEF Timeout
  <2> QED BY <1>8, <2>1, <2>2, <2>3
<1>9. ASSUME NEW p \in Process, CallEngine(p) PROVE TypeOK'
  <2>1. row[p] \in Outbox
    BY <1>9 DEF CallEngine, HeldRow, Sending
  <2> QED BY <1>9, <2>1 DEF CallEngine, EngineKey
<1>10. ASSUME NEW p \in Process, ApplyOk(p) \/ ApplyDevice(p) PROVE TypeOK'
  <2>1. CASE ApplyOk(p)
    BY <2>1 DEF ApplyOk
  <2>2. CASE ApplyDevice(p)
    <3>1. connection' \in [Device -> Connection]
      BY <2>2 DEF ApplyDevice, Disconnected
    <3> QED BY <2>2, <3>1 DEF ApplyDevice
  <2> QED BY <1>10, <2>1, <2>2
<1>11. ASSUME NEW p \in Process, ApplyRetry(p) \/ ApplyFailure(p) PROVE TypeOK'
  <2>1. CASE ApplyRetry(p)
    <3>1. RetryDelays[tries[p] + 1] \in Nat
      BY <2>1, ConstantTypes DEF ApplyRetry, WillRetry, MayRetry
    <3>2. nextAttemptAt' \in [Outbox -> Nat]
      BY <2>1, <3>1 DEF ApplyRetry
    <3> QED BY <2>1, <3>2 DEF ApplyRetry
  <2>2. CASE ApplyFailure(p)
    BY <2>2 DEF ApplyFailure
  <2> QED BY <1>11, <2>1, <2>2
<1>12. ASSUME NEW p \in Process, Crash(p) PROVE TypeOK'
  BY <1>12 DEF Crash
<1>13. ASSUME NEW k \in pending, EngineSend(k) PROVE TypeOK'
  BY <1>13 DEF EngineSend
<1>14. ASSUME NEW p \in Process, EngineAnswer(p) PROVE TypeOK'
  BY <1>14 DEF EngineAnswer
<1>15. ASSUME NEW o \in Outbox, NEW r \in Receipt, IngestReceipt(o, r) PROVE TypeOK'
  <2>1. \A m \in Outbox : AdvanceStatus(status[m], r) \in RowStatus
    BY DEF AdvanceStatus, Receipt
  <2>2. status' \in [Outbox -> RowStatus] /\ errorCode' \in [Outbox -> ErrorCode]
    BY <1>15, <2>1 DEF IngestReceipt
  <2> QED BY <1>15, <2>2 DEF IngestReceipt
<1>16. ASSUME NEW d \in Device, NEW c \in Connection, RefreshStatus(d, c) PROVE TypeOK'
  BY <1>16 DEF RefreshStatus
<1>17. ASSUME NEW o \in Outbox, Retry(o) \/ Cancel(o) PROVE TypeOK'
  <2>1. CASE Retry(o)
    BY <2>1 DEF Retry
  <2>2. CASE Cancel(o)
    BY <2>2 DEF Cancel
  <2> QED BY <1>17, <2>1, <2>2
<1>18. ASSUME NEW d \in Device, SetPaused(d) \/ Deactivate(d) \/ Reactivate(d) PROVE TypeOK'
  <2>1. CASE SetPaused(d)
    BY <2>1 DEF SetPaused
  <2>2. CASE Deactivate(d) \/ Reactivate(d)
    BY <2>2 DEF Deactivate, Reactivate
  <2> QED BY <1>18, <2>1, <2>2
<1>19. CASE Tick
  BY <1>19 DEF Tick
<1> QED
  BY <1>1, <1>2, <1>3, <1>4, <1>5, <1>6, <1>7, <1>8, <1>9, <1>10, <1>11, <1>12, <1>13,
     <1>14, <1>15, <1>16, <1>17, <1>18, <1>19
  DEF Next, WorkerStep, ApplyResult, EngineStep, AdminStep

-----------------------------------------------------------------------------
(* What a process holds.  Every action but Claim either takes a process off *)
(* its row or keeps it where it was, with the row as it was or gone for     *)
(* good.                                                                    *)

Keeps(q) ==
    Sending(q)' =>
       /\ Sending(q)
       /\ row'[q] = row[q]
       /\ device'[q] = device[q]
       /\ tries'[q] = tries[q]
       /\ deadline'[q] = deadline[q]
       /\ now' <= deadline[q]
       /\ \/ LeftForGood(row[q])'
          \/ /\ status'[row[q]] = "antre" /\ status[row[q]] = "antre"
             /\ nextAttemptAt'[row[q]] = nextAttemptAt[row[q]]
             /\ attempts'[row[q]] = attempts[row[q]]
       /\ pc'[q] = "answered" /\ result'[q] = "ok" => EngineKey(row[q]) \in sent'

\* A step that leaves each process what it holds keeps Held.
LEMMA KeepsHeld ==
    ASSUME Held, \A q \in Process : Keeps(q),
           \A q \in Process : pc'[q] = "rated" => device'[q] \in Device
    PROVE  Held'
<1>1. HeldRow'
  BY DEF Held, HeldRow, Keeps, LeftForGood, Sending
<1>2. LeaseHeld'
  BY DEF Held, LeaseHeld, Keeps, LeftForGood, Sending
<1>3. SendExclusive'
  BY DEF Held, SendExclusive, Keeps
<1>4. OkWasSent'
  BY DEF Held, OkWasSent, Keeps, EngineKey, Sending
<1> QED BY <1>1, <1>2, <1>3, <1>4 DEF Held, RatedDevice

\* Nothing changes but the steps of processes that stay off a row or on it.
LEMMA WorkerMove ==
    ASSUME TypeOK, Held, UNCHANGED <<now, rowVars>>, sent \subseteq sent',
           \A q \in Process :
              \/ /\ pc'[q] = pc[q] /\ row'[q] = row[q] /\ device'[q] = device[q]
                 /\ tries'[q] = tries[q] /\ deadline'[q] = deadline[q] /\ result'[q] = result[q]
              \/ pc'[q] \in {"idle", "expired", "round"}
              \/ pc'[q] = "rated" /\ device'[q] \in Device
              \/ /\ Sending(q) /\ Sending(q)' /\ row'[q] = row[q] /\ device'[q] = device[q]
                 /\ tries'[q] = tries[q] /\ deadline'[q] = deadline[q]
                 /\ pc'[q] = "answered" /\ result'[q] = "ok" => EngineKey(row[q]) \in sent
    PROVE  Held'
<1>1. ASSUME NEW q \in Process PROVE Keeps(q)
  <2>1. CASE ~Sending(q)'
    BY <2>1 DEF Keeps
  <2>2. CASE Sending(q)'
    <3>1. /\ Sending(q) /\ row'[q] = row[q] /\ device'[q] = device[q]
          /\ tries'[q] = tries[q] /\ deadline'[q] = deadline[q]
      BY <2>2 DEF Sending
    <3>2. pc'[q] = "answered" /\ result'[q] = "ok" => EngineKey(row[q]) \in sent'
      BY <2>2 DEF Sending, Held, OkWasSent
    <3>3. now' <= deadline[q] /\ (status[row[q]] = "antre" \/ LeftForGood(row[q]))
      BY <3>1 DEF Held, HeldRow
    <3> QED BY <3>1, <3>2, <3>3 DEF Keeps, LeftForGood
  <2> QED BY <2>1, <2>2
<1>2. \A q \in Process : pc'[q] = "rated" => device'[q] \in Device
  BY DEF Held, RatedDevice, Sending
<1> QED BY <1>1, <1>2, KeepsHeld

\* A process is done with its row and touches that row only, if it is still queued.
LEMMA Release ==
    ASSUME TypeOK, Held, NEW p \in Process, Sending(p), Forget(p), now' = now, sent' = sent,
           \A o \in Outbox \ {row[p]} :
              /\ status'[o] = status[o] /\ errorCode'[o] = errorCode[o]
              /\ attempts'[o] = attempts[o] /\ nextAttemptAt'[o] = nextAttemptAt[o]
    PROVE  Held'
<1>1. ASSUME NEW q \in Process PROVE Keeps(q)
  <2>1. CASE q = p
    BY <2>1 DEF Keeps, Sending, Forget, TypeOK
  <2>2. CASE q # p /\ Sending(q)
    <3>1. row[q] # row[p] /\ row[q] \in Outbox
      BY <2>2 DEF Held, HeldRow, SendExclusive
    <3>2. /\ pc'[q] = pc[q] /\ row'[q] = row[q] /\ device'[q] = device[q]
          /\ tries'[q] = tries[q] /\ deadline'[q] = deadline[q] /\ result'[q] = result[q]
      BY <2>2 DEF Forget, TypeOK
    <3>3. now' <= deadline[q] /\ (status[row[q]] = "antre" \/ LeftForGood(row[q]))
      BY <2>2 DEF Held, HeldRow
    <3>4. pc'[q] = "answered" /\ result'[q] = "ok" => EngineKey(row[q]) \in sent'
      BY <3>2 DEF Held, OkWasSent
    <3> QED BY <2>2, <3>1, <3>2, <3>3, <3>4 DEF Keeps, LeftForGood
  <2>3. CASE q # p /\ ~Sending(q)
    BY <2>3 DEF Keeps, Forget, TypeOK, Sending
  <2> QED BY <2>1, <2>2, <2>3
<1>2. \A q \in Process : pc'[q] = "rated" => device'[q] \in Device
  BY DEF Held, RatedDevice, Forget, TypeOK
<1> QED BY <1>1, <1>2, KeepsHeld

\* The rows change and no process takes one: a row in some process's hand stays as
\* it is or is gone for good.
LEMMA RowMove ==
    ASSUME TypeOK, Held, now' = now, sent \subseteq sent',
           \A q \in Process :
              \/ /\ pc'[q] = pc[q] /\ row'[q] = row[q] /\ device'[q] = device[q]
                 /\ tries'[q] = tries[q] /\ deadline'[q] = deadline[q] /\ result'[q] = result[q]
              \/ pc'[q] \in {"idle", "expired", "round"},
           \A o \in Outbox : status[o] = "antre" \/ LeftForGood(o) =>
              \/ LeftForGood(o)'
              \/ /\ status'[o] = status[o] /\ attempts'[o] = attempts[o]
                 /\ nextAttemptAt'[o] = nextAttemptAt[o] /\ errorCode'[o] = errorCode[o]
    PROVE  Held'
<1>1. ASSUME NEW q \in Process PROVE Keeps(q)
  <2>1. CASE ~Sending(q)'
    BY <2>1 DEF Keeps
  <2>2. CASE Sending(q)'
    <3>0. /\ Sending(q) /\ pc'[q] = pc[q] /\ row'[q] = row[q] /\ device'[q] = device[q]
          /\ tries'[q] = tries[q] /\ deadline'[q] = deadline[q] /\ result'[q] = result[q]
      BY <2>2 DEF Sending
    <3>1. /\ row[q] \in Outbox
          /\ now <= deadline[q]
          /\ status[row[q]] = "antre" \/ LeftForGood(row[q])
      BY <3>0 DEF Held, HeldRow
    <3>2. pc'[q] = "answered" /\ result'[q] = "ok" => EngineKey(row[q]) \in sent'
      BY <3>0 DEF Held, OkWasSent
    <3> QED BY <3>0, <3>1, <3>2 DEF Keeps, LeftForGood
  <2> QED BY <2>1, <2>2
<1>2. \A q \in Process : pc'[q] = "rated" => device'[q] \in Device
  BY DEF Held, RatedDevice
<1> QED BY <1>1, <1>2, KeepsHeld

\* A claim takes a row nobody holds, for the lease is over on the clock every
\* holder is in time with.
LEMMA ClaimHeld == ASSUME TypeOK, Held, Rows, NEW p \in Process, Claim(p) PROVE Held'
<1>1. pc[p] = "rated"
  BY DEF Claim
<1>2. ASSUME NEW o \in Due(device[p]), NEW q \in Process, Sending(q) PROVE row[q] # o
  BY <1>2 DEF Held, HeldRow, LeaseHeld, Due, TypeOK
<1>3. \A o \in Outbox \ Due(device[p]) :
        /\ status'[o] = status[o] /\ errorCode'[o] = errorCode[o]
        /\ attempts'[o] = attempts[o] /\ nextAttemptAt'[o] = nextAttemptAt[o]
  BY DEF Claim, Examined, FirstToSend, TypeOK
<1>4. ASSUME NEW q \in Process, q # p PROVE Keeps(q)
  <2>1. /\ pc'[q] = pc[q] /\ row'[q] = row[q] /\ device'[q] = device[q] /\ sent' = sent
        /\ tries'[q] = tries[q] /\ deadline'[q] = deadline[q] /\ result'[q] = result[q]
        /\ now' = now
    BY <1>4 DEF Claim, TypeOK
  <2>2. CASE ~Sending(q)
    BY <2>1, <2>2 DEF Keeps, Sending
  <2>3. CASE Sending(q)
    <3>1. /\ row[q] \in Outbox \ Due(device[p])
          /\ now <= deadline[q]
          /\ status[row[q]] = "antre" \/ LeftForGood(row[q])
      BY <1>2, <2>3 DEF Held, HeldRow
    <3>2. pc'[q] = "answered" /\ result'[q] = "ok" => EngineKey(row[q]) \in sent'
      BY <2>1 DEF Held, OkWasSent
    <3> QED BY <1>3, <2>1, <2>3, <3>1, <3>2 DEF Keeps, LeftForGood
  <2> QED BY <2>2, <2>3
<1>5. CASE FirstToSend(device[p]) = {}
  <2>1. pc' = [pc EXCEPT ![p] = "round"] /\ device' = [device EXCEPT ![p] = NoDevice]
    BY <1>5 DEF Claim
  <2>2. \A q \in Process : Keeps(q)
    BY <1>4, <2>1 DEF Keeps, Sending, TypeOK
  <2>3. \A q \in Process : pc'[q] = "rated" => device'[q] \in Device
    BY <2>1 DEF Held, RatedDevice, TypeOK
  <2> QED BY <2>2, <2>3, KeepsHeld
<1>6. CASE FirstToSend(device[p]) # {}
  <2>1. PICK o \in FirstToSend(device[p]) :
           /\ pc' = [pc EXCEPT ![p] = "claimed"]
           /\ row' = [row EXCEPT ![p] = o]
           /\ tries' = [tries EXCEPT ![p] = attempts[o]]
           /\ deadline' = [deadline EXCEPT ![p] = now + SendMax]
           /\ device' = device
    BY <1>6 DEF Claim
  <2>2. /\ o \in Outbox /\ o \in Due(device[p]) /\ DeviceOf[o] = device[p]
        /\ status[o] = "antre" /\ Decide(o) = "send"
    BY DEF FirstToSend, Due
  <2>3. /\ status'[o] = "antre"
        /\ attempts'[o] = attempts[o]
        /\ nextAttemptAt'[o] = now + Lease
        /\ now' = now
    BY <2>2 DEF Claim
  <2>4. /\ pc'[p] = "claimed" /\ row'[p] = o /\ tries'[p] = attempts[o]
        /\ deadline'[p] = now + SendMax /\ device'[p] = DeviceOf[o]
    BY <2>1, <2>2 DEF TypeOK
  <2>5. ASSUME NEW q \in Process, q # p PROVE row'[q] = row[q] /\ pc'[q] = pc[q] /\ (Sending(q)' => Sending(q))
    BY <2>1, <2>5 DEF TypeOK, Sending
  <2>6. HeldRow'
    <3>1. attempts[o] < MaxSendAttempts /\ now <= now + SendMax
      BY <2>2, ConstantTypes DEF Rows, AttemptsBounded, TypeOK
    <3> QED BY <1>4, <2>2, <2>3, <2>4, <3>1 DEF Held, HeldRow, Keeps, LeftForGood, Sending
  <2>7. LeaseHeld'
    <3>1. now + SendMax < now + Lease
      BY ConstantTypes DEF TypeOK
    <3> QED BY <1>4, <2>3, <2>4, <3>1 DEF Held, LeaseHeld, Keeps, LeftForGood, Sending
  <2>8. SendExclusive'
    BY <1>2, <2>2, <2>4, <2>5 DEF Held, SendExclusive
  <2>9. OkWasSent'
    BY <1>4, <2>4 DEF Held, OkWasSent, Keeps, Sending, EngineKey
  <2>10. RatedDevice'
    BY <2>1 DEF Held, RatedDevice, TypeOK
  <2> QED BY <2>6, <2>7, <2>8, <2>9, <2>10 DEF Held
<1> QED BY <1>5, <1>6

\* Every step keeps what the workers hold.
LEMMA HeldStep == IInv /\ [Next]_vars => Held'
<1> SUFFICES ASSUME IInv, [Next]_vars PROVE Held'
  OBVIOUS
<1>0. TypeOK /\ Held /\ Rows
  BY DEF IInv
<1>1. CASE UNCHANGED vars
  BY <1>0, <1>1, WorkerMove
<1>2. ASSUME NEW o \in Outbox, Accept(o) PROVE Held'
  BY <1>0, <1>2, RowMove DEF Accept, LeftForGood, TypeOK
<1>3. ASSUME NEW p \in Process, ExpireDue(p) PROVE Held'
  BY <1>0, <1>3, RowMove DEF ExpireDue, LeftForGood, TypeOK
<1>4. ASSUME NEW p \in Process, ListDevices(p) PROVE Held'
  BY <1>0, <1>4, WorkerMove DEF ListDevices, TypeOK
<1>5. ASSUME NEW p \in Process, NEW d \in Device, CheckRate(p, d) \/ SkipDevice(p, d) PROVE Held'
  BY <1>0, <1>5, WorkerMove DEF CheckRate, SkipDevice, TypeOK
<1>6. ASSUME NEW p \in Process, EndRound(p) PROVE Held'
  BY <1>0, <1>6, WorkerMove DEF EndRound, TypeOK
<1>7. ASSUME NEW p \in Process, Claim(p) PROVE Held'
  BY <1>0, <1>7, ClaimHeld
<1>8. ASSUME NEW p \in Process, ReleaseLease(p) PROVE Held'
  BY <1>0, <1>8, Release DEF ReleaseLease, Sending
<1>9. ASSUME NEW p \in Process, RejectLocally(p) PROVE Held'
  BY <1>0, <1>9, WorkerMove DEF RejectLocally, TypeOK, Sending
<1>10. ASSUME NEW p \in Process, CallEngine(p) PROVE Held'
  BY <1>0, <1>10, WorkerMove DEF CallEngine, TypeOK, Sending
<1>11. ASSUME NEW p \in Process, Timeout(p) PROVE Held'
  BY <1>0, <1>11, WorkerMove DEF Timeout, TypeOK, Sending
<1>12. ASSUME NEW p \in Process, ApplyOk(p) PROVE Held'
  BY <1>0, <1>12, Release DEF ApplyOk, Sending
<1>13. ASSUME NEW p \in Process, ApplyDevice(p) PROVE Held'
  BY <1>0, <1>13, Release DEF ApplyDevice, Sending
<1>14. ASSUME NEW p \in Process, ApplyRetry(p) PROVE Held'
  BY <1>0, <1>14, Release DEF ApplyRetry, Sending
<1>15. ASSUME NEW p \in Process, ApplyFailure(p) PROVE Held'
  BY <1>0, <1>15, Release DEF ApplyFailure, Sending
<1>16. ASSUME NEW p \in Process, Crash(p) PROVE Held'
  BY <1>0, <1>16, WorkerMove DEF Crash, TypeOK
<1>17. ASSUME NEW k \in pending, EngineSend(k) PROVE Held'
  BY <1>0, <1>17, WorkerMove DEF EngineSend
<1>18. ASSUME NEW p \in Process, EngineAnswer(p) PROVE Held'
  BY <1>0, <1>18, WorkerMove DEF EngineAnswer, TypeOK, Sending
<1>19. ASSUME NEW o \in Outbox, NEW r \in Receipt, IngestReceipt(o, r) PROVE Held'
  BY <1>0, <1>19, RowMove DEF IngestReceipt, Advances, LeftForGood, TypeOK
<1>20. ASSUME NEW o \in Outbox, Retry(o) PROVE Held'
  BY <1>0, <1>20, RowMove DEF Retry, NotRetryable, LeftForGood, TypeOK
<1>21. ASSUME NEW o \in Outbox, Cancel(o) PROVE Held'
  BY <1>0, <1>21, RowMove DEF Cancel, LeftForGood, TypeOK
<1>22. ASSUME NEW d \in Device, NEW c \in Connection,
              RefreshStatus(d, c) \/ SetPaused(d) \/ Deactivate(d) \/ Reactivate(d)
       PROVE Held'
  BY <1>0, <1>22, WorkerMove DEF RefreshStatus, SetPaused, Deactivate, Reactivate
<1>23. CASE Tick
  <2>1. ASSUME NEW q \in Process PROVE Keeps(q)
    BY <1>0, <1>23 DEF Tick, Keeps, Sending, Held, HeldRow, OkWasSent, LeftForGood, TypeOK
  <2>2. \A q \in Process : pc'[q] = "rated" => device'[q] \in Device
    BY <1>0, <1>23 DEF Tick, Held, RatedDevice
  <2> QED BY <1>0, <2>1, <2>2, KeepsHeld
<1>24. ASSUME NEW p \in Process, WorkerStep(p) PROVE Held'
  BY <1>24, <1>3, <1>4, <1>5, <1>6, <1>7, <1>8, <1>9, <1>10, <1>11, <1>12, <1>13, <1>14, <1>15
  DEF WorkerStep, ApplyResult
<1>25. ASSUME EngineStep PROVE Held'
  BY <1>25, <1>17, <1>18, <1>19, <1>22 DEF EngineStep
<1>26. ASSUME AdminStep PROVE Held'
  BY <1>26, <1>20, <1>21, <1>22 DEF AdminStep, Connection
<1> QED
  BY <1>1, <1>2, <1>16, <1>23, <1>24, <1>25, <1>26 DEF Next

-----------------------------------------------------------------------------
(* The rows themselves. *)

\* A row stays as it is, or what becomes of it is within Rows.
RowFine(o) ==
    \/ /\ status'[o] = status[o] /\ attempts'[o] = attempts[o]
       /\ providerAt'[o] = providerAt[o]
    \/ /\ status'[o] # "none"
       /\ attempts'[o] <= MaxSendAttempts
       /\ status'[o] = "antre" => attempts'[o] < MaxSendAttempts
       /\ status'[o] \in HandedOver => WasSent(o)' /\ providerAt'[o] # Never

\* A step after which each row is fine keeps what holds of the rows.
LEMMA RowsKeep ==
    ASSUME TypeOK, Rows, sent \subseteq sent', \A o \in Outbox : RowFine(o),
           \A k \in pending' : k \in pending \/ status[k.outbox] # "none",
           pending' \subseteq [outbox : Outbox]
    PROVE  Rows'
<1>1. AttemptsBounded'
  BY DEF Rows, AttemptsBounded, TypeOK, RowFine
<1>2. ConfirmedWasSent'
  BY DEF Rows, ConfirmedWasSent, TypeOK, HandedOver, RowFine, WasSent
<1>3. PendingAccepted'
  BY DEF Rows, PendingAccepted, TypeOK, RowFine
<1>4. Untried'
  BY DEF Rows, Untried, RowFine
<1> QED BY <1>1, <1>2, <1>3, <1>4 DEF Rows

\* Every step keeps what holds of the rows.
LEMMA RowsStep == IInv /\ [Next]_vars => Rows'
<1> SUFFICES ASSUME IInv, [Next]_vars PROVE Rows'
  OBVIOUS
<1>0. TypeOK /\ Held /\ Rows
  BY DEF IInv
<1>a. pending \subseteq [outbox : Outbox] /\ \A k \in pending : status[k.outbox] # "none"
  BY <1>0 DEF TypeOK, Rows, PendingAccepted
<1>b. \A o \in Outbox : /\ attempts[o] \in Nat /\ attempts[o] <= MaxSendAttempts
                        /\ status[o] = "antre" => attempts[o] < MaxSendAttempts
                        /\ status[o] = "none" => attempts[o] = 0
  BY <1>0 DEF Rows, AttemptsBounded, Untried, TypeOK
<1>c. MaxSendAttempts \in Nat /\ MaxSendAttempts > 0
  BY ConstantTypes
<1>d. /\ status \in [Outbox -> RowStatus] /\ attempts \in [Outbox -> Nat]
      /\ providerAt \in [Outbox -> Nat \cup {Never}] /\ now \in Nat
  BY <1>0 DEF TypeOK
<1>1. CASE UNCHANGED <<rowVars, engineVars>>
  BY <1>0, <1>1, <1>a, RowsKeep DEF RowFine
<1>2. ASSUME NEW o \in Outbox, Accept(o) PROVE Rows'
  <2>1. ASSUME NEW m \in Outbox PROVE RowFine(m)
    <3>1. CASE m = o
      <4>1. status'[m] = "antre" /\ attempts'[m] = attempts[m] /\ attempts[m] = 0
        BY <1>2, <1>b, <1>d, <3>1 DEF Accept
      <4> QED BY <1>c, <4>1 DEF RowFine, HandedOver
    <3>2. CASE m # o
      BY <1>2, <1>d, <3>2 DEF Accept, RowFine
    <3> QED BY <3>1, <3>2
  <2> QED BY <1>0, <1>2, <1>a, <2>1, RowsKeep DEF Accept
<1>3. ASSUME NEW p \in Process, ExpireDue(p) PROVE Rows'
  <2>1. ASSUME NEW m \in Outbox PROVE RowFine(m)
    <3>1. status'[m] = status[m] \/ status'[m] = "gagal"
      BY <1>3 DEF ExpireDue
    <3>2. attempts'[m] = attempts[m] /\ providerAt'[m] = providerAt[m]
      BY <1>3 DEF ExpireDue
    <3> QED BY <1>b, <1>c, <3>1, <3>2 DEF RowFine, HandedOver
  <2> QED BY <1>0, <1>3, <1>a, <2>1, RowsKeep DEF ExpireDue
<1>4. ASSUME NEW p \in Process, Claim(p) PROVE Rows'
  <2>1. ASSUME NEW m \in Outbox PROVE RowFine(m)
    BY <1>4, <1>b, <1>d DEF Claim, RowFine, HandedOver
  <2> QED BY <1>0, <1>4, <1>a, <2>1, RowsKeep DEF Claim
<1>5. ASSUME NEW p \in Process, ReleaseLease(p) PROVE Rows'
  <2>1. ASSUME NEW m \in Outbox PROVE RowFine(m)
    BY <1>5, <1>b, <1>d DEF ReleaseLease, RowFine, HandedOver
  <2> QED BY <1>0, <1>5, <1>a, <2>1, RowsKeep DEF ReleaseLease
<1>6. ASSUME NEW p \in Process, CallEngine(p) PROVE Rows'
  <2>1. row[p] \in Outbox /\ status[row[p]] # "none"
    BY <1>0, <1>6 DEF CallEngine, Held, HeldRow, Sending, LeftForGood
  <2> QED BY <1>0, <1>6, <1>a, <2>1, RowsKeep DEF CallEngine, EngineKey, RowFine
<1>7. ASSUME NEW p \in Process, ApplyOk(p) PROVE Rows'
  <2>1. row[p] \in Outbox /\ EngineKey(row[p]) \in sent
    BY <1>0, <1>7 DEF ApplyOk, Held, HeldRow, OkWasSent, Sending
  <2>2. now # Never
    BY <1>0 DEF TypeOK, Never
  <2>3. ASSUME NEW m \in Outbox PROVE RowFine(m)
    <3>1. CASE m = row[p] /\ StillQueued(p)
      <4>1. status'[m] = "diserahkan" /\ attempts'[m] = attempts[m] + 1 /\ providerAt'[m] = now
        BY <1>7, <3>1 DEF ApplyOk
      <4>2. attempts'[m] <= MaxSendAttempts
        BY <1>b, <1>c, <3>1, <4>1 DEF StillQueued
      <4>3. WasSent(m)'
        BY <1>7, <2>1, <3>1 DEF ApplyOk, EngineKey, WasSent
      <4> QED BY <2>2, <4>1, <4>2, <4>3 DEF RowFine
    <3>2. CASE ~(m = row[p] /\ StillQueued(p))
      BY <1>7, <3>2 DEF ApplyOk, RowFine
    <3> QED BY <3>1, <3>2
  <2> QED BY <1>0, <1>7, <1>a, <2>3, RowsKeep DEF ApplyOk
<1>8. ASSUME NEW p \in Process, ApplyDevice(p) PROVE Rows'
  <2>1. ASSUME NEW m \in Outbox PROVE RowFine(m)
    BY <1>8, <1>b, <1>d DEF ApplyDevice, RowFine, HandedOver
  <2> QED BY <1>0, <1>8, <1>a, <2>1, RowsKeep DEF ApplyDevice
<1>9. ASSUME NEW p \in Process, ApplyRetry(p) PROVE Rows'
  <2>1. tries[p] + 1 < MaxSendAttempts
    BY <1>9 DEF ApplyRetry, WillRetry, MayRetry
  <2>2. row[p] \in Outbox /\ (StillQueued(p) => attempts[row[p]] = tries[p])
    BY <1>0, <1>9 DEF ApplyRetry, Held, HeldRow, LeaseHeld, Sending, StillQueued
  <2>3. ASSUME NEW m \in Outbox PROVE RowFine(m)
    BY <1>0, <1>9, <1>b, <1>c, <2>1, <2>2 DEF ApplyRetry, RowFine, StillQueued, HandedOver, TypeOK
  <2> QED BY <1>0, <1>9, <1>a, <2>3, RowsKeep DEF ApplyRetry
<1>10. ASSUME NEW p \in Process, ApplyFailure(p) PROVE Rows'
  <2>1. ASSUME NEW m \in Outbox PROVE RowFine(m)
    BY <1>10, <1>b, <1>c, <1>d DEF ApplyFailure, RowFine, HandedOver, StillQueued
  <2> QED BY <1>0, <1>10, <1>a, <2>1, RowsKeep DEF ApplyFailure
<1>11. ASSUME NEW k \in pending, EngineSend(k) PROVE Rows'
  BY <1>0, <1>11, <1>a, RowsKeep DEF EngineSend, RowFine
<1>12. ASSUME NEW p \in Process, EngineAnswer(p) PROVE Rows'
  <2>1. pending' \subseteq pending
    BY <1>12 DEF EngineAnswer
  <2> QED BY <1>0, <1>12, <1>a, <2>1, RowsKeep DEF EngineAnswer, RowFine
<1>13. ASSUME NEW o \in Outbox, NEW r \in Receipt, IngestReceipt(o, r) PROVE Rows'
  <2>1. ASSUME NEW m \in Outbox, status'[m] # status[m]
        PROVE  /\ status[m] \in HandedOver /\ status'[m] \in HandedOver
    BY <1>0, <1>13, <2>1 DEF IngestReceipt, Advances, AdvanceStatus, HandedOver, Receipt, TypeOK
  <2>2. \A m \in Outbox : status[m] \in HandedOver => WasSent(m) /\ providerAt[m] # Never
    BY <1>0 DEF Rows, ConfirmedWasSent
  <2>3. ASSUME NEW m \in Outbox PROVE RowFine(m)
    <3>1. WasSent(m)' = WasSent(m)
      BY <1>13 DEF IngestReceipt, WasSent
    <3> QED BY <1>13, <1>b, <1>c, <2>1, <2>2, <3>1 DEF IngestReceipt, RowFine, HandedOver
  <2> QED BY <1>0, <1>13, <1>a, <2>3, RowsKeep DEF IngestReceipt
<1>14. ASSUME NEW o \in Outbox, Retry(o) PROVE Rows'
  <2>1. ASSUME NEW m \in Outbox PROVE RowFine(m)
    BY <1>14, <1>c, <1>b, <1>d DEF Retry, RowFine, HandedOver
  <2> QED BY <1>0, <1>14, <1>a, <2>1, RowsKeep DEF Retry
<1>15. ASSUME NEW o \in Outbox, Cancel(o) PROVE Rows'
  <2>1. ASSUME NEW m \in Outbox PROVE RowFine(m)
    BY <1>15, <1>b, <1>d DEF Cancel, RowFine, HandedOver
  <2> QED BY <1>0, <1>15, <1>a, <2>1, RowsKeep DEF Cancel
<1>16. ASSUME NEW p \in Process, WorkerStep(p) PROVE Rows'
  <2>1. ASSUME \/ ListDevices(p) \/ EndRound(p) \/ RejectLocally(p) \/ Timeout(p)
               \/ \E d \in Device : CheckRate(p, d) \/ SkipDevice(p, d)
        PROVE  UNCHANGED <<rowVars, engineVars>>
    BY <2>1 DEF ListDevices, CheckRate, SkipDevice, EndRound, RejectLocally, Timeout
  <2> QED BY <1>16, <1>1, <1>3, <1>4, <1>5, <1>6, <1>7, <1>8, <1>9, <1>10, <2>1 DEF WorkerStep, ApplyResult
<1>17. ASSUME EngineStep PROVE Rows'
  BY <1>17, <1>1, <1>11, <1>12, <1>13 DEF EngineStep, RefreshStatus
<1>18. ASSUME AdminStep PROVE Rows'
  BY <1>18, <1>1, <1>14, <1>15 DEF AdminStep, SetPaused, Deactivate, Reactivate
<1>19. ASSUME Tick \/ (\E p \in Process : Crash(p)) \/ UNCHANGED vars PROVE UNCHANGED <<rowVars, engineVars>>
  BY <1>19 DEF Tick, Crash
<1> QED BY <1>1, <1>2, <1>16, <1>17, <1>18, <1>19 DEF Next

-----------------------------------------------------------------------------

\* The invariant holds at first.
LEMMA IInvInit == Init => IInv
<1> SUFFICES ASSUME Init PROVE IInv
  OBVIOUS
<1>1. Held
  BY DEF Init, Held, RatedDevice, HeldRow, LeaseHeld, SendExclusive, OkWasSent, Sending
<1>2. Rows
  BY ConstantTypes DEF Init, Rows, AttemptsBounded, ConfirmedWasSent, PendingAccepted, Untried, HandedOver
<1> QED BY <1>1, <1>2, TypeInit DEF IInv

\* Every step keeps the invariant.
LEMMA IInvStep == IInv /\ [Next]_vars => IInv'
  BY TypeStep, HeldStep, RowsStep DEF IInv, Held

\* The invariant holds in every state.
LEMMA Invariance == Spec => []IInv
  BY IInvInit, IInvStep, PTL DEF Spec

\* Every variable keeps its type.
THEOREM TypeCorrect == Spec => []TypeOK
  BY Invariance, PTL DEF IInv

\* Two processes never hold one row between claim and result, however many
\* processes, rows and crashes there are, as long as the lease is longer than a send.
THEOREM ExclusiveSend == Spec => []SendExclusive
  BY Invariance, PTL DEF IInv, Held

\* No row is tried more often than MAX_SEND_ATTEMPTS, and a queued one has a try left.
THEOREM BoundedAttempts == Spec => []AttemptsBounded
  BY Invariance, PTL DEF IInv, Rows

\* What is shown as handed over, delivered or read has left through the engine.
THEOREM NothingMadeUp == Spec => []ConfirmedWasSent
  BY Invariance, PTL DEF IInv, Rows

-----------------------------------------------------------------------------
(* The send queue implements the lifecycle of a message: each action is a   *)
(* step of MessageLifecycle or leaves it alone.                             *)

\* The initial states are initial states of MessageLifecycle.
LEMMA LifecycleInit == Init => Lifecycle!Init
  BY DEF Init, Lifecycle!Init, LifecycleState, LeftRows, WasSent

\* A step that leaves every message alone stutters in MessageLifecycle.
LEMMA LifecycleSame ==
    ASSUME UNCHANGED sent,
           \A o \in Outbox : \/ status'[o] = status[o] /\ errorCode'[o] = errorCode[o]
                             \/ status'[o] = status[o] /\ status[o] # "gagal"
    PROVE  UNCHANGED Lifecycle!vars
<1>1. LifecycleState' = LifecycleState
  BY DEF LifecycleState
<1>2. LeftRows' = LeftRows
  BY DEF LeftRows, WasSent
<1> QED BY <1>1, <1>2 DEF Lifecycle!vars

\* A step of one row is that row's step of the lifecycle.
LEMMA OneRow ==
    ASSUME NEW o \in Outbox, NEW from, NEW to, UNCHANGED sent,
           \A m \in Outbox \ {o} : status'[m] = status[m] /\ errorCode'[m] = errorCode[m],
           LifecycleState[o] = from,
           (IF status'[o] = "gagal" /\ errorCode'[o] = "expired" THEN "kedaluwarsa" ELSE status'[o]) = to
    PROVE  Lifecycle!Become(o, from, to) /\ LeftRows' = LeftRows
<1>1. LeftRows' = LeftRows
  BY DEF LeftRows, WasSent
<1>2. LifecycleState' = [LifecycleState EXCEPT ![o] = to]
  BY DEF LifecycleState
<1> QED BY <1>1, <1>2 DEF Lifecycle!Become

\* The rows of M expire, the others stay.
LEMMA SomeExpire ==
    ASSUME NEW M \in SUBSET Outbox, UNCHANGED sent, \A m \in M : status[m] = "antre",
           \A m \in Outbox : /\ status'[m] = IF m \in M THEN "gagal" ELSE status[m]
                             /\ errorCode'[m] = IF m \in M THEN "expired" ELSE errorCode[m]
    PROVE  Lifecycle!Next
<1>1. LeftRows' = LeftRows
  BY DEF LeftRows, WasSent
<1>2. LifecycleState' = [m \in Outbox |-> IF m \in M THEN "kedaluwarsa" ELSE LifecycleState[m]]
  BY DEF LifecycleState
<1>3. \A m \in M : LifecycleState[m] = "antre"
  BY DEF LifecycleState
<1>4. Lifecycle!Expire(M)
  BY <1>1, <1>2, <1>3 DEF Lifecycle!Expire
<1> QED BY <1>4 DEF Lifecycle!Next

\* Every step is a step of MessageLifecycle or a stutter.
LEMMA LifecycleStep == IInv /\ [Next]_vars => [Lifecycle!Next]_(Lifecycle!vars)
<1> DEFINE Step == Lifecycle!Next \/ UNCHANGED Lifecycle!vars
<1> SUFFICES ASSUME IInv, [Next]_vars PROVE Step
  OBVIOUS
<1>0. TypeOK /\ Held /\ Rows
  BY DEF IInv
<1>d. status \in [Outbox -> RowStatus] /\ errorCode \in [Outbox -> ErrorCode]
  BY <1>0 DEF TypeOK
<1>1. CASE UNCHANGED <<status, errorCode, sent>>
  BY <1>1, LifecycleSame
<1>2. ASSUME NEW o \in Outbox, Accept(o) PROVE Step
  <2>1. Lifecycle!Become(o, "none", "antre") /\ LeftRows' = LeftRows
    BY <1>2, <1>d, OneRow DEF Accept, LifecycleState
  <2> QED BY <2>1 DEF Lifecycle!Next, Lifecycle!Submit
<1>3. ASSUME NEW p \in Process, ExpireDue(p) PROVE Step
  <2> DEFINE M == {o \in Outbox : status[o] = "antre" /\ expiresAt[o] <= now}
  <2> QED BY <1>3, SomeExpire DEF ExpireDue
<1>4. ASSUME NEW p \in Process, Claim(p) PROVE Step
  <2> DEFINE M == {o \in Examined(device[p]) : Decide(o) = "expire"}
  <2>1. M \in SUBSET Outbox /\ \A m \in M : status[m] = "antre"
    BY DEF Examined, Due
  <2> QED BY <1>4, <2>1, SomeExpire DEF Claim
<1>5. ASSUME NEW p \in Process, ApplyOk(p) PROVE Step
  <2>1. row[p] \in Outbox /\ WasSent(row[p])
    BY <1>0, <1>5 DEF ApplyOk, Held, HeldRow, OkWasSent, Sending, WasSent, EngineKey
  <2>2. CASE StillQueued(p)
    <3>1. Lifecycle!Become(row[p], "antre", "diserahkan") /\ LeftRows' = LeftRows
      BY <1>5, <1>d, <2>1, <2>2, OneRow DEF ApplyOk, StillQueued, LifecycleState
    <3> QED BY <2>1, <3>1 DEF Lifecycle!Next, Lifecycle!Confirm, LeftRows
  <2>3. CASE ~StillQueued(p)
    BY <1>5, <1>d, <2>3, LifecycleSame DEF ApplyOk
  <2> QED BY <2>2, <2>3
<1>6. ASSUME NEW p \in Process, ApplyRetry(p) PROVE Step
  <2>1. \A o \in Outbox : /\ status'[o] = status[o]
                          /\ errorCode'[o] = errorCode[o] \/ status[o] = "antre"
    BY <1>6 DEF ApplyRetry, StillQueued
  <2> QED BY <1>6, <2>1, LifecycleSame DEF ApplyRetry
<1>7. ASSUME NEW p \in Process, ApplyFailure(p) PROVE Step
  <2>1. row[p] \in Outbox
    BY <1>0, <1>7 DEF ApplyFailure, Held, HeldRow, Sending
  <2>2. CASE StillQueued(p)
    <3>1. Lifecycle!Become(row[p], "antre", "gagal") /\ LeftRows' = LeftRows
      BY <1>7, <1>d, <2>1, <2>2, OneRow DEF ApplyFailure, StillQueued, LifecycleState
    <3> QED BY <2>1, <3>1 DEF Lifecycle!Next, Lifecycle!Fail
  <2>3. CASE ~StillQueued(p)
    BY <1>7, <1>d, <2>3, LifecycleSame DEF ApplyFailure
  <2> QED BY <2>2, <2>3
<1>8. ASSUME NEW k \in pending, EngineSend(k) PROVE Step
  <2>1. k \in [outbox : Outbox] /\ status[k.outbox] # "none"
    BY <1>0, <1>8 DEF TypeOK, Rows, PendingAccepted
  <2>2. LifecycleState' = LifecycleState /\ LifecycleState[k.outbox] # "none"
    BY <1>8, <2>1 DEF EngineSend, LifecycleState
  <2>3. LeftRows' = LeftRows \cup {k.outbox}
    BY <1>8, <2>1 DEF EngineSend, LeftRows, WasSent
  <2> QED BY <2>1, <2>2, <2>3 DEF Lifecycle!Next, Lifecycle!Leave
<1>9. ASSUME NEW o \in Outbox, NEW r \in Receipt, IngestReceipt(o, r) PROVE Step
  <2>1. CASE providerAt[o] # Never /\ Advances(status[o], r)
    <3>1. Lifecycle!Become(o, status[o], r) /\ LeftRows' = LeftRows
      BY <1>9, <1>d, <2>1, OneRow DEF IngestReceipt, Advances, AdvanceStatus, LifecycleState, Receipt
    <3>2. Lifecycle!Receive(o)
      BY <2>1, <3>1 DEF Lifecycle!Receive, Advances, Rank, Receipt
    <3> QED BY <3>2 DEF Lifecycle!Next
  <2>2. CASE ~(providerAt[o] # Never /\ Advances(status[o], r))
    BY <1>9, <1>d, <2>2, LifecycleSame DEF IngestReceipt
  <2> QED BY <2>1, <2>2
<1>10. ASSUME NEW o \in Outbox, Retry(o) PROVE Step
  <2>1. Lifecycle!Become(o, "gagal", "antre") /\ LeftRows' = LeftRows
    BY <1>10, <1>d, OneRow DEF Retry, NotRetryable, LifecycleState
  <2> QED BY <2>1 DEF Lifecycle!Next, Lifecycle!Retry
<1>11. ASSUME NEW o \in Outbox, Cancel(o) PROVE Step
  <2>1. Lifecycle!Become(o, "antre", "dibatalkan") /\ LeftRows' = LeftRows
    BY <1>11, <1>d, OneRow DEF Cancel, LifecycleState
  <2> QED BY <2>1 DEF Lifecycle!Next, Lifecycle!Cancel
<1>12. ASSUME NEW p \in Process, WorkerStep(p) PROVE Step
  <2>1. ASSUME \/ ListDevices(p) \/ EndRound(p) \/ RejectLocally(p) \/ Timeout(p) \/ ReleaseLease(p)
               \/ CallEngine(p) \/ ApplyDevice(p)
               \/ \E d \in Device : CheckRate(p, d) \/ SkipDevice(p, d)
        PROVE  UNCHANGED <<status, errorCode, sent>>
    BY <2>1 DEF ListDevices, CheckRate, SkipDevice, EndRound, RejectLocally, Timeout, ReleaseLease,
                CallEngine, ApplyDevice
  <2> QED BY <1>12, <1>1, <1>3, <1>4, <1>5, <1>6, <1>7, <2>1 DEF WorkerStep, ApplyResult
<1>13. ASSUME EngineStep PROVE Step
  <2>1. ASSUME \/ \E p \in Process : EngineAnswer(p)
               \/ \E d \in Device, c \in Connection : RefreshStatus(d, c)
        PROVE  UNCHANGED <<status, errorCode, sent>>
    BY <2>1 DEF EngineAnswer, RefreshStatus
  <2> QED BY <1>13, <1>1, <1>8, <1>9, <2>1 DEF EngineStep
<1>14. ASSUME AdminStep PROVE Step
  <2>1. ASSUME \E d \in Device : SetPaused(d) \/ Deactivate(d) \/ Reactivate(d)
        PROVE  UNCHANGED <<status, errorCode, sent>>
    BY <2>1 DEF SetPaused, Deactivate, Reactivate
  <2> QED BY <1>14, <1>1, <1>10, <1>11, <2>1 DEF AdminStep
<1>15. ASSUME Tick \/ (\E p \in Process : Crash(p)) \/ UNCHANGED vars
       PROVE  UNCHANGED <<status, errorCode, sent>>
  BY <1>15 DEF Tick, Crash
<1> QED BY <1>1, <1>2, <1>12, <1>13, <1>14, <1>15 DEF Next

\* The send queue implements the lifecycle for every number of rows and processes.
THEOREM Implementation == Spec => ImplementsLifecycle
  BY LifecycleInit, LifecycleStep, Invariance, PTL
  DEF Spec, ImplementsLifecycle, Lifecycle!Spec

-----------------------------------------------------------------------------
(* How often a device sends. *)

\* Where a process counts as on its way.
Underway == {"rated", "claimed", "calling", "answered"}

\* The processes that found room in the rate of d and have not come to the end of their send.
OnTheirWay(d) == {p \in Process : pc[p] \in Underway /\ device[p] = d}

\* Every one of them adds at most one message, and all but one of the processes
\* may have looked at the rate before the messages of the others counted.
RateShared == \A d \in Device : Cardinality(RecentlyHandedOver(d)) + Cardinality(OnTheirWay(d)) < Rate + Cardinality(Process)

\* No message and no process more counts after the step.
NoneMore ==
    \A d \in Device : RecentlyHandedOver(d)' \subseteq RecentlyHandedOver(d) /\ OnTheirWay(d)' \subseteq OnTheirWay(d)

\* The messages of a number and the processes are finitely many.
LEMMA RateSets ==
    ASSUME IsFiniteSet(Process), NEW d \in Device
    PROVE  /\ IsFiniteSet(RecentlyHandedOver(d)) /\ Cardinality(RecentlyHandedOver(d)) \in Nat
           /\ IsFiniteSet(OnTheirWay(d)) /\ Cardinality(OnTheirWay(d)) \in Nat
           /\ Cardinality(OnTheirWay(d)) <= Cardinality(Process) /\ Cardinality(Process) \in Nat
<1>1. RecentlyHandedOver(d) \subseteq Outbox /\ IsFiniteSet(Outbox)
  BY RowAssumption DEF RecentlyHandedOver
<1>2. OnTheirWay(d) \subseteq Process
  BY DEF OnTheirWay
<1> QED BY <1>1, <1>2, FS_Subset, FS_CardinalityType

\* A part of a finite set is finite and not larger.
LEMMA SmallerSet ==
    ASSUME NEW S, IsFiniteSet(S), NEW T, T \subseteq S
    PROVE  IsFiniteSet(T) /\ Cardinality(T) \in Nat /\ Cardinality(T) <= Cardinality(S)
BY FS_Subset, FS_CardinalityType

\* One element more adds at most one.
LEMMA OneMore ==
    ASSUME NEW S, IsFiniteSet(S), NEW e
    PROVE  IsFiniteSet(S \cup {e}) /\ Cardinality(S \cup {e}) <= Cardinality(S) + 1
<1>1. IsFiniteSet(S \cup {e}) /\ Cardinality(S \cup {e}) = IF e \in S THEN Cardinality(S) ELSE Cardinality(S) + 1
  BY FS_AddElement
<1>2. Cardinality(S) \in Nat
  BY FS_CardinalityType
<1> QED BY <1>1, <1>2

\* A step after which no more messages and no more processes count than before.
LEMMA RateStill ==
    ASSUME IsFiniteSet(Process), RateShared,
           NoneMore
    PROVE  RateShared'
<1>1. ASSUME NEW d \in Device
      PROVE  Cardinality(RecentlyHandedOver(d)') + Cardinality(OnTheirWay(d)') < Rate + Cardinality(Process)
  <2> DEFINE a == RecentlyHandedOver(d)
             b == OnTheirWay(d)
             x == RecentlyHandedOver(d)'
             y == OnTheirWay(d)'
  <2>1. IsFiniteSet(a) /\ IsFiniteSet(b) /\ x \subseteq a /\ y \subseteq b
    BY RateSets DEF NoneMore
  <2>2. Cardinality(a) \in Nat /\ Cardinality(b) \in Nat /\ Cardinality(Process) \in Nat
    BY RateSets
  <2>3. Cardinality(a) + Cardinality(b) < Rate + Cardinality(Process)
    BY DEF RateShared
  <2> HIDE DEF a, b, x, y
  <2>4. Cardinality(x) \in Nat /\ Cardinality(x) <= Cardinality(a) /\ Cardinality(y) \in Nat
      /\ Cardinality(y) <= Cardinality(b)
    BY <2>1, SmallerSet
  <2>5. Cardinality(x) + Cardinality(y) < Rate + Cardinality(Process)
    BY <2>2, <2>3, <2>4, ClockAssumption
  <2> QED BY <2>5 DEF x, y
<1> QED BY <1>1 DEF RateShared

\* A process that finds room comes to those on their way.
LEMMA RateChecked ==
    ASSUME IsFiniteSet(Process), RateShared, TypeOK, NEW p \in Process, NEW d \in Device, CheckRate(p, d)
    PROVE  RateShared'
<1>0. /\ pc' = [pc EXCEPT ![p] = "rated"] /\ device' = [device EXCEPT ![p] = d] /\ pc[p] = "round"
      /\ UNCHANGED <<providerAt, now>> /\ Cardinality(RecentlyHandedOver(d)) < Rate
  BY DEF CheckRate, RateAllows
<1>1. ASSUME NEW e \in Device
      PROVE  Cardinality(RecentlyHandedOver(e)') + Cardinality(OnTheirWay(e)') < Rate + Cardinality(Process)
  <2>1. RecentlyHandedOver(e)' = RecentlyHandedOver(e)
    BY <1>0 DEF RecentlyHandedOver
  <2>2. CASE e = d
    <3> DEFINE y == OnTheirWay(e)'
    <3>1. y \subseteq Process
      BY DEF OnTheirWay
    <3> HIDE DEF y
    <3>2. Cardinality(y) \in Nat /\ Cardinality(y) <= Cardinality(Process)
      BY <3>1, FS_Subset, FS_CardinalityType
    <3>3. Cardinality(RecentlyHandedOver(e)) \in Nat /\ Cardinality(Process) \in Nat
      BY RateSets
    <3>4. Cardinality(RecentlyHandedOver(e)) + Cardinality(y) < Rate + Cardinality(Process)
      BY <1>0, <2>2, <3>2, <3>3, ClockAssumption
    <3> QED BY <2>1, <3>4 DEF y
  <2>3. CASE e # d
    <3>1. OnTheirWay(e)' = OnTheirWay(e)
      BY <1>0, <2>3 DEF OnTheirWay, Underway, TypeOK
    <3> QED BY <2>1, <3>1 DEF RateShared
  <2> QED BY <2>2, <2>3
<1> QED BY <1>1 DEF RateShared

\* A message that is handed over takes the place of the process that sent it.
LEMMA RateHandedOver ==
    ASSUME IsFiniteSet(Process), RateShared, TypeOK, HeldRow, NEW p \in Process, ApplyOk(p)
    PROVE  RateShared'
<1>1. /\ pc[p] = "answered" /\ pc' = [pc EXCEPT ![p] = "round"] /\ now' = now
      /\ providerAt' = [o \in Outbox |-> IF o \in {m \in Outbox : m = row[p] /\ StillQueued(p)} THEN now ELSE providerAt[o]]
      /\ device' = [device EXCEPT ![p] = NoDevice]
  BY DEF ApplyOk, Forget
<1>2. row[p] \in Outbox /\ device[p] = DeviceOf[row[p]]
  BY <1>1 DEF HeldRow, Sending
<1>3. ASSUME NEW d \in Device
      PROVE  Cardinality(RecentlyHandedOver(d)') + Cardinality(OnTheirWay(d)') < Rate + Cardinality(Process)
  <2> DEFINE a == RecentlyHandedOver(d)
             b == OnTheirWay(d)
             x == RecentlyHandedOver(d)'
             y == OnTheirWay(d)'
  <2>1. IsFiniteSet(a) /\ IsFiniteSet(b)
    BY RateSets
  <2>2. Cardinality(a) \in Nat /\ Cardinality(b) \in Nat /\ Cardinality(Process) \in Nat
    BY RateSets
  <2>3. Cardinality(a) + Cardinality(b) < Rate + Cardinality(Process)
    BY DEF RateShared
  <2>4. CASE d = device[p]
    <3>1. x \subseteq a \cup {row[p]}
      BY <1>1 DEF RecentlyHandedOver
    <3>2. y \subseteq b \ {p} /\ p \in b
      BY <1>1, <2>4 DEF OnTheirWay, Underway, TypeOK
    <3> HIDE DEF a, b, x, y
    <3>3. IsFiniteSet(a \cup {row[p]}) /\ Cardinality(a \cup {row[p]}) <= Cardinality(a) + 1
      BY <2>1, OneMore
    <3>4. IsFiniteSet(b \ {p}) /\ Cardinality(b \ {p}) = Cardinality(b) - 1
      BY <2>1, <3>2, FS_RemoveElement
    <3>5. /\ Cardinality(x) \in Nat /\ Cardinality(x) <= Cardinality(a \cup {row[p]})
          /\ Cardinality(y) \in Nat /\ Cardinality(y) <= Cardinality(b \ {p})
      BY <3>1, <3>2, <3>3, <3>4, SmallerSet
    <3>6. Cardinality(a \cup {row[p]}) \in Nat
      BY <3>3, FS_CardinalityType
    <3>7. Cardinality(x) + Cardinality(y) < Rate + Cardinality(Process)
      BY <2>2, <2>3, <3>3, <3>4, <3>5, <3>6, ClockAssumption
    <3> QED BY <3>7 DEF x, y
  <2>5. CASE d # device[p]
    <3>1. x \subseteq a
      BY <1>1, <1>2, <2>5 DEF RecentlyHandedOver
    <3>2. y \subseteq b
      BY <1>1 DEF OnTheirWay, Underway, TypeOK
    <3> HIDE DEF a, b, x, y
    <3>3. Cardinality(x) \in Nat /\ Cardinality(x) <= Cardinality(a) /\ Cardinality(y) \in Nat
        /\ Cardinality(y) <= Cardinality(b)
      BY <2>1, <3>1, <3>2, SmallerSet
    <3>4. Cardinality(x) + Cardinality(y) < Rate + Cardinality(Process)
      BY <2>2, <2>3, <3>3, ClockAssumption
    <3> QED BY <3>4 DEF x, y
  <2> QED BY <2>4, <2>5
<1> QED BY <1>3 DEF RateShared

\* A process that goes on with its send, or is done with it.
LEMMA RateMover ==
    ASSUME TypeOK, NEW p \in Process, NEW x, pc' = [pc EXCEPT ![p] = x], UNCHANGED <<now, providerAt>>,
           \A q \in Process \ {p} : device'[q] = device[q],
           x \in Underway => device' = device /\ pc[p] \in Underway
    PROVE  NoneMore
<1>1. \A d \in Device : RecentlyHandedOver(d)' = RecentlyHandedOver(d)
  BY DEF RecentlyHandedOver
<1>2. ASSUME NEW d \in Device, NEW q \in Process, pc'[q] \in Underway, device'[q] = d PROVE pc[q] \in Underway
    /\ device[q] = d
  <2>1. CASE q = p
    <3>1. x \in Underway
      BY <1>2, <2>1 DEF TypeOK
    <3> QED BY <1>2, <2>1, <3>1
  <2>2. CASE q # p
    BY <1>2, <2>2 DEF TypeOK
  <2> QED BY <2>1, <2>2
<1> QED BY <1>1, <1>2 DEF NoneMore, OnTheirWay, Underway

\* Every other step of a process is such a one.
LEMMA RateWorkers ==
    ASSUME TypeOK, NEW p \in Process, WorkerStep(p) \/ Crash(p) \/ EngineAnswer(p), ~ApplyOk(p),
        \A d \in Device : ~CheckRate(p, d)
    PROVE  NoneMore
<1>0. device \in [Process -> Device \cup {NoDevice}]
  BY DEF TypeOK
<1>1. CASE ExpireDue(p)
  BY <1>1, RateMover DEF ExpireDue, Underway
<1>2. CASE ListDevices(p) \/ EndRound(p)
  <2>1. UNCHANGED <<now, providerAt, device>> /\ (pc' = [pc EXCEPT ![p] = "round"] \/ pc' = [pc EXCEPT ![p] = "idle"])
    BY <1>2 DEF ListDevices, EndRound
  <2>2. "round" \notin Underway /\ "idle" \notin Underway
    BY DEF Underway
  <2> QED BY <2>1, <2>2, RateMover
<1>3. CASE \E d \in Device : SkipDevice(p, d)
  BY <1>3 DEF SkipDevice, NoneMore, RecentlyHandedOver, OnTheirWay
<1>4. CASE Crash(p) \/ ReleaseLease(p) \/ ApplyDevice(p) \/ ApplyRetry(p) \/ ApplyFailure(p)
  <2>1. /\ UNCHANGED <<now, providerAt>> /\ (pc' = [pc EXCEPT ![p] = "round"] \/ pc' = [pc EXCEPT ![p] = "idle"])
        /\ device' = [device EXCEPT ![p] = NoDevice]
    BY <1>4 DEF Crash, ReleaseLease, ApplyDevice, ApplyRetry, ApplyFailure
  <2>2. "round" \notin Underway /\ "idle" \notin Underway
    BY DEF Underway
  <2>3. \A q \in Process \ {p} : device'[q] = device[q]
    BY <1>0, <2>1
  <2> QED BY <2>1, <2>2, <2>3, RateMover
<1>5. CASE Claim(p)
  <2>1. UNCHANGED <<now, providerAt>> /\ pc[p] = "rated"
    BY <1>5 DEF Claim
  <2>2. \/ pc' = [pc EXCEPT ![p] = "round"] /\ device' = [device EXCEPT ![p] = NoDevice]
        \/ pc' = [pc EXCEPT ![p] = "claimed"] /\ device' = device
    BY <1>5 DEF Claim
  <2>3. "round" \notin Underway /\ "rated" \in Underway
    BY DEF Underway
  <2>4. \A q \in Process \ {p} : device'[q] = device[q]
    BY <1>0, <2>2
  <2> QED BY <2>1, <2>2, <2>3, <2>4, RateMover
<1>6. CASE RejectLocally(p) \/ CallEngine(p) \/ Timeout(p) \/ EngineAnswer(p)
  <2>1. /\ UNCHANGED <<now, providerAt, device>> /\ pc[p] \in Underway
        /\ pc' = [pc EXCEPT ![p] = "answered"] \/ pc' = [pc EXCEPT ![p] = "calling"]
    BY <1>6 DEF RejectLocally, CallEngine, Timeout, EngineAnswer, Underway
  <2> QED BY <2>1, RateMover
<1> QED BY <1>1, <1>2, <1>3, <1>4, <1>5, <1>6 DEF WorkerStep, ApplyResult

\* And so is every step that is nobody's.
LEMMA RateOthers ==
    ASSUME TypeOK, [Next]_vars, \A p \in Process : ~ApplyOk(p) /\ \A d \in Device : ~CheckRate(p, d)
    PROVE  NoneMore
<1>1. CASE UNCHANGED <<pc, device, now, providerAt>>
  BY <1>1 DEF NoneMore, RecentlyHandedOver, OnTheirWay
<1>2. CASE Tick
  <2>1. now' = now + 1 /\ now \in Nat /\ UNCHANGED <<pc, device, providerAt>>
    BY <1>2 DEF Tick, TypeOK
  <2>2. \A o \in Outbox : providerAt[o] # Never => providerAt[o] \in Nat
    BY DEF TypeOK
  <2>3. \A d \in Device : RecentlyHandedOver(d)' \subseteq RecentlyHandedOver(d)
    BY <2>1, <2>2, ClockAssumption DEF RecentlyHandedOver
  <2> QED BY <2>1, <2>3 DEF NoneMore, OnTheirWay
<1>3. CASE \E p \in Process : WorkerStep(p) \/ Crash(p) \/ EngineAnswer(p)
  BY <1>3, RateWorkers
<1>4. CASE EngineStep /\ ~(\E p \in Process : EngineAnswer(p))
  BY <1>1, <1>4 DEF EngineStep, EngineSend, IngestReceipt, RefreshStatus
<1>5. CASE AdminStep \/ (\E o \in Outbox : Accept(o)) \/ UNCHANGED vars
  BY <1>1, <1>5 DEF AdminStep, Retry, Cancel, SetPaused, Deactivate, Reactivate, Accept
<1> QED BY <1>2, <1>3, <1>4, <1>5 DEF Next

\* Nothing has been handed over at the start.
LEMMA RateInit == IsFiniteSet(Process) /\ Init => RateShared
<1> SUFFICES ASSUME IsFiniteSet(Process), Init, NEW d \in Device
             PROVE  Cardinality(RecentlyHandedOver(d)) + Cardinality(OnTheirWay(d)) < Rate + Cardinality(Process)
  BY DEF RateShared
<1>1. RecentlyHandedOver(d) = {} /\ OnTheirWay(d) = {}
  BY DEF Init, RecentlyHandedOver, OnTheirWay, Underway
<1>2. Cardinality(Process) \in Nat /\ Cardinality({}) = 0
  BY FS_CardinalityType, FS_EmptySet
<1> QED BY <1>1, <1>2, ClockAssumption

\* Every step keeps the bound.
LEMMA RateStep == IsFiniteSet(Process) /\ IInv /\ RateShared /\ [Next]_vars => RateShared'
<1> SUFFICES ASSUME IsFiniteSet(Process), IInv, RateShared, [Next]_vars PROVE RateShared'
  OBVIOUS
<1>1. TypeOK /\ HeldRow
  BY DEF IInv, Held
<1>2. CASE \E p \in Process, d \in Device : CheckRate(p, d)
  BY <1>1, <1>2, RateChecked
<1>3. CASE \E p \in Process : ApplyOk(p)
  BY <1>1, <1>3, RateHandedOver
<1>4. CASE \A p \in Process : ~ApplyOk(p) /\ \A d \in Device : ~CheckRate(p, d)
  BY <1>1, <1>4, RateOthers, RateStill
<1> QED BY <1>2, <1>3, <1>4

\* With any number of processes a device gets fewer messages in a window than its rate and the number
\* of processes together: each process can be at most one message past the check of the rate.
THEOREM RateOvershoot == IsFiniteSet(Process) => (Spec => []RateShared)
<1> SUFFICES ASSUME IsFiniteSet(Process) PROVE Spec => []RateShared
  OBVIOUS
<1>1. Init => RateShared
  BY RateInit
<1>2. IInv /\ RateShared /\ [Next]_vars => RateShared'
  BY RateStep
<1> QED BY <1>1, <1>2, Invariance, PTL DEF Spec

\* With one process the rate of a device is respected.
THEOREM RateOfOneWorker == (IsFiniteSet(Process) /\ Cardinality(Process) = 1) => (Spec => []RateRespected)
<1> SUFFICES ASSUME IsFiniteSet(Process), Cardinality(Process) = 1 PROVE Spec => []RateRespected
  OBVIOUS
<1>1. ASSUME RateShared PROVE RateRespected
  <2>1. ASSUME NEW d \in Device PROVE Cardinality(RecentlyHandedOver(d)) <= Rate
    <3>1. Cardinality(RecentlyHandedOver(d)) \in Nat /\ Cardinality(OnTheirWay(d)) \in Nat
      BY RateSets
    <3> QED BY <1>1, <3>1, ClockAssumption DEF RateShared
  <2> QED BY <2>1 DEF RateRespected
<1>2. Spec => []RateShared
  BY RateOvershoot
<1> QED BY <1>1, <1>2, PTL
=============================================================================
