------------------------ MODULE KirimOutboxLifecycle ------------------------
(* The send queue implements the message's lifecycle. *)
EXTENDS KirimOutbox

LifecycleState == [o \in Outbox |-> IF status[o] = "gagal" /\ errorCode[o] = "expired"
                                    THEN "kedaluwarsa" ELSE status[o]]

LeftRows == {o \in Outbox : WasSent(o)}

Lifecycle == INSTANCE MessageLifecycle WITH
                Message <- Outbox, state <- LifecycleState, left <- LeftRows

\* Claims, leases, retries, crashes, late engine answers, receipts in any order
\* and the administrators' retry and cancel together never take a message
\* outside its lifecycle: a row another process expired or an administrator
\* cancelled stays so when a send already under way comes back, and a receipt
\* never moves a status back.
ImplementsLifecycle == Lifecycle!Spec

=============================================================================
