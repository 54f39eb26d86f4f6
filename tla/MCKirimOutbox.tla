--------------------------- MODULE MCKirimOutbox ---------------------------
(* Instances of KirimOutbox for TLC. *)
EXTENDS KirimOutboxLifecycle, TLC

CONSTANTS o1, o2, d1, p1, p2

MCDeviceOf == [o \in Outbox |-> d1]
MCJenisOf == [o \in Outbox |-> IF o = o1 THEN "notifikasi" ELSE "kode"]
MCPriorityOf == [o \in Outbox |-> IF o = o1 THEN 3 ELSE 0]
MCTtlOf == [o \in Outbox |-> IF o = o1 THEN 3 ELSE 2]
MCRetryDelays == <<1>>

\* The processes of one deployment are configured alike.
MCInit == Init /\ served[p1] = served[p2]

\* A process that stops comes back with the providers it had.
ComesBack(p) == Crash(p) /\ UNCHANGED served

\* Next, with ComesBack for Crash.
MCNext ==
    \/ \E o \in Outbox : Accept(o)
    \/ \E p \in Process : WorkerStep(p) \/ ComesBack(p)
    \/ EngineStep
    \/ AdminStep
    \/ Tick

MCSpec == MCInit /\ [][MCNext]_vars /\ Fairness
=============================================================================
