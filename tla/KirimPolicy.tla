---------------------------- MODULE KirimPolicy ----------------------------
(***************************************************************************)
(* The pure send rules of Kirim SQ (kirim/policy.ts): the WIB send window, *)
(* the decision a claim takes for one candidate, the retry schedules and   *)
(* the forward-only status order.  Time is counted in abstract ticks of    *)
(* the database clock, already shifted to WIB; Day is one calendar day.    *)
(***************************************************************************)
EXTENDS Integers, Sequences

CONSTANTS
    Day,            \* ticks in a calendar day (DAY_MS)
    WindowStart,    \* jam_kirim_mulai, as ticks after midnight
    WindowEnd,      \* jam_kirim_selesai, as ticks after midnight
    RetryDelays     \* RETRY_DELAYS_MINUTES, in ticks

ASSUME DayAssumption == Day \in Nat \ {0}

\* The table's CHECK (jam_kirim_mulai < jam_kirim_selesai), both within a day.
ASSUME WindowAssumption ==
    /\ WindowStart \in Nat
    /\ WindowEnd \in Nat
    /\ WindowStart < WindowEnd
    /\ WindowEnd <= Day

ASSUME RetryAssumption == RetryDelays \in Seq(Nat \ {0})

Jenis == {"notifikasi", "kode", "percakapan"}

-----------------------------------------------------------------------------
(* The send window. *)

DayOffset(t) == t % Day

WindowOpen(t) == DayOffset(t) >= WindowStart /\ DayOffset(t) < WindowEnd

NextOpenAt(t) ==
    LET dayStart == t - DayOffset(t)
    IN  IF DayOffset(t) < WindowStart
        THEN dayStart + WindowStart
        ELSE dayStart + Day + WindowStart

\* Only a notifikasi that answers nobody waits for the window.
IgnoresWindow(jenis, replying) == jenis # "notifikasi" \/ replying

WindowDecision(t, jenis, expiresAt, replying) ==
    IF expiresAt <= t THEN "expire"
    ELSE IF IgnoresWindow(jenis, replying) \/ WindowOpen(t) THEN "send"
    ELSE IF expiresAt <= NextOpenAt(t) THEN "expire"
    ELSE "wait"

-----------------------------------------------------------------------------
(* Attempts and rate. *)

MaxSendAttempts == Len(RetryDelays) + 1

\* attempts counts the one that has just failed.
MayRetry(attempts) == attempts < MaxSendAttempts

\* Mutant: one message too many.
RateAllowsOneMore(sentInWindow, rate) == sentInWindow <= rate

RateAllows(sentInWindow, rate) == sentInWindow < rate

-----------------------------------------------------------------------------
(* Status only moves forward, and only from a message already handed over. *)

Rank == [antre |-> 0, diserahkan |-> 1, terkirim |-> 2, dibaca |-> 3]

Receipt == {"terkirim", "dibaca"}

Advances(current, incoming) ==
    /\ current \in {"diserahkan", "terkirim", "dibaca"}
    /\ Rank[incoming] > Rank[current]

AdvanceStatus(current, incoming) ==
    IF Advances(current, incoming) THEN incoming ELSE current

=============================================================================
