--------------------------- MODULE KirimWebhooks ---------------------------
(***************************************************************************)
(* The consumer webhooks of Kirim SQ (kirim/webhooks.ts): events queued in *)
(* the transaction of the change they report, claimed in batches under a   *)
(* lease, posted one after the other, and retried with a backoff until the *)
(* consumer answers 2xx or the tries are used up.                          *)
(*                                                                         *)
(* Time is relative: dueIn is next_attempt_at - now(), so the clock needs  *)
(* no bound.  MaxStops bounds the stops of processes.                      *)
(***************************************************************************)
EXTENDS Integers, FiniteSets, FiniteSetsExt

CONSTANTS
    Delivery,      \* kirim_webhook_deliveries rows, the event_id of an event
    Process,       \* SQ Hub processes running a webhook sender
    Batch,         \* BATCH
    Lease,         \* LEASE_MS
    PostTime,      \* WEBHOOK_TIMEOUT_MS
    MaxAttempts,   \* MAX_WEBHOOK_ATTEMPTS
    FirstDelay, LongestDelay,
    MaxStops,
    NoDelivery

ASSUME WebhookAssumption ==
    /\ IsFiniteSet(Delivery)
    /\ NoDelivery \notin Delivery
    /\ {Batch, Lease, PostTime, MaxAttempts, FirstDelay, LongestDelay} \subseteq Nat \ {0}
    /\ FirstDelay <= LongestDelay
    /\ MaxStops \in Nat

VARIABLES
    (* the row *)
    status, attempts, dueIn,
    (* one round of each process: what is left of its batch with the attempts *)
    (* read at the claim, the event being posted, the time left for its answer *)
    pc, batch, claimedAttempts, current, left,
    stops,
    outlived       \* history: events a round holds, or held, past their lease

rowVars == <<status, attempts, dueIn>>
roundVars == <<pc, batch, claimedAttempts, current, left>>
vars == <<rowVars, roundVars, stops, outlived>>

Status == {"none", "pending", "retry", "berhasil", "habis"}
Open == {"pending", "retry"}
Pc == {"idle", "next", "posting", "accepted", "failed"}

\* The round of p has d still to post, or is at it.
Holds(p, d) == d \in batch[p] \/ current[p] = d

\* What no round holds any more is forgotten.
KeepOutlived == outlived' = {d \in outlived : \E p \in Process : Holds(p, d)'}

Init ==
    /\ status = [d \in Delivery |-> "none"]
    /\ attempts = [d \in Delivery |-> 0]
    /\ dueIn = [d \in Delivery |-> 0]
    /\ pc = [p \in Process |-> "idle"]
    /\ batch = [p \in Process |-> {}]
    /\ claimedAttempts = [p \in Process |-> [d \in Delivery |-> 0]]
    /\ current = [p \in Process |-> NoDelivery]
    /\ left = [p \in Process |-> 0]
    /\ stops = 0
    /\ outlived = {}

\* The consumer has a webhook URL; without one nothing is queued.
Enqueue(d) ==
    /\ status[d] = "none"
    /\ status' = [status EXCEPT ![d] = "pending"]
    /\ UNCHANGED <<attempts, dueIn, roundVars, stops, outlived>>

-----------------------------------------------------------------------------
(* A round (runOnce). *)

\* Mutant: the status is not asked.
DueWhateverItsStatus == {d \in Delivery : status[d] # "none" /\ dueIn[d] = 0}

Due == {d \in Delivery : status[d] \in Open /\ dueIn[d] = 0}

\* The claim takes up to Batch due events at once and leases them all.
Claim(p) ==
    /\ pc[p] = "idle"
    /\ Due # {}
    /\ \E B \in SUBSET Due :
         /\ Cardinality(B) = Min({Batch, Cardinality(Due)})
         /\ dueIn' = [d \in Delivery |-> IF d \in B THEN Lease ELSE dueIn[d]]
         /\ batch' = [batch EXCEPT ![p] = B]
         /\ claimedAttempts' = [claimedAttempts EXCEPT ![p] =
                                  [d \in Delivery |-> IF d \in B THEN attempts[d] ELSE 0]]
    /\ pc' = [pc EXCEPT ![p] = "next"]
    /\ UNCHANGED <<status, attempts, current, left, stops, outlived>>

Take(p, d) ==
    /\ pc[p] = "next"
    /\ d \in batch[p]
    /\ batch' = [batch EXCEPT ![p] = @ \ {d}]
    /\ current' = [current EXCEPT ![p] = d]
    /\ UNCHANGED <<rowVars, claimedAttempts, stops, outlived>>

Post(p, d) ==
    /\ Take(p, d)
    /\ left' = [left EXCEPT ![p] = PostTime]
    /\ pc' = [pc EXCEPT ![p] = "posting"]

\* The URL or the secret is gone, or the URL is not allowed: a try without a post.
CannotPost(p, d) ==
    /\ Take(p, d)
    /\ pc' = [pc EXCEPT ![p] = "failed"]
    /\ UNCHANGED left

\* 2xx, or anything else: another status, an error or no answer in time.
Answer(p, outcome) ==
    /\ pc[p] = "posting"
    /\ pc' = [pc EXCEPT ![p] = outcome]
    /\ left' = [left EXCEPT ![p] = 0]
    /\ UNCHANGED <<rowVars, batch, claimedAttempts, current, stops, outlived>>

\* Mutant: only the first try is counted.
AttemptsUncounted(p) == Max({1, claimedAttempts[p][current[p]]})

\* From the attempts read at the claim.
AttemptsAfter(p) == claimedAttempts[p][current[p]] + 1

\* webhookRetryDelayMs, for attempts below the maximum.
RetryDelay(n) == Min({LongestDelay, FirstDelay * 2^(n - 1)})

\* webhookRetryDelayMs gives no further delay.
Exhausted(n) == n >= MaxAttempts

\* The next event of the batch, or the end of the round.
Done(p) ==
    /\ pc' = [pc EXCEPT ![p] = IF batch[p] = {} THEN "idle" ELSE "next"]
    /\ current' = [current EXCEPT ![p] = NoDelivery]
    /\ claimedAttempts' = [claimedAttempts EXCEPT ![p][current[p]] = 0]
    /\ UNCHANGED <<batch, left, stops>>
    /\ KeepOutlived

\* Both updates are by id alone, whatever the row has become.
StoreSuccess(p) ==
    /\ pc[p] = "accepted"
    /\ status' = [status EXCEPT ![current[p]] = "berhasil"]
    /\ attempts' = [attempts EXCEPT ![current[p]] = AttemptsAfter(p)]
    /\ UNCHANGED dueIn
    /\ Done(p)

StoreFailure(p) ==
    LET d == current[p]
        n == AttemptsAfter(p)
    IN  /\ pc[p] = "failed"
        /\ attempts' = [attempts EXCEPT ![d] = n]
        /\ \/ /\ Exhausted(n)
              /\ status' = [status EXCEPT ![d] = "habis"]
              /\ UNCHANGED dueIn
           \/ /\ ~Exhausted(n)
              /\ status' = [status EXCEPT ![d] = "retry"]
              /\ dueIn' = [dueIn EXCEPT ![d] = RetryDelay(n)]
        /\ Done(p)

\* The process stops, or the round throws (a failed update, a payload that
\* cannot be opened): what is left of the batch waits for its lease to pass.
Stop(p) ==
    /\ pc[p] # "idle"
    /\ stops < MaxStops
    /\ stops' = stops + 1
    /\ pc' = [pc EXCEPT ![p] = "idle"]
    /\ batch' = [batch EXCEPT ![p] = {}]
    /\ claimedAttempts' = [claimedAttempts EXCEPT ![p] = [d \in Delivery |-> 0]]
    /\ current' = [current EXCEPT ![p] = NoDelivery]
    /\ left' = [left EXCEPT ![p] = 0]
    /\ KeepOutlived
    /\ UNCHANGED rowVars

\* Time passes between rounds and during posts, which are given up when their
\* time is over; what a process does between two posts takes none.
Tick ==
    /\ \A p \in Process : pc[p] = "idle" \/ (pc[p] = "posting" /\ left[p] > 0)
    /\ dueIn' = [d \in Delivery |-> Max({0, dueIn[d] - 1})]
    /\ left' = [p \in Process |-> Max({0, left[p] - 1})]
    /\ outlived' = outlived \cup {d \in Delivery : dueIn'[d] = 0 /\ \E p \in Process : Holds(p, d)}
    /\ UNCHANGED <<status, attempts, pc, batch, claimedAttempts, current, stops>>

-----------------------------------------------------------------------------

SenderStep(p) ==
    \/ Claim(p)
    \/ \E d \in Delivery : Post(p, d) \/ CannotPost(p, d)
    \/ Answer(p, "accepted")
    \/ Answer(p, "failed")
    \/ StoreSuccess(p)
    \/ StoreFailure(p)

Next ==
    \/ \E d \in Delivery : Enqueue(d)
    \/ \E p \in Process : SenderStep(p) \/ Stop(p)
    \/ Tick

\* Rounds are started by a timer, and a post ends at the latest by its timeout.
Fairness ==
    /\ \A p \in Process : WF_vars(SenderStep(p))
    /\ WF_vars(Tick)

Spec == Init /\ [][Next]_vars /\ Fairness

-----------------------------------------------------------------------------
(* Properties. *)

\* Every variable stays within its type.
TypeOK ==
    /\ status \in [Delivery -> Status]
    /\ attempts \in [Delivery -> 0 .. MaxAttempts]
    /\ dueIn \in [Delivery -> Nat]
    /\ pc \in [Process -> Pc]
    /\ batch \in [Process -> SUBSET Delivery]
    /\ claimedAttempts \in [Process -> [Delivery -> 0 .. MaxAttempts]]
    /\ current \in [Process -> Delivery \cup {NoDelivery}]
    /\ left \in [Process -> 0 .. PostTime]
    /\ stops \in Nat
    /\ outlived \subseteq Delivery

\* Section 6.2, "2xx = berhasil": once one process has stored that an event was
\* delivered, it is never shown as waiting or given up again, and it is not
\* posted again, whatever the batches of the processes go through.  Only a round
\* that holds the event past its lease, so that another process claimed it too,
\* can undo that; and when no round holds it any more, it stands.
SuccessStands ==
    [][\A d \in Delivery : status[d] = "berhasil" /\ d \notin outlived =>
          /\ status'[d] = "berhasil"
          /\ \A p \in Process : current'[p] = d => current[p] = d]_vars

\* Every queued event ends, for good, as delivered or given up, although a stop
\* leaves its attempts uncounted and its claim to run out, and although a round
\* that outlives its lease stores its answer over that of another.
SettlesForGood ==
    \A d \in Delivery : status[d] # "none" ~> [](status[d] \in {"berhasil", "habis"})

=============================================================================
