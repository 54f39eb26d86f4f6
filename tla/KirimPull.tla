----------------------------- MODULE KirimPull -----------------------------
(***************************************************************************)
(* How the events of one number reach the database (kirim/ingest.ts,       *)
(* KirimIngest): the timer and the engine's webhooks ask for a pull, at    *)
(* most one runs per process and one more is queued behind it; a pull      *)
(* reads pages from the largest cursor stored and handles their events one *)
(* by one, each in a transaction that first records the event's id.        *)
(*                                                                         *)
(* The events of a tenant are numbered by their cursor.  Two processes     *)
(* overlap while a release is rolled out.  What an event changes is the    *)
(* subject of KirimChats and KirimActions; here it is an entry of applied. *)
(***************************************************************************)
EXTENDS Naturals, FiniteSets, Sequences, FiniteSetsExt, SequencesExt

CONSTANTS
    Tenant,       \* engine tenants the number uses, one after the other
    Puller,       \* SQ Hub processes
    Caller,       \* callers of pullDevice whose answers are followed
    PageLimit,    \* PAGE_LIMIT
    MaxPages,     \* MAX_PAGES_PER_PULL
    MaxShown,     \* bound: events a tenant ever shows
    MaxFaults     \* bound: failed calls and transactions, stops and moves, together

ASSUME PullAssumption ==
    /\ IsFiniteSet(Tenant) /\ Tenant # {}
    /\ {PageLimit, MaxPages} \subseteq Nat \ {0}
    /\ {MaxShown, MaxFaults} \subseteq Nat

VARIABLES
    shown,        \* tenant -> events the engine can list
    tenant,       \* provider_ref of the number
    held,         \* an older number is linked to the same phone
    recorded,     \* kirim_events: <<tenant, cursor>>
    applied,      \* history: tenant -> cursors whose changes were committed
    pull,         \* process -> the pull under way (KirimIngest.pulling)
    again,        \* process -> the queued pull (KirimIngest.pullAgain)
    caller,       \* history: what each caller waits for, and what it could see
    faults

pullVars == <<shown, tenant, held, recorded, applied, pull, again, caller, faults>>

NoPull == [pc |-> "none", tenant |-> CHOOSE t \in Tenant : TRUE, page |-> 0, next |-> 0, last |-> 0, more |-> FALSE]
Idle == [pc |-> "idle", at |-> "nobody", tenant |-> NoPull.tenant, seen |-> 0]

PullInit ==
    /\ shown = [t \in Tenant |-> 0]
    /\ tenant = NoPull.tenant
    /\ held = FALSE
    /\ recorded = {}
    /\ applied = [t \in Tenant |-> <<>>]
    /\ pull = [p \in Puller |-> NoPull]
    /\ again = [p \in Puller |-> "no"]
    /\ caller = [c \in Caller |-> Idle]
    /\ faults = 0

-----------------------------------------------------------------------------
(* The engine and the administrator. *)

Show(t) ==
    /\ shown[t] < MaxShown
    /\ shown' = [shown EXCEPT ![t] = @ + 1]
    /\ UNCHANGED <<tenant, held, recorded, applied, pull, again, caller, faults>>

\* The number is held ("Pakai nomor yang ada"), or no longer.
Hold ==
    /\ held' = ~held
    /\ UNCHANGED <<shown, tenant, recorded, applied, pull, again, caller, faults>>

\* The number is moved to another tenant of the engine.
Move(t) ==
    /\ faults < MaxFaults
    /\ t # tenant
    /\ tenant' = t
    /\ faults' = faults + 1
    /\ UNCHANGED <<shown, held, recorded, applied, pull, again, caller>>

-----------------------------------------------------------------------------
(* pullDevice: one pull at a time, and one queued behind it for everyone. *)

Started(p) == [pull EXCEPT ![p] = [NoPull EXCEPT !.pc = "device"]]

\* Mutant: a caller that comes while a pull is under way is given that pull.
JoinRunning(c, p) ==
    /\ pull[p].pc # "none"
    /\ caller' = [caller EXCEPT ![c] = [pc |-> "running", at |-> p, tenant |-> tenant, seen |-> shown[tenant]]]
    /\ UNCHANGED <<pull, again>>

JoinQueued(c, p) ==
    /\ pull[p].pc # "none"
    /\ caller' = [caller EXCEPT ![c] = [pc |-> "queued", at |-> p, tenant |-> tenant, seen |-> shown[tenant]]]
    /\ again' = [again EXCEPT ![p] = IF @ = "no" THEN "waiting" ELSE @]
    /\ UNCHANGED pull

StartPull(c, p) ==
    /\ pull[p].pc = "none"
    /\ caller' = [caller EXCEPT ![c] = [pc |-> "running", at |-> p, tenant |-> tenant, seen |-> shown[tenant]]]
    /\ pull' = Started(p)
    /\ UNCHANGED again

\* A webhook or a round of the timer; a caller that was answered may call again.
AskPull(c, p) ==
    /\ caller[c].pc \in {"idle", "answered"}
    /\ StartPull(c, p) \/ JoinQueued(c, p)
    /\ UNCHANGED <<shown, tenant, held, recorded, applied, faults>>

\* The round of the timer, when the number has no pull under way.
Round(p) ==
    /\ pull[p].pc = "none"
    /\ pull' = Started(p)
    /\ UNCHANGED <<shown, tenant, held, recorded, applied, again, caller, faults>>

\* The queued pull begins after the one before it, however that ended; when a
\* newcomer has already started the next one it queues behind that.
FollowUp(p) ==
    /\ again[p] = "ready"
    /\ \/ /\ pull[p].pc = "none"
          /\ pull' = Started(p)
          /\ again' = [again EXCEPT ![p] = "no"]
          /\ caller' = [c \in Caller |-> IF caller[c].pc = "queued" /\ caller[c].at = p
                                          THEN [caller[c] EXCEPT !.pc = "running"] ELSE caller[c]]
       \/ /\ pull[p].pc # "none"
          /\ again' = [again EXCEPT ![p] = "waiting"]
          /\ UNCHANGED <<pull, caller>>
    /\ UNCHANGED <<shown, tenant, held, recorded, applied, faults>>

\* The pull of p ends. A caller counts as answered when the pull read the tenant
\* it called about, was not held back and did not stop at MAX_PAGES_PER_PULL;
\* any other caller goes its way.
EndPull(p, complete) ==
    /\ pull' = [pull EXCEPT ![p] = NoPull]
    /\ again' = [again EXCEPT ![p] = IF @ = "waiting" THEN "ready" ELSE @]
    /\ caller' = [c \in Caller |->
                    IF caller[c].pc # "running" \/ caller[c].at # p THEN caller[c]
                    ELSE IF complete /\ caller[c].tenant = pull[p].tenant
                         THEN [caller[c] EXCEPT !.pc = "answered"] ELSE Idle]

-----------------------------------------------------------------------------
(* pullPages and processEvent. *)

ReadDevice(p) ==
    /\ pull[p].pc = "device"
    /\ IF held THEN EndPull(p, FALSE)
       ELSE /\ pull' = [pull EXCEPT ![p].pc = "cursor", ![p].tenant = tenant]
            /\ UNCHANGED <<again, caller>>
    /\ UNCHANGED <<shown, tenant, held, recorded, applied, faults>>

\* max(provider_cursor) of the tenant the number used when the pull began.
Cursor(t) == Max({0} \cup {e[2] : e \in {x \in recorded : x[1] = t}})

ReadCursor(p) ==
    /\ pull[p].pc = "cursor"
    /\ pull' = [pull EXCEPT ![p].pc = "fetch", ![p].next = Cursor(pull[p].tenant) + 1]
    /\ UNCHANGED <<shown, tenant, held, recorded, applied, again, caller, faults>>

FetchPage(p) ==
    /\ pull[p].pc = "fetch"
    /\ LET t == pull[p].tenant
           last == Min({shown[t], pull[p].next + PageLimit - 1})
       IN IF last < pull[p].next THEN EndPull(p, TRUE)
          ELSE /\ pull' = [pull EXCEPT ![p].pc = "event", ![p].last = last,
                                       ![p].more = shown[t] > last]
               /\ UNCHANGED <<again, caller>>
    /\ UNCHANGED <<shown, tenant, held, recorded, applied, faults>>

\* After an event: the next one of the page, the next page, or the end.
Onward(p) ==
    IF pull[p].next < pull[p].last
    THEN /\ pull' = [pull EXCEPT ![p].pc = "event", ![p].next = @ + 1]
         /\ UNCHANGED <<again, caller>>
    ELSE IF pull[p].more /\ pull[p].page + 1 < MaxPages
    THEN /\ pull' = [pull EXCEPT ![p].pc = "cursor", ![p].page = @ + 1]
         /\ UNCHANGED <<again, caller>>
    ELSE EndPull(p, ~pull[p].more)

Event(p) == <<pull[p].tenant, pull[p].next>>

SkipSeen(p) ==
    /\ pull[p].pc = "event"
    /\ Event(p) \in recorded
    /\ Onward(p)
    /\ UNCHANGED <<shown, tenant, held, recorded, applied, faults>>

\* Not seen: its media is copied before the transaction.
CopyMedia(p) ==
    /\ pull[p].pc = "event"
    /\ Event(p) \notin recorded
    /\ pull' = [pull EXCEPT ![p].pc = "store"]
    /\ UNCHANGED <<shown, tenant, held, recorded, applied, again, caller, faults>>

\* Mutant: what follows does not ask whether the insert of the id did anything.
RecordAnyway(p) ==
    /\ recorded' = recorded \cup {Event(p)}
    /\ applied' = [applied EXCEPT ![pull[p].tenant] = Append(@, pull[p].next)]

\* INSERT ... ON CONFLICT DO NOTHING and, only when it inserted, the event's changes.
Record(p) ==
    /\ recorded' = recorded \cup {Event(p)}
    /\ applied' = IF Event(p) \in recorded THEN applied
                  ELSE [applied EXCEPT ![pull[p].tenant] = Append(@, pull[p].next)]

StoreEvent(p) ==
    /\ pull[p].pc = "store"
    /\ Record(p)
    /\ Onward(p)
    /\ UNCHANGED <<shown, tenant, held, faults>>

\* Mutant: a failing event is logged and the rest of the page goes on.
SkipFailed(p) ==
    /\ pull[p].pc \in {"fetch", "store"}
    /\ Onward(p)

\* The engine does not answer or the transaction fails: the pull rejects, and
\* what it had not stored is read again from the cursor.
GiveUp(p) ==
    /\ pull[p].pc \in {"fetch", "store"}
    /\ EndPull(p, FALSE)

Fail(p) ==
    /\ faults < MaxFaults
    /\ GiveUp(p)
    /\ faults' = faults + 1
    /\ UNCHANGED <<shown, tenant, held, recorded, applied>>

\* The process stops: its pulls and its callers are gone.
StopPuller(p) ==
    /\ faults < MaxFaults
    /\ pull[p].pc # "none"
    /\ pull' = [pull EXCEPT ![p] = NoPull]
    /\ again' = [again EXCEPT ![p] = "no"]
    /\ caller' = [c \in Caller |-> IF caller[c].pc \in {"running", "queued"} /\ caller[c].at = p
                                    THEN Idle ELSE caller[c]]
    /\ faults' = faults + 1
    /\ UNCHANGED <<shown, tenant, held, recorded, applied>>

PullStep(p) ==
    \/ FollowUp(p) \/ ReadDevice(p) \/ ReadCursor(p) \/ FetchPage(p)
    \/ SkipSeen(p) \/ CopyMedia(p) \/ StoreEvent(p)

PullNext ==
    \/ \E t \in Tenant : Show(t) \/ Move(t)
    \/ Hold
    \/ \E c \in Caller, p \in Puller : AskPull(c, p)
    \/ \E p \in Puller : Round(p) \/ PullStep(p) \/ Fail(p) \/ StopPuller(p)

\* The steps of a pull do not wait for each other for ever (engine calls and
\* queries time out, which is Fail), and the timer of a process keeps calling.
PullFairness ==
    \A p \in Puller : WF_pullVars(PullStep(p)) /\ WF_pullVars(Round(p))

PullSpec == PullInit /\ [][PullNext]_pullVars /\ PullFairness

-----------------------------------------------------------------------------
(* Properties. *)

PullPcs == {"none", "device", "cursor", "fetch", "event", "store"}
Pulls == [pc : PullPcs, tenant : Tenant, page : 0..MaxPages - 1, next : 0..MaxShown + 1, last : 0..MaxShown,
          more : BOOLEAN]
Queued == {"no", "waiting", "ready"}
CallerPcs == {"idle", "running", "queued", "answered"}
Callers == [pc : CallerPcs, at : Puller \cup {"nobody"}, tenant : Tenant, seen : 0..MaxShown]

PullTypeOK ==
    /\ shown \in [Tenant -> 0..MaxShown]
    /\ tenant \in Tenant /\ held \in BOOLEAN
    /\ recorded \subseteq Tenant \X (1..MaxShown)
    /\ applied \in [Tenant -> Seq(1..MaxShown)]
    /\ pull \in [Puller -> Pulls]
    /\ again \in [Puller -> Queued]
    /\ caller \in [Caller -> Callers]
    /\ faults \in 0..MaxFaults

\* The events of a tenant take effect once each and in the order of their
\* cursors, whatever the number of pulls, failures, stops and moves: the cursor
\* (the largest one stored) never passes an event that was not handled.
AppliedInOrderOnce ==
    \A t \in Tenant :
        /\ applied[t] = [i \in 1..Len(applied[t]) |-> i]
        /\ {<<t, i>> : i \in ToSet(applied[t])} = {e \in recorded : e[1] = t}

\* Whoever asks for a pull and is answered finds stored every event the engine
\* could list when it asked: a webhook is never given a pull that had already
\* read past its event (pullDevice).
FreshAnswers ==
    \A c \in Caller : caller[c].pc = "answered" =>
        \A i \in 1..caller[c].seen : <<caller[c].tenant, i>> \in recorded

\* An event of the tenant the number stays with is stored in the end, unless the number is held.
EventsArrive ==
    \A t \in Tenant : <>[](tenant = t /\ ~held) =>
        \A i \in 1..MaxShown : (shown[t] >= i) ~> (<<t, i>> \in recorded)
=============================================================================
