------------------------------ MODULE Governance ------------------------------
(***************************************************************************)
(* Ringkasan Yayasan (governance): a member of an organ opens a page of    *)
(* cards, one for each application that gives him a summary.  Hub asks the *)
(* applications together, each as this person and within a time, and keeps *)
(* what they answer for a while in the memory of its process, for the      *)
(* session.  Access and membership change meanwhile.                       *)
(***************************************************************************)
EXTENDS ApplicationAccess

CONSTANTS
    Browser,          \* sessions that are open
    SessionOf,           \* page -> the session it is opened with
    UserOf,           \* browser -> whose session it is
    CacheTtl, Wait,   \* cacheTtlMs, timeoutMs
    MaxClock          \* bound

ASSUME GovernanceAssumption ==
    /\ UserOf \in [Browser -> Email] /\ \A p \in DOMAIN SessionOf : SessionOf[p] \in Browser
    /\ {CacheTtl, MaxClock} \subseteq Nat /\ Wait \in Nat \ {0}

VARIABLES
    cache,       \* browser -> application -> the outcome that is kept
    page,        \* page -> how far it is
    hour         \* the time

portalVars == <<cache, page, hour>>

Page == DOMAIN SessionOf
NoOutcome == [kind |-> "none", who |-> {}, made |-> 0, until |-> 0]
NoPage == [pc |-> "idle", only |-> "all", since |-> 0, cards |-> [a \in Application |-> NoOutcome]]

PortalInit ==
    /\ cache = [b \in Browser |-> [a \in Application |-> NoOutcome]]
    /\ page = [p \in Page |-> NoPage]
    /\ hour = 0

Who(p) == UserOf[SessionOf[p]]
Card(p, a, outcome) == page' = [page EXCEPT ![p].cards[a] = outcome]
Awaited(p, a) == page[p].pc = "open" /\ page[p].cards[a].kind \in {"asked", "summary", "refusal"}

-----------------------------------------------------------------------------
(* A page. *)

\* GET /governance/summaries, or .../:applicationKey to try one card again.
OpenPage(p, only) ==
    /\ page[p].pc = "idle"
    /\ page' = [page EXCEPT ![p] = [NoPage EXCEPT !.pc = "list", !.only = only]]
    /\ UNCHANGED <<accessVars, cache, hour>>

\* Mutant: the cache is known by the application alone.
OfAnySession(p, a) ==
    LET any == CHOOSE w \in Browser : cache[w][a].kind # "none" \/ \A v \in Browser : cache[v][a].kind = "none"
    IN cache[any][a]

\* What the session has kept.
Cached(p, a) == cache[SessionOf[p]][a]

\* A kept outcome serves until it is too old, but not the retry of one card.
Serves(p, a) == page[p].only = "all" /\ Cached(p, a).kind # "none" /\ Cached(p, a).until > hour

\* listForIdentity, and what is kept of these; the others are asked at once.
ListApplications(p) ==
    /\ page[p].pc = "list"
    /\ page' = [page EXCEPT ![p].pc = "open", ![p].only = "all", ![p].since = hour,
          ![p].cards = [a \in Application |->
              IF a \notin SummariesFor(Who(p)) \/ page[p].only \notin {"all", a} THEN NoOutcome
              ELSE IF Serves(p, a) THEN [Cached(p, a) EXCEPT !.until = 0]
              ELSE [NoOutcome EXCEPT !.kind = "asked", !.until = hour + Wait]]]
    /\ UNCHANGED <<accessVars, cache, hour>>

\* The application answers the exchanged token of this person: a summary, or 403,
\* 404 or a summary of something else.
ApplicationAnswers(p, a) ==
    /\ Awaited(p, a) /\ page[p].cards[a].kind = "asked"
    /\ \/ Card(p, a, [page[p].cards[a] EXCEPT !.kind = "refusal"])
       \/ Card(p, a, [page[p].cards[a] EXCEPT !.kind = "summary", !.who = {Who(p)}, !.made = hour])
    /\ UNCHANGED <<accessVars, cache, hour>>

\* fetchOne ends in time, and remember: whichever of two answers comes last is kept.
Receive(p, a) ==
    /\ Awaited(p, a) /\ page[p].cards[a].kind # "asked"
    /\ LET got == page[p].cards[a]
           outcome == [got EXCEPT !.kind = IF got.kind = "summary" THEN "ready" ELSE "hidden", !.until = 0]
       IN /\ Card(p, a, outcome)
          /\ cache' = [cache EXCEPT ![SessionOf[p]][a] = [outcome EXCEPT !.until = hour + CacheTtl]]
    /\ UNCHANGED <<accessVars, hour>>

\* No exchange, no answer in time, or an unreadable one: the card says so.
FetchFails(p, a) ==
    /\ Awaited(p, a)
    /\ Card(p, a, [NoOutcome EXCEPT !.kind = "failed"])
    /\ cache' = [cache EXCEPT ![SessionOf[p]][a] = NoOutcome]
    /\ UNCHANGED <<accessVars, hour>>

\* The answer to the browser.
ShowPage(p) ==
    /\ page[p].pc = "open" /\ \A a \in Application : ~Awaited(p, a)
    /\ page' = [page EXCEPT ![p] = NoPage]
    /\ UNCHANGED <<accessVars, cache, hour>>

-----------------------------------------------------------------------------
(* Meanwhile. *)

RestartProcess ==
    /\ cache' = [b \in Browser |-> [a \in Application |-> NoOutcome]]
    /\ page' = [p \in Page |-> NoPage]
    /\ UNCHANGED <<accessVars, hour>>

\* Whatever waits gives up in time.
HourPasses ==
    /\ hour < MaxClock
    /\ \A p \in Page, a \in Application : Awaited(p, a) => page[p].cards[a].until > hour
    /\ hour' = hour + 1
    /\ UNCHANGED <<accessVars, cache, page>>

PortalNext ==
    \/ \E p \in Page :
          \/ \E only \in Application \cup {"all"} : OpenPage(p, only)
          \/ ListApplications(p) \/ ShowPage(p)
          \/ \E a \in Application : ApplicationAnswers(p, a) \/ Receive(p, a) \/ FetchFails(p, a)
    \/ \E e \in Email, a \in Application : GrantOrRevoke(e, a) /\ UNCHANGED portalVars
    \/ \E a \in Application : ChangeApplication(a) /\ UNCHANGED portalVars
    \/ RestartProcess \/ HourPasses

PortalSpec == AccessInit /\ PortalInit /\ [][PortalNext]_<<accessVars, portalVars>>

-----------------------------------------------------------------------------
(* Properties. *)

Outcomes == [kind : {"none", "asked", "summary", "refusal", "ready", "hidden", "failed"}, who : SUBSET Email,
             made : 0..MaxClock, until : 0..MaxClock + CacheTtl + Wait]

PortalTypeOK ==
    /\ AccessTypeOK
    /\ cache \in [Browser -> [Application -> Outcomes]]
    /\ page \in [Page -> [pc : {"idle", "list", "open"}, only : Application \cup {"all"},
                          since : 0..MaxClock, cards : [Application -> Outcomes]]]
    /\ hour \in 0..MaxClock

\* A card that comes on a page is a summary the application has given for this
\* person, and not for another session, and no older, at the moment the page asked,
\* than the cache and one wait allow; in whatever order pages, retries, answers
\* and changes of access came.
CardsAreOnesOwn ==
    \A p \in Page : page[p].pc = "open" =>
        \A a \in Application : page[p].cards[a].kind = "ready" =>
            /\ page[p].cards[a].who = {Who(p)}
            /\ page[p].cards[a].made + CacheTtl + Wait > page[p].since
=============================================================================
