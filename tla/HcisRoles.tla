------------------------------ MODULE HcisRoles ------------------------------
(***************************************************************************)
(* Roles that are granted and revoked at HCIS over SQ Hub                  *)
(* (role-administration, and web/src/HcisRolesPage.tsx as its client).     *)
(* HCIS keeps the assignments and takes one change for one requestId.  A   *)
(* change that left SQ Hub may be carried out although its answer is lost, *)
(* comes as a server error, or comes too late; the operator then presses   *)
(* the same button again.                                                  *)
(***************************************************************************)
EXTENDS Naturals, FiniteSets

CONSTANTS
    Staff,       \* people of the search's result
    Role,        \* roles the operator may choose
    Press,       \* presses of a button, in their order
    MaxIds       \* bound: requestIds of grants

ASSUME RolesAssumption == Press \subseteq Nat \ {0} /\ MaxIds \in Nat /\ 0 \notin Staff

VARIABLES
    formId,      \* grantRequestId of the page
    chosen,      \* the person the page shows
    visit,       \* history: the person picked last, and how often it was another
    waiting,     \* the press the page waits for
    press,       \* press -> what was asked, how far SQ Hub is, what it answered
    flying,      \* presses whose change has left SQ Hub and not reached HCIS
    assigned,    \* assignments at HCIS: the requestId that made it and its role
    taken,       \* requestIds HCIS has taken a change for
    made,        \* history: presses whose change HCIS carried out
    audited      \* press -> outcome in platform_audit_events

rolesVars == <<formId, chosen, visit, waiting, press, flying, assigned, taken, made, audited>>

Nobody == 0
NoPress == [pc |-> "none", kind |-> "grant", id |-> 0, who |-> Nobody, role |-> "none", visit |-> 0, told |-> "none"]

RolesInit ==
    /\ formId = 0
    /\ chosen = Nobody
    /\ visit = [who |-> Nobody, count |-> 0]
    /\ waiting = Nobody
    /\ press = [p \in Press |-> NoPress]
    /\ flying = {}
    /\ assigned = {}
    /\ taken = {}
    /\ made = {}
    /\ audited = [p \in Press |-> "none"]

NextPress(p) == press[p].pc = "none" /\ \A q \in Press : q < p => press[q].pc # "none"

\* A revocation keeps one requestId for its assignment, whose own stands for both.
RequestId(p) == <<press[p].kind, press[p].id>>

-----------------------------------------------------------------------------
(* The page. *)

\* loadPerson: nobody is shown when the look-up fails.
Shown(s) == chosen' \in {s, Nobody}

\* Another person is another action; so is a person picked after a search.
PickPerson(s) ==
    /\ waiting = Nobody
    /\ chosen # s => formId < MaxIds
    /\ formId' = IF chosen = s THEN formId ELSE formId + 1
    /\ visit' = IF visit.who = s THEN visit ELSE [who |-> s, count |-> visit.count + 1]
    /\ Shown(s)
    /\ UNCHANGED <<waiting, press, flying, assigned, taken, made, audited>>

Search ==
    /\ waiting = Nobody /\ chosen # Nobody
    /\ chosen' = Nobody
    /\ UNCHANGED <<formId, visit, waiting, press, flying, assigned, taken, made, audited>>

Pressed(p, kind, id, r) ==
    /\ waiting = Nobody /\ NextPress(p)
    /\ press' = [press EXCEPT ![p] = [pc |-> "begin", kind |-> kind, id |-> id, who |-> chosen,
                                      role |-> r, visit |-> visit.count, told |-> "none"]]
    /\ waiting' = p
    /\ UNCHANGED <<formId, chosen, visit, flying, assigned, taken, made, audited>>

\* The form may have been edited since the last press; the id is kept.
PressGrant(p, r) == chosen # Nobody /\ Pressed(p, "grant", formId, r)

PressRevoke(p, a) == chosen = a.who /\ Pressed(p, "revoke", a.id, a.role)

\* settleIfRecorded: the id is renewed when the action is known to be done.
ReadAnswer(p) ==
    /\ waiting = p /\ press[p].pc = "answered"
    /\ waiting' = Nobody
    /\ IF press[p].told \in {"done", "recorded"}
       THEN Shown(chosen) /\ formId' = IF press[p].kind = "grant" THEN formId + 1 ELSE formId
       ELSE UNCHANGED <<formId, chosen>>
    /\ UNCHANGED <<visit, press, flying, assigned, taken, made, audited>>

\* No answer reaches the browser; SQ Hub goes on.
AnswerLostOnTheWay(p) ==
    /\ waiting = p /\ p # Nobody
    /\ waiting' = Nobody
    /\ UNCHANGED <<formId, chosen, visit, press, flying, assigned, taken, made, audited>>

-----------------------------------------------------------------------------
(* SQ Hub. *)

\* Each attempted change is audited, but for a failure to write.
Audit(p, outcome) == \E written \in {outcome, "none"} : audited' = [audited EXCEPT ![p] = written]

Answers(p, told) ==
    /\ press' = [press EXCEPT ![p].pc = "answered", ![p].told = told]
    /\ Audit(p, IF told = "done" THEN "succeeded" ELSE "failed")

\* H-0 refuses before anything is audited.
NotAuthorized(p) ==
    /\ press[p].pc = "begin"
    /\ press' = [press EXCEPT ![p].pc = "answered", ![p].told = "nothing changed"]
    /\ UNCHANGED <<formId, chosen, visit, waiting, flying, assigned, taken, made, audited>>

\* The operator himself, no channel, no token, no assertion, HCIS unreachable, an
\* unreadable answer, no account there, or no such assignment that can be revoked.
RefusedBefore(p) ==
    /\ press[p].pc \in {"begin", "again"}
    /\ Answers(p, "nothing changed")
    /\ UNCHANGED <<formId, chosen, visit, waiting, flying, assigned, taken, made>>

Assignment(p) == [id |-> press[p].id, who |-> press[p].who, role |-> press[p].role]
Possible(p) == press[p].kind = "revoke" => Assignment(p) \in assigned

\* The person's account or assignment is found; the change leaves with an
\* assertion exchanged for it.
LookUp(p) ==
    /\ press[p].pc = "begin"
    /\ Possible(p)
    /\ press' = [press EXCEPT ![p].pc = "first"]
    /\ flying' = flying \cup {p}
    /\ UNCHANGED <<formId, chosen, visit, waiting, assigned, taken, made, audited>>

SendAgain(p) ==
    /\ press[p].pc = "again"
    /\ press' = [press EXCEPT ![p].pc = "second"]
    /\ flying' = flying \cup {p}
    /\ UNCHANGED <<formId, chosen, visit, waiting, assigned, taken, made, audited>>

\* No answer in time, or the connection breaks: the change may still be on its way.
GiveUpWaiting(p) ==
    /\ press[p].pc \in {"first", "second", "told", "told server error"}
    /\ Answers(p, "unknown")
    /\ UNCHANGED <<formId, chosen, visit, waiting, flying, assigned, taken, made>>

\* Mutant: a server error is an error like any other.
OnlyAnError(p) == "nothing changed"

ServerError(p) == "unknown"

GotServerError(p) ==
    /\ press[p].pc = "told server error"
    /\ Answers(p, ServerError(p))
    /\ UNCHANGED <<formId, chosen, visit, waiting, flying, assigned, taken, made>>

\* The status and the code HCIS has answered with.
GotAnswer(p) ==
    /\ press[p].pc = "told"
    /\ Answers(p, press[p].told)
    /\ UNCHANGED <<formId, chosen, visit, waiting, flying, assigned, taken, made>>

-----------------------------------------------------------------------------
(* HCIS. *)

Waits(p) == press[p].pc \in {"first", "second"}
Reply(p, told) == press' = IF Waits(p) THEN [press EXCEPT ![p].pc = "told", ![p].told = told] ELSE press

\* The change is carried out, and answered with 201 or 204 or a server error.
Carries(p) ==
    /\ p \in flying /\ RequestId(p) \notin taken /\ Possible(p)
    /\ assigned' = IF press[p].kind = "grant" THEN assigned \cup {Assignment(p)} ELSE assigned \ {Assignment(p)}
    /\ taken' = taken \cup {RequestId(p)}
    /\ made' = made \cup {p}
    /\ flying' = flying \ {p}
    /\ \/ Reply(p, "done")
       \/ Waits(p) /\ press' = [press EXCEPT ![p].pc = "told server error"]
    /\ UNCHANGED <<formId, chosen, visit, waiting, audited>>

\* ROLE_ADMIN_REQUEST_REPLAYED.
Replays(p) ==
    /\ p \in flying /\ RequestId(p) \in taken
    /\ Reply(p, "recorded")
    /\ flying' = flying \ {p}
    /\ UNCHANGED <<formId, chosen, visit, waiting, assigned, taken, made, audited>>

\* A refusal of the domain, or a channel that is switched off.
Refuses(p) ==
    /\ p \in flying
    /\ Reply(p, "nothing changed")
    /\ flying' = flying \ {p}
    /\ UNCHANGED <<formId, chosen, visit, waiting, assigned, taken, made, audited>>

\* An assertion that is too old or spent: once, a new one is exchanged.
WantsAnother(p) ==
    /\ p \in flying
    /\ flying' = flying \ {p}
    /\ IF press[p].pc = "first" THEN press' = [press EXCEPT ![p].pc = "again"] ELSE Reply(p, "nothing changed")
    /\ UNCHANGED <<formId, chosen, visit, waiting, assigned, taken, made, audited>>

Fails(p) ==
    /\ p \in flying /\ Waits(p)
    /\ press' = [press EXCEPT ![p].pc = "told server error"]
    /\ flying' = flying \ {p}
    /\ UNCHANGED <<formId, chosen, visit, waiting, assigned, taken, made, audited>>

RolesNext ==
    \/ \E s \in Staff : PickPerson(s)
    \/ Search
    \/ \E p \in Press :
          \/ formId <= MaxIds /\ \E r \in Role : PressGrant(p, r)
          \/ \E a \in assigned : PressRevoke(p, a)
          \/ ReadAnswer(p) \/ AnswerLostOnTheWay(p)
          \/ NotAuthorized(p) \/ RefusedBefore(p) \/ LookUp(p) \/ SendAgain(p)
          \/ GiveUpWaiting(p) \/ GotServerError(p) \/ GotAnswer(p)
          \/ Carries(p) \/ Replays(p) \/ Refuses(p) \/ WantsAnother(p) \/ Fails(p)

RolesSpec == RolesInit /\ [][RolesNext]_rolesVars

-----------------------------------------------------------------------------
(* Properties. *)

Pcs == {"none", "begin", "first", "again", "second", "told", "told server error", "answered"}
Tolds == {"none", "done", "recorded", "nothing changed", "unknown"}
Presses == [pc : Pcs, kind : {"grant", "revoke"}, id : 0..MaxIds, who : Staff \cup {Nobody},
            role : Role \cup {"none"}, visit : Nat, told : Tolds]

RolesTypeOK ==
    /\ formId \in 0..MaxIds + 1 /\ chosen \in Staff \cup {Nobody}
    /\ visit \in [who : Staff \cup {Nobody}, count : Nat] /\ waiting \in Press \cup {Nobody}
    /\ press \in [Press -> Presses]
    /\ flying \subseteq Press /\ made \subseteq Press
    /\ assigned \subseteq [id : 1..MaxIds, who : Staff, role : Role]
    /\ taken \subseteq {"grant", "revoke"} \X (1..MaxIds)
    /\ audited \in [Press -> {"none", "succeeded", "failed"}]

\* What the operator is told of a press, and the audit row of it, is what
\* happened at HCIS, now and later: "done" was carried out, "recorded" was
\* carried out for another press of the action, and after "nothing changed"
\* nothing of it is or will be, wherever an answer was lost or came late.  So no
\* action that is pressed again after a failure is carried out twice.
ToldWhatHappened ==
    /\ \A p \in Press : press[p].pc = "answered" =>
          /\ press[p].told = "done" => p \in made
          /\ press[p].told = "recorded" => \E q \in made : q # p /\ RequestId(q) = RequestId(p)
          /\ press[p].told = "nothing changed" => p \notin made \cup flying
          /\ audited[p] = "succeeded" => p \in made
    /\ \A p, q \in made : RequestId(p) = RequestId(q) => p = q

\* HcisRolesPage.tsx: the id "is renewed only when the action is known to be done
\* or another person is picked. So a resend after 'outcome unknown' can never
\* create a second assignment." When the page shows the same person again after a
\* search or a failed look-up, the id is renewed as well.
NoSecondAssignment ==
    \A p, q \in made :
        /\ p < q /\ press[p].kind = "grant" /\ press[q].kind = "grant"
        /\ press[p].role = press[q].role /\ press[p].visit = press[q].visit
        => press[p].told # "unknown"
=============================================================================
