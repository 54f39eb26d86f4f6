---------------------------- MODULE KirimGroups ----------------------------
(***************************************************************************)
(* WhatsApp groups of one number (kirim/groups-admin.ts, and the refresh   *)
(* of groups in kirim/ingest.ts).  Additions are reserved under an hourly  *)
(* limit before the engine is asked, a new group may be asked for with an  *)
(* idempotency key, and what the engine answers is stored afterwards, so   *)
(* answers of several requests and of the refresh overtake one another.    *)
(***************************************************************************)
EXTENDS Naturals, FiniteSets, FiniteSetsExt

CONSTANTS
    Creation,     \* requests for one new group, with one key and one body
    Edit,         \* requests that change an existing group
    AddLimit,     \* addLimitPerHour
    Hour,         \* an hour, in ticks
    MaxTicks,     \* bound: ticks
    MaxLost       \* bound: answers of the engine that are lost, and stops

ASSUME GroupsAssumption ==
    /\ {AddLimit, Hour, MaxTicks, MaxLost} \subseteq Nat
    /\ Creation \cap Edit = {}
    /\ Creation \cap {"none", "in progress", "refused", "failed", "done"} = {}

VARIABLES
    req,          \* request -> how far it is
    reserved,     \* request -> its row in kirim_group_additions
    created,      \* creations WhatsApp made a group for
    whatsapp,     \* the existing group in WhatsApp: versions of its people and its name
    kept,         \* the same group as stored
    lister,       \* what the refresh of groups holds
    unheard,      \* history: an answer of the engine was lost
    ticks, lostAnswers

groupsVars == <<req, reserved, created, whatsapp, kept, lister, unheard, ticks, lostAnswers>>

Request == Creation \cup Edit
NoRow == [at |-> 0, n |-> 0, group |-> "none"]
Rows == {r \in Request : reserved[r].n > 0}
NoAnswer == [people |-> 0, name |-> 0, left |-> TRUE]
NewGroup == [people |-> 0, name |-> 0, left |-> FALSE]

GroupsInit ==
    /\ req = [r \in Request |-> [pc |-> "idle", kind |-> "none", n |-> 0, saw |-> NoAnswer, answer |-> "none"]]
    /\ reserved = [r \in Request |-> NoRow]
    /\ created = {}
    /\ whatsapp = NewGroup /\ kept = NewGroup
    /\ lister = [pc |-> "idle", saw |-> NoAnswer]
    /\ unheard = FALSE
    /\ ticks = 0 /\ lostAnswers = 0

Goto(r, pc) == req' = [req EXCEPT ![r].pc = pc]

\* What a creation answers is kept.
Ends(r, answer) ==
    req' = [req EXCEPT ![r] = [pc |-> "ended", kind |-> "none", n |-> 0, saw |-> NoAnswer,
                               answer |-> IF r \in Creation THEN answer ELSE "none"]]

-----------------------------------------------------------------------------
(* Requests of the module. *)

\* A key seen before answers its group, or that its request is still under way.
BeginCreate(r, n) ==
    /\ req[r].pc = "idle"
    /\ LET known == Rows \cap Creation
       IN IF known = {} THEN req' = [req EXCEPT ![r].pc = "reserve", ![r].kind = "create", ![r].n = n]
          ELSE \E k \in known :
                  Ends(r, IF reserved[k].group = "none" THEN "in progress" ELSE reserved[k].group)
    /\ UNCHANGED <<reserved, created, whatsapp, kept, lister, ticks, lostAnswers, unheard>>

\* A group the number left is not found.
Begin(r, kind, n) ==
    /\ req[r].pc = "idle" /\ ~kept.left
    /\ req' = [req EXCEPT ![r] = [@ EXCEPT !.pc = IF n > 0 THEN "reserve" ELSE "engine", !.kind = kind, !.n = n]]
    /\ UNCHANGED <<reserved, created, whatsapp, kept, lister, ticks, lostAnswers, unheard>>

AddMembers(r, n) == Begin(r, "members", n)

\* What reserves nothing goes to the engine at once.
RemoveMembers(r) == Begin(r, "members", 0)

SetAdmin(r) == Begin(r, "members", 0)

AnswerJoinRequests(r) == Begin(r, "join", 0)

Rename(r) == Begin(r, "name", 0)

Leave(r) == Begin(r, "leave", 0)

\* addLimitRetry: the last hour's reservations and this one fit the limit.
Fits(n) ==
    MapThenSumSet(LAMBDA r : reserved[r].n, {r \in Rows : ticks < reserved[r].at + Hour}) + n <= AddLimit

\* Mutant: the key is not unique in kirim_group_additions.
KeyNeverTaken(r) == FALSE

KeyTaken(r) == r \in Creation /\ Rows \cap Creation # {}

\* Under the number's row lock; a request larger than the limit never fits.
Reserve(r) ==
    /\ req[r].pc = "reserve"
    /\ IF Fits(req[r].n) /\ ~KeyTaken(r)
       THEN /\ reserved' = [reserved EXCEPT ![r] = [at |-> ticks, n |-> req[r].n, group |-> "none"]]
            /\ Goto(r, "engine")
       ELSE Ends(r, "refused") /\ UNCHANGED reserved
    /\ UNCHANGED <<created, whatsapp, kept, lister, ticks, lostAnswers, unheard>>

-----------------------------------------------------------------------------
(* The engine. *)

\* createGroup, updateParticipants, answerJoinRequests, setGroupSubject, leaveGroup.
Performs(r) ==
    IF req[r].kind = "create" THEN created' = created \cup {r} /\ UNCHANGED whatsapp
    ELSE /\ ~whatsapp.left
         /\ whatsapp' = CASE req[r].kind = "name" -> [whatsapp EXCEPT !.name = @ + 1]
                          [] req[r].kind = "leave" -> [whatsapp EXCEPT !.left = TRUE]
                          [] OTHER -> [whatsapp EXCEPT !.people = @ + 1]
         /\ UNCHANGED created

\* Done.  An answer about members carries the group as it is now, if it can be
\* read; of join requests the group is asked for in a call of its own.
EngineDoes(r) ==
    /\ req[r].pc = "engine"
    /\ Performs(r)
    /\ \E saw \in {whatsapp', NoAnswer} :
          /\ req[r].kind # "members" => saw = whatsapp'
          /\ req' = [req EXCEPT ![r].pc = IF req[r].kind = "join" THEN "info" ELSE "store", ![r].saw = saw]
    /\ UNCHANGED <<reserved, kept, lister, ticks, lostAnswers, unheard>>

\* groupInfo; a refused or failed one stores nothing.
AskGroup(r) ==
    /\ req[r].pc = "info"
    /\ \E saw \in {whatsapp, NoAnswer} : req' = [req EXCEPT ![r].pc = "store", ![r].saw = saw]
    /\ UNCHANGED <<reserved, created, whatsapp, kept, lister, ticks, lostAnswers, unheard>>

\* Refused, or the number is no member any more, which is what a leave wants.
EngineSaysNo(r) ==
    /\ req[r].pc = "engine"
    /\ Goto(r, IF req[r].kind = "leave" /\ whatsapp.left THEN "store" ELSE "release")
    /\ UNCHANGED <<reserved, created, whatsapp, kept, lister, ticks, lostAnswers, unheard>>

\* Done, but the answer does not come: to the caller the engine is unavailable.
AnswerLost(r) ==
    /\ req[r].pc = "engine"
    /\ lostAnswers < MaxLost
    /\ Performs(r)
    /\ Goto(r, "release")
    /\ unheard' = TRUE
    /\ lostAnswers' = lostAnswers + 1
    /\ UNCHANGED <<reserved, kept, lister, ticks>>

\* A failed engine call gives the reservation back.
Release(r) ==
    /\ req[r].pc = "release"
    /\ reserved' = [reserved EXCEPT ![r] = NoRow]
    /\ Ends(r, "failed")
    /\ UNCHANGED <<created, whatsapp, kept, lister, ticks, lostAnswers, unheard>>

-----------------------------------------------------------------------------
(* What is stored of the engine's answers. *)

\* The reservation names the group from here on.
StoreCreated(r) ==
    /\ req[r].pc = "store" /\ req[r].kind = "create"
    /\ reserved' = [reserved EXCEPT ![r].group = r]
    /\ Ends(r, r)
    /\ UNCHANGED <<created, whatsapp, kept, lister, ticks, lostAnswers, unheard>>

\* storeGroupState: the name, the members and the admins, of a group the number is in.
StoreMembers(r) ==
    /\ req[r].pc = "store" /\ req[r].kind \in {"members", "join"}
    /\ kept' = IF req[r].saw.left THEN kept ELSE req[r].saw
    /\ Ends(r, "done")
    /\ UNCHANGED <<reserved, created, whatsapp, lister, ticks, lostAnswers, unheard>>

StoreName(r) ==
    /\ req[r].pc = "store" /\ req[r].kind = "name"
    /\ kept' = [kept EXCEPT !.name = req[r].saw.name]
    /\ Ends(r, "done")
    /\ UNCHANGED <<reserved, created, whatsapp, lister, ticks, lostAnswers, unheard>>

StoreLeft(r) ==
    /\ req[r].pc = "store" /\ req[r].kind = "leave"
    /\ kept' = [kept EXCEPT !.left = TRUE]
    /\ Ends(r, "done")
    /\ UNCHANGED <<reserved, created, whatsapp, lister, ticks, lostAnswers, unheard>>

\* The process stops: a reservation it made stays.
StopHandler(r) ==
    /\ req[r].pc \in {"engine", "info", "store", "release"}
    /\ lostAnswers < MaxLost
    /\ lostAnswers' = lostAnswers + 1
    /\ Ends(r, "failed")
    /\ UNCHANGED <<reserved, created, whatsapp, kept, lister, ticks, unheard>>

\* Somebody changes the group on the phone, leaves it, or is added again.
PhoneChanges ==
    /\ ticks < MaxTicks
    /\ whatsapp' \in {[whatsapp EXCEPT !.people = @ + 1], [whatsapp EXCEPT !.name = @ + 1], [whatsapp EXCEPT !.left = ~@]}
    /\ ticks' = ticks + 1
    /\ UNCHANGED <<req, reserved, created, kept, lister, lostAnswers, unheard>>

PassTime ==
    /\ ticks < MaxTicks
    /\ ticks' = ticks + 1
    /\ UNCHANGED <<req, reserved, created, whatsapp, kept, lister, lostAnswers, unheard>>

-----------------------------------------------------------------------------
(* refreshGroups, every 15 minutes. *)

ListGroups ==
    /\ lister.pc = "idle"
    /\ lister' = [pc |-> "store", saw |-> whatsapp]
    /\ UNCHANGED <<req, reserved, created, whatsapp, kept, ticks, lostAnswers, unheard>>

\* Mutant: a group that is stored already is left alone.
KeepKnown == kept

\* A group the engine does not list is marked as left.
Listed == IF lister.saw.left THEN [kept EXCEPT !.left = TRUE] ELSE lister.saw

StoreGroups ==
    /\ lister.pc = "store"
    /\ kept' = Listed
    /\ lister' = [pc |-> "idle", saw |-> NoAnswer]
    /\ UNCHANGED <<req, reserved, created, whatsapp, ticks, lostAnswers, unheard>>

GroupsNext ==
    \/ \E r \in Creation, n \in 1..AddLimit + 1 : BeginCreate(r, n)
    \/ \E r \in Edit, n \in 1..AddLimit + 1 : AddMembers(r, n)
    \/ \E r \in Edit : RemoveMembers(r) \/ SetAdmin(r) \/ AnswerJoinRequests(r) \/ Rename(r) \/ Leave(r)
    \/ \E r \in Request :
          \/ Reserve(r) \/ EngineDoes(r) \/ AskGroup(r) \/ EngineSaysNo(r) \/ AnswerLost(r)
          \/ Release(r) \/ StoreCreated(r) \/ StoreMembers(r) \/ StoreName(r) \/ StoreLeft(r) \/ StopHandler(r)
    \/ PhoneChanges \/ PassTime \/ ListGroups \/ StoreGroups

\* The refresh runs again and again.
GroupsFairness == WF_groupsVars(ListGroups) /\ WF_groupsVars(StoreGroups)

GroupsSpec == GroupsInit /\ [][GroupsNext]_groupsVars /\ GroupsFairness

-----------------------------------------------------------------------------
(* Properties. *)

GroupState == [people : Nat, name : Nat, left : BOOLEAN]

GroupRequests == [pc : {"idle", "reserve", "engine", "info", "release", "store", "ended"},
                  kind : {"none", "create", "members", "join", "name", "leave"}, n : 0..AddLimit + 1, saw : GroupState,
                  answer : {"none", "in progress", "refused", "failed", "done"} \cup Creation]
Reservations == [at : 0..MaxTicks, n : 0..AddLimit + 1, group : {"none"} \cup Creation]

GroupsTypeOK ==
    /\ req \in [Request -> GroupRequests] /\ reserved \in [Request -> Reservations]
    /\ created \subseteq Creation /\ {whatsapp, kept, lister.saw} \subseteq GroupState
    /\ lister.pc \in {"idle", "store"} /\ unheard \in BOOLEAN /\ ticks \in 0..MaxTicks /\ lostAnswers \in 0..MaxLost

\* However often a creation is asked for with one key, before, during and after
\* the first one, WhatsApp makes one group and every answer that names a group
\* names that one, unless an answer of the engine was lost on the way.
OneGroupPerKey ==
    ~unheard =>
        /\ Cardinality(created) <= 1
        /\ \A r \in Creation : req[r].answer \in Creation => req[r].answer \in created

\* Once nobody changes the group any more, the stored one comes to be what
\* WhatsApp has, although answers that overtook one another left an older one
\* stored, or one the number had left already.
GroupsCatchUp ==
    <>[][FALSE]_whatsapp => <>[](kept.left = whatsapp.left /\ (~kept.left => kept = whatsapp))
=============================================================================
