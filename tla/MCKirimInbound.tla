--------------------------- MODULE MCKirimInbound ---------------------------
(***************************************************************************)
(* Instances of KirimPull, KirimChats, KirimActions, KirimNumbers,         *)
(* KirimGroups and KirimPhotos for TLC: what comes in from a number, and   *)
(* the number and its groups themselves.  The six share no variable, so a  *)
(* behaviour moves one of them, chosen at the start, and the others stay   *)
(* as they began.                                                          *)
(***************************************************************************)
EXTENDS KirimPull, KirimChats, KirimActions, KirimNumbers, KirimGroups, KirimPhotos

VARIABLE part

inboundVars == <<part, pullVars, chatsVars, actionsVars, numbersVars, groupsVars, photosVars>>

InboundInit ==
    /\ part \in {"pull", "chats", "actions", "numbers", "groups", "photos"}
    /\ PullInit /\ ChatsInit /\ ActionsInit /\ NumbersInit /\ GroupsInit /\ PhotosInit
    /\ part # "actions" => place = "own"
    /\ place = "ours" => admins = {"admin"} /\ listed = {}
    /\ part # "numbers" => \A t \in EngineTenant : engine[t].session = "absent"
    /\ part # "photos" => \A s \in Subject : shows[s] = NoPhoto

InboundNext ==
    /\ \/ part = "pull" /\ PullNext /\ UNCHANGED <<chatsVars, actionsVars, numbersVars, groupsVars, photosVars>>
       \/ part = "chats" /\ ChatsNext /\ UNCHANGED <<pullVars, actionsVars, numbersVars, groupsVars, photosVars>>
       \/ part = "actions" /\ ActionsNext /\ UNCHANGED <<pullVars, chatsVars, numbersVars, groupsVars, photosVars>>
       \/ part = "numbers" /\ NumbersNext /\ UNCHANGED <<pullVars, chatsVars, actionsVars, groupsVars, photosVars>>
       \/ part = "groups" /\ GroupsNext /\ UNCHANGED <<pullVars, chatsVars, actionsVars, numbersVars, photosVars>>
       \/ part = "photos" /\ PhotosNext /\ UNCHANGED <<pullVars, chatsVars, actionsVars, numbersVars, groupsVars>>
    /\ UNCHANGED part

InboundSpec == InboundInit /\ [][InboundNext]_inboundVars

\* What one process, or one module, is in.  Which of those that are alike it is makes no
\* difference.
OfProcess(p) == <<pull[p], again[p], [c \in Caller |-> [caller[c] EXCEPT !.at = IF @ = p THEN "here" ELSE "not here"]]>>
OfModule(m) == <<card[m], {n \in Numbers : owner[n] = m}, {n \in Numbers : <<m, n>> \in routes}>>

\* How much waits in a row and which calls are among it: no step tells one message from another.
Waits(r) == <<Cardinality(waiting[r]), {c \in Call : call[c].row = r /\ call[c].item \in waiting[r]}, Cardinality(overtaken[r])>>

\* Two states are the same when what moves in them is, or when ShownAndNamed says nothing
\* of them, nor of what comes after them.
Moving == <<photosVars,
    CASE part = "pull"    -> <<part, shown, tenant, held, recorded, applied, faults, {OfProcess(p) : p \in Puller}>>
      [] part = "chats"   -> <<part, rows, alt, unread, readUntil, items, [c \in Call |-> [call[c] EXCEPT !.item = 0]],
                               home, event, opener, [r \in Row |-> Waits(r)]>>
      [] part = "actions" -> IF tangled \/ misjudged THEN <<part>> ELSE <<part, actionsVars>>
      [] part = "numbers" -> <<part, deviceStatus, runsOn, linked, filled, engine, job, turns, {OfModule(m) : m \in Module}>>
      [] part = "groups"  -> <<part, groupsVars>>
      [] part = "photos"  -> <<part>>>>

\* Every variable of the six stays within its type.
InboundTypeOK ==
    PullTypeOK /\ ChatsTypeOK /\ ActionsTypeOK /\ NumbersTypeOK /\ GroupsTypeOK /\ PhotosTypeOK
=============================================================================
