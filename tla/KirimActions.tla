---------------------------- MODULE KirimActions ----------------------------
(***************************************************************************)
(* Edits, deletes and reactions on one message of a chat: officers act     *)
(* through the API (kirim/actions.ts), somebody acts on the number's phone *)
(* or on another one, and the engine reports every change back             *)
(* (kirim/ingest.ts).  A reaction is the number's own.                     *)
(*                                                                         *)
(* A request is checked, the engine takes it, and a transaction stores it  *)
(* with the officer's name; the engine's echo of it may be ingested before *)
(* or after that transaction, and the process may stop in between.         *)
(***************************************************************************)
EXTENDS Naturals, Sequences

CONSTANTS
    Officer,      \* officers with a request each
    Body,         \* texts of the message, the first one included
    Emoji,        \* reactions, NoEmoji excluded
    MaxChanges    \* bound: changes WhatsApp ever takes

NoEmoji == "none"

ASSUME ActionsAssumption == MaxChanges \in Nat /\ Body # {} /\ NoEmoji \notin Body

VARIABLES
    place,        \* the message: the number's own or the contact's, and in a group "ours" or another "member"'s
    admins,       \* who administers the group at WhatsApp: the number, another member
    listed,       \* who does as stored: kirim_groups.nomor_ini_admin, kirim_group_members.admin
    wa,           \* what WhatsApp shows, and who changed it last
    echoes,       \* events of changes, not ingested yet
    stored,       \* the row of kirim_messages
    request,      \* officer -> the request under way
    changes,      \* changes WhatsApp took
    tangled,      \* history: a change began before an earlier one settled, or changed nothing
    dropped,      \* history: a process stopped after the engine took a change
    misjudged     \* history: a deletion was judged by another role than the one WhatsApp judged it by

actionsVars == <<place, admins, listed, wa, echoes, stored, request, changes, tangled, dropped, misjudged>>

Phone == "hp"
Nobody == "nobody"
Author == "pengirim"
GroupAdmin == "admin_grup"
FirstBody == CHOOSE b \in Body : TRUE
Change == [kind : {"edit"}, value : Body] \cup [kind : {"delete"}, value : {"gone"}]
              \cup [kind : {"reaction"}, value : Emoji \cup {NoEmoji}]
Kinds == {"edit", "delete", "reaction"}
Reporter == {"me", "sender", "admin", "other"}
Administrator == {"me", "admin"}
InAGroup == place \in {"ours", "member"}
Roles == IF InAGroup THEN Administrator ELSE {}
OwnMessage == place \in {"own", "ours"}
Fresh == [edit |-> FirstBody, delete |-> "here", reaction |-> NoEmoji,
          by |-> [k \in Kinds |-> Nobody]]
NoRequest == [pc |-> "idle"]

ActionsInit ==
    /\ place \in {"own", "contact", "ours", "member"}
    /\ admins \in SUBSET Roles /\ listed \in SUBSET Roles
    /\ wa = Fresh /\ stored = Fresh
    /\ echoes = <<>>
    /\ request = [o \in Officer |-> NoRequest]
    /\ changes = 0
    /\ tangled = FALSE /\ dropped = FALSE /\ misjudged = FALSE

\* x after the change, made by who.
Changed(x, ch, who) == [x EXCEPT ![ch.kind] = ch.value, !.by[ch.kind] = who]

Quiet == echoes = <<>> /\ \A o \in Officer : request[o].pc = "idle"

-----------------------------------------------------------------------------
(* WhatsApp. *)

\* A change happens at WhatsApp, which reports it.
Happens(ch, who, from) ==
    /\ changes < MaxChanges
    /\ wa.delete = "here"
    /\ wa' = Changed(wa, ch, who)
    /\ echoes' = Append(echoes, [ch |-> ch, from |-> from, may |-> TRUE])
    /\ changes' = changes + 1

OnAPhone(ch, who, from) ==
    /\ ch.value # wa[ch.kind]
    /\ Happens(ch, who, from)
    /\ tangled' = (tangled \/ ~Quiet)
    /\ UNCHANGED <<place, admins, listed, stored, request, dropped, misjudged>>

\* The number's own phone: also an admin's delete of another member's message.
OnPhone(ch) ==
    /\ ch.kind = "edit" => OwnMessage
    /\ ch.kind = "delete" => OwnMessage \/ (place = "member" /\ "me" \in admins)
    /\ OnAPhone(ch, Phone, "me")

\* The one who wrote the message, and another admin of the group, who may delete everybody's.
OnOtherPhone(ch) ==
    \/ ~OwnMessage /\ ch.kind # "reaction" /\ OnAPhone(ch, Author, "sender")
    \/ InAGroup /\ ch.kind = "delete" /\ "admin" \in admins /\ OnAPhone(ch, GroupAdmin, "admin")

\* WhatsApp does not authenticate edits and deletes: a report of one that is not this person's to make.
Pretended(ch, from) ==
    /\ ch.kind # "reaction"
    /\ from = "admin" => InAGroup /\ (ch.kind = "edit" \/ "admin" \notin admins)
    /\ changes < MaxChanges
    /\ echoes' = Append(echoes, [ch |-> ch, from |-> from, may |-> FALSE])
    /\ changes' = changes + 1
    /\ UNCHANGED <<place, admins, listed, wa, stored, request, tangled, dropped, misjudged>>

\* Somebody becomes an administrator of the group, or is one no longer: followed where
\* the module reads the roles, for the message of another member.
RoleChanges(x) ==
    /\ place = "member"
    /\ admins' = IF x \in admins THEN admins \ {x} ELSE admins \cup {x}
    /\ UNCHANGED <<place, listed, wa, echoes, stored, request, changes, tangled, dropped, misjudged>>

\* A refresh of the group stores its roles.
RefreshRoles ==
    /\ place = "member"
    /\ listed' = admins
    /\ UNCHANGED <<place, admins, wa, echoes, stored, request, changes, tangled, dropped, misjudged>>

-----------------------------------------------------------------------------
(* The API: edit, remove and react. *)

\* Only the number's own message is edited or deleted. A deleted message is left
\* alone, and an edit to the text it has changes nothing.
Accepts(ch) ==
    /\ ch.kind # "reaction" => OwnMessage
    /\ stored.delete = "here"
    /\ ch.kind = "edit" => ch.value # stored.edit

\* The message is the module's own, was sent, and its number can be reached.
Ask(o, ch) ==
    /\ request[o].pc = "idle"
    /\ Accepts(ch)
    /\ request' = [request EXCEPT ![o] = [pc |-> "engine", ch |-> ch, taken |-> FALSE]]
    /\ UNCHANGED <<place, admins, listed, wa, echoes, stored, changes, tangled, dropped, misjudged>>

EditMessage(o, ch) == ch.kind = "edit" /\ Ask(o, ch)

RemoveMessage(o, ch) == ch.kind = "delete" /\ Ask(o, ch)

ReactTo(o, ch) == ch.kind = "reaction" /\ Ask(o, ch)

\* The engine knows a request it took before by its key, and answers it again.
EngineTakes(o) ==
    /\ request[o].pc = "engine"
    /\ IF request[o].taken
       THEN UNCHANGED <<wa, echoes, changes, tangled>>
       ELSE /\ Happens(request[o].ch, o, "me")
            /\ tangled' = (tangled \/ echoes # <<>> \/ request[o].ch.value = wa[request[o].ch.kind]
                             \/ \E p \in Officer \ {o} : request[p].pc # "idle" /\ request[p].taken)
    /\ request' = [request EXCEPT ![o].pc = "record", ![o].taken = TRUE]
    /\ UNCHANGED <<place, admins, listed, stored, dropped, misjudged>>

EngineRefuses(o) ==
    /\ request[o].pc = "engine" /\ ~request[o].taken
    /\ request' = [request EXCEPT ![o] = NoRequest]
    /\ UNCHANGED <<place, admins, listed, wa, echoes, stored, changes, tangled, dropped, misjudged>>

\* Whether the stored message changes: recordEdit, recordDelete, nextReactions.
EditChanges(ch) == stored.delete = "here" /\ stored.edit # ch.value
DeleteChanges(ch) == stored.delete = "here"
ReactionChanges(ch) == stored.reaction # ch.value

Changes(ch) ==
    \/ ch.kind = "edit" /\ EditChanges(ch)
    \/ ch.kind = "delete" /\ DeleteChanges(ch)
    \/ ch.kind = "reaction" /\ ReactionChanges(ch)

\* What reattributeEcho takes for the echo of the change, the last one of its kind made
\* on the phone, whatever its value; and nextReactions for the reaction of the number.
IsTheEcho(ch) ==
    IF ch.kind = "reaction" THEN stored.reaction = ch.value /\ ch.value # NoEmoji
    ELSE stored.by[ch.kind] = Phone

\* Another edit from the phone is left alone when it is older than five minutes, which a
\* request never lasts.
MayBeOlder(ch) == stored[ch.kind] # ch.value

\* Mutant: a change the echo brought first is left with the name it has.
StoreUnlessEchoed(o) ==
    LET ch == request[o].ch
    IN stored' = IF Changes(ch) THEN Changed(stored, ch, o) ELSE stored

\* When the echo came first only the name is put right.
StoreRequest(o) ==
    LET ch == request[o].ch
    IN \/ Changes(ch) /\ stored' = Changed(stored, ch, o)
       \/ ~Changes(ch) /\ IsTheEcho(ch) /\ stored' = [stored EXCEPT !.by[ch.kind] = o]
       \/ ~Changes(ch) /\ (~IsTheEcho(ch) \/ MayBeOlder(ch)) /\ UNCHANGED stored

\* One transaction after the engine's answer.
RecordChange(o) ==
    /\ StoreRequest(o)
    /\ request' = [request EXCEPT ![o] = NoRequest]
    /\ UNCHANGED <<place, admins, listed, wa, echoes, changes, tangled, dropped, misjudged>>

RecordEdit(o) == request[o].pc = "record" /\ request[o].ch.kind = "edit" /\ RecordChange(o)

RecordRemoval(o) == request[o].pc = "record" /\ request[o].ch.kind = "delete" /\ RecordChange(o)

RecordReaction(o) == request[o].pc = "record" /\ request[o].ch.kind = "reaction" /\ RecordChange(o)

\* The process stops; the module may send the request again with its key.
StopRequest(o) ==
    /\ request[o].pc \in {"engine", "record"}
    /\ request' = [request EXCEPT ![o].pc = "stopped"]
    /\ dropped' = (dropped \/ request[o].taken)
    /\ UNCHANGED <<place, admins, listed, wa, echoes, stored, changes, tangled, misjudged>>

SendAgain(o) ==
    /\ request[o].pc = "stopped"
    /\ request' = IF Accepts(request[o].ch) THEN [request EXCEPT ![o].pc = "engine"]
                  ELSE [request EXCEPT ![o] = NoRequest]
    /\ UNCHANGED <<place, admins, listed, wa, echoes, stored, changes, tangled, dropped, misjudged>>

-----------------------------------------------------------------------------
(* Ingest. *)

\* Whose change it is, relative to the message: its author's, an admin's of the group by
\* the roles as stored, or nobody's. The number's own message is nobody else's.
AuthorOf(from) ==
    CASE from = (IF OwnMessage THEN "me" ELSE "sender") -> "author"
      [] place = "member" /\ from \in Administrator \cap listed -> "group_admin"
      [] OTHER -> "other"

\* A deletion WhatsApp took that the module refuses, or the reverse: the role as stored
\* is not the one it was made under, or the message is the number's own.
Misjudges(e) ==
    /\ e.ch.kind = "delete" /\ e.from \in Administrator
    /\ \/ place = "member" /\ e.may # (e.from \in listed)
       \/ place = "ours" /\ e.from = "admin" /\ e.may

\* The name a change from the engine is stored under.
ByOf(from) == CASE from = "me" -> Phone [] from = "admin" -> GroupAdmin [] OTHER -> Author

\* An event of this kind: stored when it is allowed and changes something.
IngestEcho(kind, allowed) ==
    /\ echoes # <<>>
    /\ Head(echoes).ch.kind = kind
    /\ LET e == Head(echoes)
       IN /\ stored' = IF AuthorOf(e.from) \in allowed /\ Changes(e.ch)
                       THEN Changed(stored, e.ch, ByOf(e.from)) ELSE stored
          /\ misjudged' = (misjudged \/ Misjudges(e))
    /\ echoes' = Tail(echoes)
    /\ UNCHANGED <<place, admins, listed, wa, request, changes, tangled, dropped>>

\* Only the message's own author may change its text.
ApplyEngineEdit == IngestEcho("edit", {"author"})

\* The author may delete, and in a group also an admin.
ApplyEngineDelete == IngestEcho("delete", {"author", "group_admin"})

ApplyEngineReaction == IngestEcho("reaction", {"author", "group_admin", "other"})

ActionsNext ==
    \/ \E ch \in Change :
          \/ OnPhone(ch) \/ OnOtherPhone(ch)
          \/ \E from \in {"other", "admin"} : Pretended(ch, from)
          \/ \E o \in Officer : EditMessage(o, ch) \/ RemoveMessage(o, ch) \/ ReactTo(o, ch)
    \/ \E o \in Officer :
          \/ EngineTakes(o) \/ EngineRefuses(o) \/ StopRequest(o) \/ SendAgain(o)
          \/ RecordEdit(o) \/ RecordRemoval(o) \/ RecordReaction(o)
    \/ \E x \in Administrator : RoleChanges(x)
    \/ RefreshRoles
    \/ ApplyEngineEdit \/ ApplyEngineDelete \/ ApplyEngineReaction

ActionsSpec == ActionsInit /\ [][ActionsNext]_actionsVars

-----------------------------------------------------------------------------
(* Properties. *)

Shown(x) == [k \in Kinds |-> x[k]]

ActionsTypeOK ==
    /\ {Shown(wa), Shown(stored)} \subseteq [Kinds -> Body \cup Emoji \cup {NoEmoji, "here", "gone"}]
    /\ {wa.by, stored.by} \subseteq [Kinds -> Officer \cup {Phone, Author, GroupAdmin, Nobody}]
    /\ place \in {"own", "contact", "ours", "member"} /\ {admins, listed} \subseteq SUBSET Administrator
    /\ echoes \in Seq([ch : Change, from : Reporter, may : BOOLEAN]) /\ changes \in 0..MaxChanges
    /\ \A o \in Officer : request[o].pc \in {"idle", "engine", "record", "stopped"}
    /\ \A o \in Officer : request[o].pc # "idle" => request[o].ch \in Change /\ request[o].taken \in BOOLEAN
    /\ {tangled, dropped, misjudged} \subseteq BOOLEAN

\* When requests and events have settled, and changes did not overtake one
\* another, a chat shows what WhatsApp shows, also after a stop between the
\* engine and the transaction; and without such a stop each change carries the
\* name of whoever made it: the officer, whether the echo came before or after,
\* the phone, the author or an admin of the group; and what nobody may do is ignored.
\* It does not hold once a deletion was misjudged: the roles of a group are as old
\* as its last refresh (ingest.ts:665, 682-688), and an admin's deletion of the
\* number's own message is always refused (ingest.ts:668).
ShownAndNamed ==
    Quiet /\ ~tangled /\ ~misjudged =>
        /\ Shown(stored) = Shown(wa)
        /\ ~dropped => \A k \in Kinds : stored.by[k] = wa.by[k] \/ (k = "reaction" /\ wa[k] = NoEmoji)
=============================================================================
