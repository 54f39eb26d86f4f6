----------------------------- MODULE KirimChats -----------------------------
(***************************************************************************)
(* One person who writes to one number, and the chats the number keeps     *)
(* with that person (kirim/ingest.ts and kirim/conversations.ts).          *)
(*                                                                         *)
(* WhatsApp knows the person under a phone number ("pn") and an opaque     *)
(* address ("lid"); a chat is keyed by one of them and may remember the    *)
(* other.  An event carries one address or both, and its chat is looked    *)
(* up, or created, before the event is stored: two steps, because the      *)
(* module that owns the number may open a chat in between.  The events     *)
(* themselves come one at a time (KirimPull).  A group the number is in    *)
(* counts its unread messages too; its row is created inside the event's   *)
(* transaction.                                                            *)
(***************************************************************************)
EXTENDS Naturals, FiniteSets

CONSTANTS
    Call,         \* calls of the person
    MaxItems,     \* bound: messages and calls of the person
    MaxRevision   \* bound: revisions of a call

ASSUME ChatsAssumption == MaxItems \in Nat /\ MaxRevision \in Nat \ {0}

VARIABLES
    rows,         \* kirim_conversations of the person, by kontak_jenis, and the row of the group
    alt,          \* rows that know the other address (kontak_alt_hmac)
    unread,       \* row -> belum_dibaca
    readUntil,    \* row -> dibaca_sampai_at, 0 when NULL
    waiting,      \* history: row -> the items nobody has read
    overtaken,    \* history: row -> unread calls that began before what was read, answered after all
    items,        \* items that came so far; an item's number is its time
    call,         \* call -> what is stored of it
    home,         \* history: chat of the last event that carried both addresses
    event,        \* the event whose chat has been looked up
    opener        \* openConversation: what its SELECT found

chatsVars == <<rows, alt, unread, readUntil, waiting, overtaken, items, call, home, event, opener>>

Addr == {"pn", "lid"}
Row == Addr \cup {"group"}
Sender == {{"pn"}, {"lid"}, Addr}
Outcome == {"tidak_diangkat", "diangkat"}
NoCall == [rev |-> 0, outcome |-> "none", row |-> "none", at |-> 0, item |-> 0]

ChatsInit ==
    /\ rows = {} /\ alt = {}
    /\ unread = [r \in Row |-> 0]
    /\ readUntil = [r \in Row |-> 0]
    /\ waiting = [r \in Row |-> {}] /\ overtaken = [r \in Row |-> {}]
    /\ items = 0
    /\ call = [c \in Call |-> NoCall]
    /\ home = "none"
    /\ event = [pc |-> "idle"]
    /\ opener = "idle"

-----------------------------------------------------------------------------
(* Which chat. *)

\* The rows an event from these addresses matches, by kontak_hmac or kontak_alt_hmac.
Matches(from) == {r \in rows : r \in from \/ r \in alt}

\* The number's own chat is preferred; without a match the row of the sender's address is created.
Resolve(from) ==
    CASE "pn" \in Matches(from)                    -> "pn"
      [] "pn" \notin Matches(from) /\ "lid" \in Matches(from) -> "lid"
      [] OTHER                                     -> IF "lid" \in from THEN "lid" ELSE "pn"

\* Mutant: the address remembered is the phone number, whatever the chat is keyed by.
LearnPhone(r, from) == alt \cup IF from = Addr /\ r = "lid" THEN {r} ELSE {}

\* An event with both addresses teaches its chat the other one (learnContact).
Learn(r, from) == alt \cup IF from = Addr THEN {r} ELSE {}

\* conversationFor's SELECT, for a message or for a call not stored yet.
Lookup(kind, c, from) ==
    /\ event.pc = "idle"
    /\ items < MaxItems
    /\ event' = [pc |-> kind, call |-> c, from |-> from, row |-> Resolve(from)]
    /\ UNCHANGED <<rows, alt, unread, readUntil, waiting, overtaken, items, call, home, opener>>

\* The chat is created when nothing was found: ON CONFLICT (device, kontak_hmac) DO NOTHING.
Attach(r, from) ==
    /\ rows' = rows \cup {r}
    /\ alt' = Learn(r, from)
    /\ home' = IF from = Addr THEN r ELSE home
    /\ items' = items + 1
    /\ event' = [pc |-> "idle"]

CountUnread(r) ==
    /\ unread' = [unread EXCEPT ![r] = @ + 1]
    /\ waiting' = [waiting EXCEPT ![r] = @ \cup {items + 1}]
    /\ UNCHANGED overtaken

\* Nothing waits in the chat any more.
CountNothing(r) ==
    /\ unread' = [unread EXCEPT ![r] = 0]
    /\ waiting' = [waiting EXCEPT ![r] = {}]
    /\ overtaken' = [overtaken EXCEPT ![r] = {}]

StoreInbound ==
    /\ event.pc = "inbound"
    /\ Attach(event.row, event.from)
    /\ CountUnread(event.row)
    /\ UNCHANGED <<readUntil, call, opener>>

\* Whoever answered on the phone has read the chat.
StoreDeviceSent ==
    /\ event.pc = "sent"
    /\ Attach(event.row, event.from)
    /\ CountNothing(event.row)
    /\ UNCHANGED <<readUntil, call, opener>>

\* An unanswered call counts as a message.  It is logged at its end, and stored with
\* its beginning: after item start - 1, and before any later one.
StoreCall(outcome, start) ==
    /\ event.pc = "call"
    /\ Attach(event.row, event.from)
    /\ call' = [call EXCEPT ![event.call] =
                   [rev |-> 1, outcome |-> outcome, row |-> event.row, at |-> start, item |-> items + 1]]
    /\ IF outcome = "diangkat" THEN UNCHANGED <<unread, waiting, overtaken>> ELSE CountUnread(event.row)
    /\ UNCHANGED <<readUntil, opener>>

AnsweredAfterAll(c, outcome) == call[c].outcome # "diangkat" /\ outcome = "diangkat"

\* Mutant: a call that was answered after all still waits for a reply.
CorrectOutcomeOnly(c, outcome) == UNCHANGED unread

\* A missed call that was answered after all no longer waits, unless the chat was read up to
\* something as late as its beginning.
TakeBack(c, outcome) ==
    LET r == call[c].row
    IN unread' = IF /\ AnsweredAfterAll(c, outcome)
                    /\ readUntil[r] = 0 \/ readUntil[r] < call[c].at
                    /\ unread[r] > 0
                 THEN [unread EXCEPT ![r] = @ - 1] ELSE unread

\* The row of the group is found or created, whoever else creates it meanwhile (ensureGroup).
EnsureGroup ==
    /\ event.pc = "idle"
    /\ items < MaxItems
    /\ rows' = rows \cup {"group"}
    /\ items' = items + 1
    /\ UNCHANGED <<alt, readUntil, call, home, event, opener>>

StoreGroupMessage ==
    /\ EnsureGroup
    /\ CountUnread("group")

\* storeDeviceSent for a message typed into the group.
StoreSentToGroup ==
    /\ EnsureGroup
    /\ CountNothing("group")

\* A later revision of a stored call; an older one is ignored.
CorrectCall(c, outcome) ==
    /\ event.pc = "idle"
    /\ call[c].rev \in 1..MaxRevision - 1
    /\ TakeBack(c, outcome)
    /\ call' = [call EXCEPT ![c].rev = @ + 1, ![c].outcome = outcome]
    /\ LET r == call[c].row
           answered == AnsweredAfterAll(c, outcome)
           late == call[c].item \in waiting[r] /\ readUntil[r] >= call[c].at
       IN /\ waiting' = IF answered THEN [waiting EXCEPT ![r] = @ \ {call[c].item}] ELSE waiting
          /\ overtaken' = IF answered /\ late THEN [overtaken EXCEPT ![r] = @ \cup {call[c].item}] ELSE overtaken
    /\ UNCHANGED <<rows, alt, readUntil, items, home, event, opener>>

\* The contact list names the number of the chat that is keyed by a LID (refreshContacts).
RefreshContacts ==
    /\ "lid" \in rows
    /\ alt' = alt \cup {"lid"}
    /\ UNCHANGED <<rows, unread, readUntil, waiting, overtaken, items, call, home, event, opener>>

\* A chat of the engine's history copy is filed like a message, and counts nothing (conversationForChat).
ImportChat(from) ==
    /\ rows' = rows \cup {Resolve(from)}
    /\ alt' = Learn(Resolve(from), from)
    /\ home' = IF from = Addr THEN Resolve(from) ELSE home
    /\ UNCHANGED <<unread, readUntil, waiting, overtaken, items, call, event, opener>>

-----------------------------------------------------------------------------
(* The module that owns the number. *)

\* openConversation, by phone number: its SELECT, then the INSERT when that found nothing.
OpenLookup ==
    /\ opener = "idle"
    /\ opener' = IF Matches({"pn"}) = {} THEN "create" ELSE "idle"
    /\ opener' # opener
    /\ UNCHANGED <<rows, alt, unread, readUntil, waiting, overtaken, items, call, home, event>>

OpenCreate ==
    /\ opener = "create"
    /\ rows' = rows \cup {"pn"}
    /\ opener' = "idle"
    /\ UNCHANGED <<alt, unread, readUntil, waiting, overtaken, items, call, home, event>>

\* An officer has read a chat up to some message of it.
ReadUpTo(r, until) ==
    /\ r \in rows /\ until \in 1..items
    /\ CountNothing(r)
    /\ readUntil' = [readUntil EXCEPT ![r] = IF until > @ THEN until ELSE @]
    /\ UNCHANGED <<rows, alt, items, call, home, event, opener>>

MarkRead(r, until) == r # "group" /\ ReadUpTo(r, until)

MarkGroupRead(until) == ReadUpTo("group", until)

ChatsNext ==
    \/ \E from \in Sender : Lookup("inbound", "none", from) \/ Lookup("sent", "none", from)
    \/ \E c \in Call, from \in Sender : call[c] = NoCall /\ Lookup("call", c, from)
    \/ StoreInbound \/ StoreDeviceSent \/ StoreGroupMessage \/ StoreSentToGroup
    \/ \E o \in Outcome, t \in 1..(items + 1) : StoreCall(o, t)
    \/ \E o \in Outcome, c \in Call : CorrectCall(c, o)
    \/ \E from \in Sender : ImportChat(from)
    \/ RefreshContacts \/ OpenLookup \/ OpenCreate
    \/ \E t \in 1..items : MarkGroupRead(t) \/ \E r \in rows : MarkRead(r, t)

ChatsSpec == ChatsInit /\ [][ChatsNext]_chatsVars

-----------------------------------------------------------------------------
(* Properties. *)

ChatsTypeOK ==
    /\ rows \subseteq Row /\ alt \subseteq rows \ {"group"}
    /\ unread \in [Row -> 0..MaxItems] /\ readUntil \in [Row -> 0..MaxItems]
    /\ {waiting, overtaken} \subseteq [Row -> SUBSET (1..MaxItems)] /\ items \in 0..MaxItems
    /\ call \in [Call -> [rev : 0..MaxRevision, outcome : Outcome \cup {"none"},
                          row : Addr \cup {"none"}, at : 0..MaxItems, item : 0..MaxItems]]
    /\ home \in Addr \cup {"none"} /\ opener \in {"idle", "create"}
    /\ event.pc \in {"idle", "inbound", "sent", "call"}
    /\ event.pc # "idle" => event.from \in Sender /\ event.row \in Addr

\* A person keeps one chat: after an event that carried both addresses, every
\* later event of either address is filed where that one was.  The exception is
\* a chat by number that openConversation had already decided to create.
OneChat ==
    home = "pn" \/ (home = "lid" /\ "pn" \notin rows) =>
        \A from \in Sender : Resolve(from) = home

\* A chat never claims more unread messages and calls than wait for a reply: a
\* missed call that was answered after all stops counting.  The exception is a call
\* that was logged late, after something as late as its beginning had been read: the
\* code takes it for read too, and it counts until the chat is read again.
UnreadCounts == \A r \in Row : unread[r] <= Cardinality(waiting[r] \cup overtaken[r])

\* What the correction of a call promises: only that call stops counting, and
\* only if nobody has read it yet (storeCall).
UnreadKept == \A r \in Row : unread[r] >= Cardinality(waiting[r])
=============================================================================
