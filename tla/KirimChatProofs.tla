-------------------------- MODULE KirimChatProofs --------------------------
(***************************************************************************)
(* Theorems about conversations: a person has one chat (KirimChats), a     *)
(* message is stored as WhatsApp shows it (KirimActions), and the photo of *)
(* a contact is on the disk (KirimPhotos).                                 *)
(***************************************************************************)
EXTENDS KirimChats, KirimActions, KirimPhotos, FiniteSetTheorems, SequenceTheorems, TLAPS

-----------------------------------------------------------------------------
(* The chats of a person. *)

\* The chat of the last event that carried both addresses knows both.
HomeKnows == home = "none" \/ home \in alt

\* What may count as unread in a chat.
Unseen(r) == waiting[r] \cup overtaken[r]

\* It has come, and so has what an officer has read up to.
WaitingIs == \A r \in Row : Unseen(r) \subseteq 1..items /\ readUntil[r] <= items

\* A call that is stored is stored in a chat of the person.
CallIs == \A c \in Call : call[c].rev \in 1..MaxRevision => call[c].row \in Addr

\* An event whose chat was looked up still has room.
EventIs == event.pc # "idle" => /\ items < MaxItems
                                /\ event.pc = "call" => event.call \in Call

\* The inductive invariant.
ChatsInv == ChatsTypeOK /\ HomeKnows /\ WaitingIs /\ CallIs /\ EventIs /\ UnreadCounts

\* What is stored of a call.
CallRow == [rev : 0..MaxRevision, outcome : Outcome \cup {"none"}, row : Addr \cup {"none"}, at : 0..MaxItems,
            item : 0..MaxItems]

\* What the assumption says of the numbers.
LEMMA ChatsConstants == MaxItems \in Nat /\ MaxRevision \in Nat \ {0}
  BY ChatsAssumption

\* What the types say of each variable.
LEMMA ChatsFacts ==
  ASSUME ChatsInv
  PROVE  /\ rows \subseteq Row /\ alt \subseteq rows \ {"group"}
         /\ unread \in [Row -> 0..MaxItems] /\ readUntil \in [Row -> 0..MaxItems]
         /\ {waiting, overtaken} \subseteq [Row -> SUBSET (1..MaxItems)] /\ items \in 0..MaxItems
         /\ call \in [Call -> CallRow]
         /\ home \in Addr \cup {"none"} /\ opener \in {"idle", "create"}
  BY DEF ChatsInv, ChatsTypeOK, CallRow

\* An event is filed under one of the addresses of the person, and only under a row that knows both
\* when such a row is the only one.
LEMMA ResolveIs ==
  ASSUME NEW from \in Sender
  PROVE  Resolve(from) \in Addr
  BY DEF Resolve, Addr

\* Sets of items are finite.
LEMMA ItemsFinite ==
  ASSUME NEW S, S \subseteq 1..MaxItems
  PROVE  IsFiniteSet(S) /\ Cardinality(S) \in Nat
<1>1. IsFiniteSet(1..MaxItems)
  BY ChatsConstants, FS_Interval
<1>2. IsFiniteSet(S)
  BY <1>1, FS_Subset
<1>. QED  BY <1>2, FS_CardinalityType

\* No more wait than came.
LEMMA WaitingBound ==
  ASSUME NEW n \in Nat, NEW S, S \subseteq 1..n
  PROVE  IsFiniteSet(S) /\ Cardinality(S) \in Nat /\ Cardinality(S) <= n
<1>1. IsFiniteSet(1..n) /\ Cardinality(1..n) = n
  BY FS_Interval
<1>. QED  BY <1>1, FS_Subset, FS_CardinalityType

\* One more item waits in row r, and is counted.
LEMMA CountStep ==
  ASSUME ChatsInv, NEW r \in Row, items < MaxItems, CountUnread(r), items' = items + 1, UNCHANGED readUntil
  PROVE  /\ unread' \in [Row -> 0..MaxItems] /\ {waiting', overtaken'} \subseteq [Row -> SUBSET (1..MaxItems)]
         /\ WaitingIs' /\ UnreadCounts'
<1>. USE ChatsConstants
<1>1. /\ unread \in [Row -> 0..MaxItems] /\ {waiting, overtaken} \subseteq [Row -> SUBSET (1..MaxItems)]
      /\ items \in 0..MaxItems /\ readUntil \in [Row -> 0..MaxItems]
      /\ unread' = [unread EXCEPT ![r] = @ + 1]
      /\ waiting' = [waiting EXCEPT ![r] = @ \cup {items + 1}] /\ overtaken' = overtaken
  BY ChatsFacts DEF CountUnread
<1>2. Unseen(r) \subseteq 1..items /\ readUntil[r] <= items
  BY DEF ChatsInv, WaitingIs
<1>3. items + 1 \notin Unseen(r) /\ IsFiniteSet(Unseen(r)) /\ Cardinality(Unseen(r)) \in 0..items
  BY <1>1, <1>2, WaitingBound
<1>4. Unseen(r)' = Unseen(r) \cup {items + 1} /\ \A q \in Row \ {r} : Unseen(q)' = Unseen(q)
  BY <1>1 DEF Unseen
<1>5. Cardinality(Unseen(r)') = Cardinality(Unseen(r)) + 1
  BY <1>3, <1>4, FS_AddElement
<1>6. unread[r] <= Cardinality(Unseen(r))
  BY DEF ChatsInv, UnreadCounts, Unseen
<1>7. unread' \in [Row -> 0..MaxItems] /\ {waiting', overtaken'} \subseteq [Row -> SUBSET (1..MaxItems)]
  BY <1>1, <1>3, <1>6
<1>8. WaitingIs'
  <2>1. ASSUME NEW q \in Row
        PROVE  Unseen(q)' \subseteq 1..(items + 1) /\ readUntil[q] <= items + 1
    <3>1. Unseen(q) \subseteq 1..items /\ readUntil[q] <= items
      BY DEF ChatsInv, WaitingIs
    <3>2. Unseen(q)' \subseteq Unseen(q) \cup {items + 1}
      BY <1>4
    <3>. QED  BY <1>1, <3>1, <3>2
  <2>. QED  BY <1>1, <2>1 DEF WaitingIs
<1>9. UnreadCounts'
  <2>1. ASSUME NEW q \in Row PROVE unread'[q] <= Cardinality(Unseen(q)')
    <3>1. CASE q = r
      BY <1>1, <1>3, <1>5, <1>6, <3>1
    <3>2. CASE q # r
      BY <1>1, <1>4, <3>2 DEF ChatsInv, UnreadCounts, Unseen
    <3>. QED  BY <3>1, <3>2
  <2>. QED  BY <2>1 DEF UnreadCounts, Unseen
<1>. QED  BY <1>7, <1>8, <1>9

\* Row r is read: nothing waits in it and nothing is counted.
LEMMA ClearStep ==
  ASSUME ChatsInv, NEW r \in Row, NEW n \in 0..MaxItems, items' = n, n >= items, CountNothing(r),
         readUntil' \in [Row -> 0..items]
  PROVE  /\ unread' \in [Row -> 0..MaxItems] /\ {waiting', overtaken'} \subseteq [Row -> SUBSET (1..MaxItems)]
         /\ readUntil' \in [Row -> 0..MaxItems]
         /\ WaitingIs' /\ UnreadCounts'
<1>. USE ChatsConstants
<1>1. /\ unread \in [Row -> 0..MaxItems] /\ {waiting, overtaken} \subseteq [Row -> SUBSET (1..MaxItems)]
      /\ items \in 0..MaxItems
      /\ unread' = [unread EXCEPT ![r] = 0]
      /\ waiting' = [waiting EXCEPT ![r] = {}] /\ overtaken' = [overtaken EXCEPT ![r] = {}]
  BY ChatsFacts DEF CountNothing
<1>2. Cardinality({}) = 0
  BY FS_EmptySet
<1>3. /\ unread' \in [Row -> 0..MaxItems] /\ {waiting', overtaken'} \subseteq [Row -> SUBSET (1..MaxItems)]
      /\ readUntil' \in [Row -> 0..MaxItems]
  BY <1>1
<1>4. Unseen(r)' = {} /\ \A q \in Row \ {r} : Unseen(q)' = Unseen(q)
  BY <1>1 DEF Unseen
<1>5. WaitingIs'
  <2>1. ASSUME NEW q \in Row PROVE Unseen(q)' \subseteq 1..n /\ readUntil'[q] <= n
    <3>1. Unseen(q) \subseteq 1..items /\ Unseen(q)' \subseteq Unseen(q) /\ readUntil'[q] \in 0..items
      BY <1>4 DEF ChatsInv, WaitingIs
    <3>. QED  BY <1>1, <3>1
  <2>. QED  BY <2>1 DEF WaitingIs
<1>6. UnreadCounts'
  <2>1. ASSUME NEW q \in Row PROVE unread'[q] <= Cardinality(Unseen(q)')
    <3>1. CASE q = r
      BY <1>1, <1>2, <1>4, <3>1
    <3>2. CASE q # r
      BY <1>1, <1>4, <3>2 DEF ChatsInv, UnreadCounts, Unseen
    <3>. QED  BY <3>1, <3>2
  <2>. QED  BY <2>1 DEF UnreadCounts, Unseen
<1>. QED  BY <1>3, <1>5, <1>6

\* The event is filed under its row, which learns the other address.
LEMMA AttachStep ==
  ASSUME ChatsInv, event.pc \in {"inbound", "sent", "call"}, Attach(event.row, event.from)
  PROVE  /\ event.row \in Addr /\ items \in 0..MaxItems /\ items < MaxItems
         /\ rows' \subseteq Row /\ alt' \subseteq rows' \ {"group"}
         /\ home' \in Addr \cup {"none"} /\ HomeKnows'
         /\ items' = items + 1 /\ items' \in 0..MaxItems /\ event'.pc = "idle"
<1>1. event.row \in Addr /\ event.from \in Sender /\ items < MaxItems
  BY DEF ChatsInv, ChatsTypeOK, EventIs
<1>. QED  BY <1>1, ChatsFacts, ChatsConstants DEF Attach, Learn, ChatsInv, HomeKnows, Row, Addr

\* What an event brings is stored in the chat it was looked up for.
LEMMA StoreSteps ==
  ASSUME ChatsInv, StoreInbound \/ StoreDeviceSent \/ \E o \in Outcome, t \in 1..(items + 1) : StoreCall(o, t)
  PROVE  ChatsInv'
<1>. USE ChatsConstants
<1>1. event.pc \in {"inbound", "sent", "call"} /\ Attach(event.row, event.from) /\ UNCHANGED <<readUntil, opener>>
  BY DEF StoreInbound, StoreDeviceSent, StoreCall
<1>2. /\ event.row \in Addr /\ items \in 0..MaxItems /\ items < MaxItems
      /\ rows' \subseteq Row /\ alt' \subseteq rows' \ {"group"}
      /\ home' \in Addr \cup {"none"} /\ HomeKnows'
      /\ items' = items + 1 /\ items' \in 0..MaxItems /\ event'.pc = "idle"
  BY <1>1, AttachStep
<1>3. /\ unread' \in [Row -> 0..MaxItems] /\ {waiting', overtaken'} \subseteq [Row -> SUBSET (1..MaxItems)]
      /\ WaitingIs' /\ UnreadCounts'
  <2>1. event.row \in Row
    BY <1>2 DEF Row
  <2>2. CASE CountUnread(event.row)
    BY <1>1, <1>2, <2>1, <2>2, CountStep
  <2>3. CASE CountNothing(event.row)
    <3>1. readUntil' \in [Row -> 0..items]
      BY <1>1, ChatsFacts DEF ChatsInv, WaitingIs
    <3>2. items' \in 0..MaxItems /\ items' >= items
      BY <1>2
    <3>. QED  BY <2>1, <2>3, <3>1, <3>2, ClearStep
  <2>4. CASE UNCHANGED <<unread, waiting, overtaken>>
    <3>1. /\ unread \in [Row -> 0..MaxItems] /\ {waiting, overtaken} \subseteq [Row -> SUBSET (1..MaxItems)]
          /\ readUntil \in [Row -> 0..MaxItems]
      BY ChatsFacts
    <3>2. ASSUME NEW q \in Row
          PROVE  Unseen(q)' = Unseen(q) /\ Unseen(q) \subseteq 1..items /\ readUntil[q] \in 0..items
      BY <2>4, <3>1 DEF ChatsInv, WaitingIs, Unseen
    <3>3. WaitingIs'
      <4>1. ASSUME NEW q \in Row PROVE Unseen(q)' \subseteq 1..items' /\ readUntil'[q] <= items'
        BY <1>1, <1>2, <3>2
      <4>. QED  BY <4>1 DEF WaitingIs
    <3>. QED  BY <2>4, <3>1, <3>3 DEF ChatsInv, UnreadCounts
  <2>. QED  BY <2>2, <2>3, <2>4 DEF StoreInbound, StoreDeviceSent, StoreCall
<1>4. call' \in [Call -> CallRow] /\ CallIs'
  <2>1. CASE StoreInbound \/ StoreDeviceSent
    BY <2>1, ChatsFacts DEF StoreInbound, StoreDeviceSent, ChatsInv, CallIs
  <2>2. ASSUME NEW o \in Outcome, NEW t \in 1..(items + 1), StoreCall(o, t)
        PROVE  call' \in [Call -> CallRow] /\ CallIs'
    <3>. DEFINE v == [rev |-> 1, outcome |-> o, row |-> event.row, at |-> t, item |-> items + 1]
    <3>1. call' = [call EXCEPT ![event.call] = v] /\ call \in [Call -> CallRow]
      BY <2>2, ChatsFacts DEF StoreCall
    <3>2. v \in CallRow /\ v.row \in Addr
      BY <1>2 DEF CallRow
    <3>. HIDE DEF v
    <3>. QED  BY <3>1, <3>2 DEF ChatsInv, CallIs
  <2>. QED  BY <2>1, <2>2
<1>5. readUntil' \in [Row -> 0..MaxItems] /\ opener' \in {"idle", "create"}
  BY <1>1, ChatsFacts
<1>. QED  BY <1>2, <1>3, <1>4, <1>5 DEF ChatsInv, ChatsTypeOK, EventIs, CallRow

\* A missed call that was answered after all gives back what it counted, or is overtaken.
LEMMA TakeBackStep ==
  ASSUME ChatsInv, NEW c \in Call, NEW o \in Outcome, call[c].row \in Addr, CorrectCall(c, o)
  PROVE  /\ unread' \in [Row -> 0..MaxItems] /\ {waiting', overtaken'} \subseteq [Row -> SUBSET (1..MaxItems)]
         /\ UnreadCounts'
         /\ \A r \in Row : Unseen(r)' \subseteq Unseen(r)
<1>. USE ChatsConstants
<1>0. /\ unread \in [Row -> 0..MaxItems] /\ {waiting, overtaken} \subseteq [Row -> SUBSET (1..MaxItems)]
      /\ readUntil \in [Row -> 0..MaxItems]
      /\ call[c].row \in Row /\ call[c].at \in 0..MaxItems /\ call[c].item \in 0..MaxItems
  BY ChatsFacts DEF Row, CallRow
<1>1. PICK r \in Row, at \in 0..MaxItems, item \in 0..MaxItems :
           r = call[c].row /\ at = call[c].at /\ item = call[c].item
  BY <1>0
<1>. DEFINE late == item \in waiting[r] /\ readUntil[r] >= at
<1>2. unread[r] <= Cardinality(Unseen(r))
  BY <1>1 DEF ChatsInv, UnreadCounts, Unseen
<1>3. Unseen(r) \subseteq 1..MaxItems
  BY <1>0 DEF Unseen
<1>4. IsFiniteSet(Unseen(r)) /\ Cardinality(Unseen(r)) \in Nat
  BY <1>3, ItemsFinite
<1>5. CASE ~AnsweredAfterAll(c, o)
  <2>1. UNCHANGED <<unread, waiting, overtaken>>
    BY <1>5 DEF CorrectCall, TakeBack
  <2>. QED  BY <1>0, <2>1 DEF ChatsInv, UnreadCounts, Unseen
<1>6. CASE AnsweredAfterAll(c, o)
  <2>1. /\ waiting' = [waiting EXCEPT ![r] = @ \ {item}]
        /\ overtaken' = IF late THEN [overtaken EXCEPT ![r] = @ \cup {item}] ELSE overtaken
        /\ unread' = IF (readUntil[r] = 0 \/ readUntil[r] < at) /\ unread[r] > 0
                     THEN [unread EXCEPT ![r] = @ - 1] ELSE unread
    BY <1>1, <1>6 DEF CorrectCall, TakeBack
  <2>2. \A q \in Row \ {r} : unread'[q] = unread[q] /\ waiting'[q] = waiting[q] /\ overtaken'[q] = overtaken[q]
    BY <1>0, <2>1
  <2>3. /\ waiting'[r] = waiting[r] \ {item}
        /\ overtaken'[r] = IF late THEN overtaken[r] \cup {item} ELSE overtaken[r]
    BY <1>0, <2>1
  <2>4. Unseen(r)' \in {Unseen(r), Unseen(r) \ {item}}
    <3>1. CASE late
      BY <2>3, <3>1 DEF Unseen
    <3>2. CASE ~late /\ item \in overtaken[r]
      BY <2>3, <3>2 DEF Unseen
    <3>3. CASE ~late /\ item \notin overtaken[r]
      BY <2>3, <3>3 DEF Unseen
    <3>. QED  BY <3>1, <3>2, <3>3
  <2>5. unread'[r] <= Cardinality(Unseen(r)')
    <3>1. CASE Unseen(r)' = Unseen(r)
      <4>1. unread'[r] \in {unread[r], unread[r] - 1}
        BY <1>0, <2>1
      <4>. QED  BY <1>0, <1>2, <1>4, <3>1, <4>1
    <3>2. CASE Unseen(r)' # Unseen(r)
      <4>1. Unseen(r)' = Unseen(r) \ {item} /\ item \in Unseen(r)
        BY <2>4, <3>2
      <4>2. Cardinality(Unseen(r)') = Cardinality(Unseen(r)) - 1
        BY <1>4, <4>1, FS_RemoveElement
      <4>3. Cardinality(Unseen(r)) > 0
        BY <1>4, <4>1, FS_EmptySet
      <4>4. ~(readUntil[r] >= at)
        BY <2>3, <3>2, <4>1 DEF Unseen
      <4>5. readUntil[r] < at
        BY <1>0, <4>4
      <4>6. CASE unread[r] > 0
        BY <1>0, <1>2, <1>4, <2>1, <4>2, <4>5, <4>6
      <4>7. CASE ~(unread[r] > 0)
        BY <1>0, <1>4, <2>1, <4>2, <4>3, <4>7
      <4>. QED  BY <4>6, <4>7
    <3>. QED  BY <3>1, <3>2
  <2>6. unread' \in [Row -> 0..MaxItems]
    BY <1>0, <2>1
  <2>7. {waiting', overtaken'} \subseteq [Row -> SUBSET (1..MaxItems)]
    BY <1>0, <2>1
  <2>8. \A q \in Row : Unseen(q)' \subseteq Unseen(q)
    BY <2>2, <2>4 DEF Unseen
  <2>9. UnreadCounts'
    BY <2>2, <2>5 DEF ChatsInv, UnreadCounts, Unseen
  <2>. QED  BY <2>6, <2>7, <2>8, <2>9
<1>. QED  BY <1>5, <1>6

\* A call that was stored is corrected by a later event of it.
LEMMA CorrectionStep ==
  ASSUME ChatsInv, NEW c \in Call, NEW o \in Outcome, CorrectCall(c, o)
  PROVE  ChatsInv'
<1>. USE ChatsConstants
<1>1. /\ call[c].rev \in 1..MaxRevision - 1 /\ call \in [Call -> CallRow]
      /\ call' = [call EXCEPT ![c].rev = call[c].rev + 1, ![c].outcome = o]
      /\ UNCHANGED <<rows, alt, readUntil, items, home, event, opener>>
  BY ChatsFacts DEF CorrectCall
<1>2. call[c].row \in Addr
  BY <1>1 DEF ChatsInv, CallIs
<1>3. /\ unread' \in [Row -> 0..MaxItems] /\ {waiting', overtaken'} \subseteq [Row -> SUBSET (1..MaxItems)]
      /\ UnreadCounts'
      /\ \A r \in Row : Unseen(r)' \subseteq Unseen(r)
  BY <1>2, TakeBackStep
<1>4. call' \in [Call -> CallRow] /\ CallIs'
  <2>. DEFINE v == [call[c] EXCEPT !.rev = call[c].rev + 1]
              w == [v EXCEPT !.outcome = o]
  <2>1. call' = [call EXCEPT ![c] = w]
    BY <1>1
  <2>2. v \in CallRow /\ v.row = call[c].row
    BY <1>1 DEF CallRow
  <2>. HIDE DEF v
  <2>3. w \in CallRow /\ w.row = call[c].row
    BY <2>2 DEF CallRow
  <2>. HIDE DEF w
  <2>. QED  BY <1>1, <1>2, <2>1, <2>3 DEF ChatsInv, CallIs
<1>5. WaitingIs'
  BY <1>1, <1>3 DEF ChatsInv, WaitingIs
<1>. QED  BY <1>1, <1>3, <1>4, <1>5 DEF ChatsInv, ChatsTypeOK, HomeKnows, EventIs, CallRow

\* What comes to the group, or is sent to it, is stored in its row.
LEMMA GroupSteps ==
  ASSUME ChatsInv, StoreGroupMessage \/ StoreSentToGroup
  PROVE  ChatsInv'
<1>. USE ChatsConstants
<1>1. /\ event.pc = "idle" /\ items < MaxItems /\ rows' = rows \cup {"group"} /\ items' = items + 1
      /\ UNCHANGED <<alt, readUntil, call, home, event, opener>>
  BY DEF StoreGroupMessage, StoreSentToGroup, EnsureGroup
<1>2. "group" \in Row /\ items \in 0..MaxItems /\ items' \in 0..MaxItems /\ items' >= items
  BY <1>1, ChatsFacts DEF Row
<1>3. readUntil' \in [Row -> 0..items] /\ readUntil' = readUntil
  BY <1>1, ChatsFacts DEF ChatsInv, WaitingIs
<1>4. /\ unread' \in [Row -> 0..MaxItems] /\ {waiting', overtaken'} \subseteq [Row -> SUBSET (1..MaxItems)]
      /\ WaitingIs' /\ UnreadCounts'
  BY <1>1, <1>2, <1>3, CountStep, ClearStep DEF StoreGroupMessage, StoreSentToGroup
<1>5. readUntil' \in [Row -> 0..MaxItems]
  BY <1>1, ChatsFacts
<1>. QED  BY <1>1, <1>2, <1>4, <1>5, ChatsFacts DEF ChatsInv, ChatsTypeOK, HomeKnows, CallIs, EventIs, Row

\* An officer has read a chat.
LEMMA ReadSteps ==
  ASSUME ChatsInv, NEW r \in rows, NEW until \in 1..items, ReadUpTo(r, until)
  PROVE  ChatsInv'
<1>. USE ChatsConstants
<1>1. /\ CountNothing(r)
      /\ readUntil' = [readUntil EXCEPT ![r] = IF until > @ THEN until ELSE @]
      /\ UNCHANGED <<rows, alt, items, call, home, event, opener>>
  BY DEF ReadUpTo
<1>2. r \in Row /\ items \in 0..MaxItems /\ readUntil \in [Row -> 0..items]
  BY ChatsFacts DEF ChatsInv, WaitingIs
<1>3. readUntil' \in [Row -> 0..items]
  BY <1>1, <1>2
<1>4. items' \in 0..MaxItems /\ items' >= items
  BY <1>1, <1>2
<1>5. /\ unread' \in [Row -> 0..MaxItems] /\ {waiting', overtaken'} \subseteq [Row -> SUBSET (1..MaxItems)]
      /\ readUntil' \in [Row -> 0..MaxItems] /\ WaitingIs' /\ UnreadCounts'
  BY <1>1, <1>2, <1>3, <1>4, ClearStep
<1>. QED  BY <1>1, <1>5 DEF ChatsInv, ChatsTypeOK, HomeKnows, CallIs, EventIs

\* Chats are looked up, opened, named and imported: nothing is counted.
LEMMA QuietSteps ==
  ASSUME ChatsInv,
         \/ \E kind \in {"inbound", "sent"}, from \in Sender : Lookup(kind, "none", from)
         \/ \E c \in Call, from \in Sender : Lookup("call", c, from)
         \/ \E from \in Sender : ImportChat(from)
         \/ RefreshContacts \/ OpenLookup \/ OpenCreate
  PROVE  ChatsInv'
<1>1. UNCHANGED <<unread, readUntil, waiting, overtaken, items, call>>
  BY DEF Lookup, ImportChat, RefreshContacts, OpenLookup, OpenCreate
<1>2. WaitingIs' /\ CallIs' /\ UnreadCounts'
  BY <1>1 DEF ChatsInv, WaitingIs, Unseen, CallIs, UnreadCounts
<1>3. /\ rows' \subseteq Row /\ alt' \subseteq rows' \ {"group"}
      /\ home' \in Addr \cup {"none"} /\ opener' \in {"idle", "create"} /\ HomeKnows'
  <2>1. CASE UNCHANGED <<rows, alt, home>>
    BY <2>1, ChatsFacts DEF Lookup, ImportChat, RefreshContacts, OpenLookup, OpenCreate, ChatsInv, HomeKnows
  <2>2. ASSUME NEW from \in Sender, ImportChat(from)
        PROVE  /\ rows' \subseteq Row /\ alt' \subseteq rows' \ {"group"}
               /\ home' \in Addr \cup {"none"} /\ opener' \in {"idle", "create"} /\ HomeKnows'
    <3>1. Resolve(from) \in Addr
      BY ResolveIs
    <3>. QED  BY <2>2, <3>1, ChatsFacts DEF ImportChat, Learn, ChatsInv, HomeKnows, Row, Addr
  <2>3. CASE RefreshContacts \/ OpenCreate
    BY <2>3, ChatsFacts DEF RefreshContacts, OpenCreate, ChatsInv, HomeKnows, Row, Addr
  <2>. QED  BY <2>1, <2>2, <2>3 DEF Lookup, OpenLookup
<1>4. /\ event'.pc \in {"idle", "inbound", "sent", "call"}
      /\ event'.pc # "idle" => event'.from \in Sender /\ event'.row \in Addr
      /\ EventIs'
  <2>1. ASSUME NEW kind \in {"inbound", "sent", "call"}, NEW c, NEW from \in Sender, Lookup(kind, c, from),
               kind = "call" => c \in Call
        PROVE  /\ event'.pc \in {"idle", "inbound", "sent", "call"}
               /\ event'.pc # "idle" => event'.from \in Sender /\ event'.row \in Addr
               /\ EventIs'
    <3>1. Resolve(from) \in Addr
      BY ResolveIs
    <3>. QED  BY <1>1, <2>1, <3>1 DEF Lookup, EventIs
  <2>2. CASE UNCHANGED event
    BY <1>1, <2>2 DEF ChatsInv, ChatsTypeOK, EventIs
  <2>. QED  BY <2>1, <2>2 DEF ImportChat, RefreshContacts, OpenLookup, OpenCreate
<1>. QED  BY <1>1, <1>2, <1>3, <1>4 DEF ChatsInv, ChatsTypeOK

\* The inductive invariant.
THEOREM ChatsInvariant == ChatsSpec => []ChatsInv
<1>. USE ChatsConstants
<1>1. ChatsInit => ChatsInv
  <2>1. Cardinality({}) = 0
    BY FS_EmptySet
  <2>. QED  BY <2>1 DEF ChatsInit, ChatsInv, ChatsTypeOK, HomeKnows, WaitingIs, Unseen, CallIs, EventIs,
                        UnreadCounts, NoCall, Row, Addr
<1>2. ASSUME ChatsInv, [ChatsNext]_chatsVars PROVE ChatsInv'
  <2>1. CASE UNCHANGED chatsVars
    BY <1>2, <2>1 DEF chatsVars, ChatsInv, ChatsTypeOK, HomeKnows, WaitingIs, Unseen, CallIs, EventIs,
                        UnreadCounts
  <2>2. CASE StoreInbound \/ StoreDeviceSent \/ \E o \in Outcome, t \in 1..(items + 1) : StoreCall(o, t)
    BY <1>2, <2>2, StoreSteps
  <2>3. CASE StoreGroupMessage \/ StoreSentToGroup
    BY <1>2, <2>3, GroupSteps
  <2>4. CASE \E o \in Outcome, c \in Call : CorrectCall(c, o)
    BY <1>2, <2>4, CorrectionStep
  <2>5. CASE \E t \in 1..items : MarkGroupRead(t) \/ \E r \in rows : MarkRead(r, t)
    BY <1>2, <2>5, ReadSteps DEF MarkGroupRead, MarkRead, ReadUpTo
  <2>6. CASE \/ \E kind \in {"inbound", "sent"}, from \in Sender : Lookup(kind, "none", from)
             \/ \E c \in Call, from \in Sender : Lookup("call", c, from)
             \/ \E from \in Sender : ImportChat(from)
             \/ RefreshContacts \/ OpenLookup \/ OpenCreate
    BY <1>2, <2>6, QuietSteps
  <2>. QED  BY <1>2, <2>1, <2>2, <2>3, <2>4, <2>5, <2>6 DEF ChatsNext
<1>. QED  BY <1>1, <1>2, PTL DEF ChatsSpec

\* Every variable of the chats has its type.
THEOREM ChatsTyped == ChatsSpec => []ChatsTypeOK
<1>1. ChatsInv => ChatsTypeOK
  BY DEF ChatsInv
<1>. QED  BY <1>1, ChatsInvariant, PTL

\* A person keeps one chat: every address leads to the chat that learned both.
THEOREM OneChatPerPerson == ChatsSpec => []OneChat
<1>1. ASSUME ChatsInv, home = "pn" \/ (home = "lid" /\ "pn" \notin rows), NEW from \in Sender
      PROVE  Resolve(from) = home
  <2>1. home \in alt /\ home \in rows /\ home # "group"
    BY <1>1, ChatsFacts DEF ChatsInv, HomeKnows
  <2>2. home \in Matches(from) /\ Matches(from) \subseteq rows
    BY <2>1 DEF Matches
  <2>. QED  BY <1>1, <2>2 DEF Resolve
<1>2. ChatsInv => OneChat
  BY <1>1 DEF OneChat
<1>. QED  BY <1>2, ChatsInvariant, PTL

\* A chat never claims more unread items than wait for a reply, but for calls that were logged
\* after something as late as their beginning had been read.
THEOREM UnreadNeverTooMany == ChatsSpec => []UnreadCounts
<1>1. ChatsInv => UnreadCounts
  BY DEF ChatsInv
<1>. QED  BY <1>1, ChatsInvariant, PTL

-----------------------------------------------------------------------------
(* Edits, deletes and reactions on a message. *)

\* Who may have made a change, as it is recorded.
Name == Officer \cup {Phone, Author, GroupAdmin, Nobody}
\* A message with the name of whoever made each of its changes.
Message == [edit : Body, delete : {"here", "gone"}, reaction : Emoji \cup {NoEmoji}, by : [Kinds -> Name]]
\* The request of an officer.
Request == [pc : {"engine", "record", "stopped"}, ch : Change, taken : BOOLEAN]

\* An event of a change.
Echo == [ch : Change, from : Reporter, may : BOOLEAN]

\* The types.
MessageIs ==
    /\ wa \in Message /\ stored \in Message
    /\ place \in {"own", "contact", "ours", "member"}
    /\ echoes \in Seq(Echo)
    /\ changes \in 0..MaxChanges /\ tangled \in BOOLEAN /\ dropped \in BOOLEAN /\ misjudged \in BOOLEAN
    /\ request \in [Officer -> Request \cup {NoRequest}]

\* The engine has taken the request of o, which is not over.
Taken(o) == request[o].pc # "idle" /\ request[o].taken
\* An event on its way that comes of a change WhatsApp made.
RealEcho(i) == i \in DOMAIN echoes /\ echoes[i].may

\* Who may change what at WhatsApp: an edit is its author's, a deletion also an administrator's.
Writer == IF OwnMessage THEN "me" ELSE "sender"
Rightful(e) ==
    CASE e.ch.kind = "edit" -> e.from = Writer
      [] e.ch.kind = "delete" -> \/ e.from = Writer
                                 \/ place = "member" /\ e.from \in Administrator
                                 \/ place = "ours" /\ e.from = "admin"
      [] OTHER -> TRUE

\* What the module stores, by the roles it knows.
Allowed(e) ==
    AuthorOf(e.from) \in (CASE e.ch.kind = "edit" -> {"author"} [] e.ch.kind = "delete" -> {"author", "group_admin"}
                            [] e.ch.kind = "reaction" -> {"author", "group_admin", "other"})

\* Nobody pretends to have reacted, and nobody to be the number or the message's author.
Pretence ==
    \A i \in DOMAIN echoes : ~RealEcho(i) => echoes[i].ch.kind # "reaction" /\ echoes[i].from \in {"other", "admin"}

\* A request that records its change has had it made.
Recording == \A o \in Officer : request[o].pc = "record" => Taken(o)

\* While no two changes are tangled, one is on its way, and its request with it.
OneAtATime ==
    /\ \A i, j \in DOMAIN echoes : RealEcho(i) /\ RealEcho(j) => i = j
    /\ \A o, p \in Officer : Taken(o) /\ Taken(p) => o = p
    /\ \A i \in DOMAIN echoes, o \in Officer : RealEcho(i) /\ Taken(o) => echoes[i].ch = request[o].ch /\ echoes[i].from = "me"

\* The change is the one WhatsApp shows.
InFlight(ch) == wa[ch.kind] = ch.value /\ (ch.kind # "delete" => wa.delete = "here")

\* What is on its way is what WhatsApp shows, from somebody who may.
Latest ==
    /\ \A i \in DOMAIN echoes : RealEcho(i) => InFlight(echoes[i].ch) /\ Rightful(echoes[i])
    /\ \A o \in Officer : Taken(o) => InFlight(request[o].ch) /\ wa.by[request[o].ch.kind] = o

\* What is stored is what WhatsApp shows, or its event is on its way.
Follows == \A k \in Kinds : stored[k] = wa[k] \/ \E i \in DOMAIN echoes : RealEcho(i) /\ echoes[i].ch.kind = k

\* So is the name, or the request that will record it.
NameFollows ==
    \A k \in Kinds :
        /\ stored[k] = wa[k] =>
              \/ stored.by[k] = wa.by[k]
              \/ k = "reaction" /\ wa[k] = NoEmoji
              \/ /\ k = "reaction" \/ stored.by[k] = Phone
                 /\ \E o \in Officer : Taken(o) /\ request[o].ch.kind = k
        /\ stored[k] # wa[k] =>
              \/ \E o \in Officer : Taken(o) /\ request[o].ch.kind = k
              \/ \A i \in DOMAIN echoes : RealEcho(i) => ByOf(echoes[i].from) = wa.by[k]

\* An officer edits or deletes his number's messages alone.
Permitted ==
    \A o \in Officer : request[o].pc # "idle" /\ request[o].ch.kind # "reaction" => OwnMessage

\* A request that stopped after its change was made has dropped the name.
Stopped == \A o \in Officer : request[o].pc = "stopped" /\ Taken(o) => dropped

\* The inductive invariant.
ActionsInv ==
    /\ MessageIs /\ Pretence /\ Permitted /\ Recording /\ Stopped
    /\ ~tangled /\ ~misjudged => OneAtATime /\ Latest /\ Follows /\ (~dropped => NameFollows)

\* What the assumption says of the constants.
LEMMA ActionsConstants == MaxChanges \in Nat /\ FirstBody \in Body /\ NoEmoji \notin Body
  BY ActionsAssumption DEF FirstBody

\* What the types say of each variable.
LEMMA ActionsFacts ==
  ASSUME ActionsInv
  PROVE  /\ wa \in Message /\ stored \in Message
         /\ place \in {"own", "contact", "ours", "member"}
         /\ echoes \in Seq(Echo)
         /\ changes \in 0..MaxChanges /\ tangled \in BOOLEAN /\ dropped \in BOOLEAN /\ misjudged \in BOOLEAN
         /\ request \in [Officer -> Request \cup {NoRequest}]
  BY DEF ActionsInv, MessageIs

\* The kinds of change and their values.
LEMMA ChangeIs ==
  ASSUME NEW ch \in Change
  PROVE  /\ ch.kind \in Kinds
         /\ ch.kind = "edit" => ch.value \in Body
         /\ ch.kind = "delete" => ch.value = "gone"
         /\ ch.kind = "reaction" => ch.value \in Emoji \cup {NoEmoji}
  BY DEF Change, Kinds

\* A change replaces the value of its kind and the name of who made it, and nothing else.
LEMMA ChangedIs ==
  ASSUME NEW x \in Message, NEW ch \in Change, NEW who \in Name
  PROVE  /\ Changed(x, ch, who) \in Message
         /\ \A k \in Kinds : /\ Changed(x, ch, who)[k] = IF k = ch.kind THEN ch.value ELSE x[k]
                             /\ Changed(x, ch, who).by[k] = IF k = ch.kind THEN who ELSE x.by[k]
<1>0. x.by \in [Kinds -> Name]
  BY DEF Message
<1>1. CASE ch.kind = "edit"
  <2>. DEFINE u == [x EXCEPT !["edit"] = ch.value]
              b == [x.by EXCEPT !["edit"] = who]
              y == [x EXCEPT !["edit"] = ch.value, !.by["edit"] = who]
  <2>1. ch.value \in Body
    BY <1>1, ChangeIs
  <2>2. /\ u \in Message /\ u.edit = ch.value /\ u.by = x.by
        /\ u.delete = x.delete /\ u.reaction = x.reaction
    BY <2>1 DEF Message
  <2>3. b \in [Kinds -> Name] /\ \A k \in Kinds : b[k] = IF k = "edit" THEN who ELSE x.by[k]
    BY <1>0
  <2>4. y = [u EXCEPT !.by = b] /\ Changed(x, ch, who) = y
    BY <1>1, <2>2 DEF Message, Changed
  <2>. HIDE DEF u, b, y
  <2>5. /\ y \in Message /\ y.by = b
        /\ y.edit = u.edit /\ y.delete = u.delete /\ y.reaction = u.reaction
    BY <2>2, <2>3, <2>4 DEF Message
  <2>. QED  BY <1>1, <2>2, <2>3, <2>4, <2>5 DEF Kinds
<1>2. CASE ch.kind = "delete"
  <2>. DEFINE u == [x EXCEPT !["delete"] = ch.value]
              b == [x.by EXCEPT !["delete"] = who]
              y == [x EXCEPT !["delete"] = ch.value, !.by["delete"] = who]
  <2>1. ch.value \in {"here", "gone"}
    BY <1>2, ChangeIs
  <2>2. /\ u \in Message /\ u.delete = ch.value /\ u.by = x.by
        /\ u.edit = x.edit /\ u.reaction = x.reaction
    BY <2>1 DEF Message
  <2>3. b \in [Kinds -> Name] /\ \A k \in Kinds : b[k] = IF k = "delete" THEN who ELSE x.by[k]
    BY <1>0
  <2>4. y = [u EXCEPT !.by = b] /\ Changed(x, ch, who) = y
    BY <1>2, <2>2 DEF Message, Changed
  <2>. HIDE DEF u, b, y
  <2>5. /\ y \in Message /\ y.by = b
        /\ y.edit = u.edit /\ y.delete = u.delete /\ y.reaction = u.reaction
    BY <2>2, <2>3, <2>4 DEF Message
  <2>. QED  BY <1>2, <2>2, <2>3, <2>4, <2>5 DEF Kinds
<1>3. CASE ch.kind = "reaction"
  <2>. DEFINE u == [x EXCEPT !["reaction"] = ch.value]
              b == [x.by EXCEPT !["reaction"] = who]
              y == [x EXCEPT !["reaction"] = ch.value, !.by["reaction"] = who]
  <2>1. ch.value \in Emoji \cup {NoEmoji}
    BY <1>3, ChangeIs
  <2>2. /\ u \in Message /\ u.reaction = ch.value /\ u.by = x.by
        /\ u.edit = x.edit /\ u.delete = x.delete
    BY <2>1 DEF Message
  <2>3. b \in [Kinds -> Name] /\ \A k \in Kinds : b[k] = IF k = "reaction" THEN who ELSE x.by[k]
    BY <1>0
  <2>4. y = [u EXCEPT !.by = b] /\ Changed(x, ch, who) = y
    BY <1>3, <2>2 DEF Message, Changed
  <2>. HIDE DEF u, b, y
  <2>5. /\ y \in Message /\ y.by = b
        /\ y.edit = u.edit /\ y.delete = u.delete /\ y.reaction = u.reaction
    BY <2>2, <2>3, <2>4 DEF Message
  <2>. QED  BY <1>3, <2>2, <2>3, <2>4, <2>5 DEF Kinds
<1>. QED  BY <1>1, <1>2, <1>3, ChangeIs DEF Kinds

\* What a request is before and after the engine took it.
LEMMA RequestIs ==
  ASSUME ActionsInv, NEW o \in Officer
  PROVE  /\ request[o].pc \in {"idle", "engine", "record", "stopped"}
         /\ request[o].pc = "idle" => request[o] = NoRequest
         /\ request[o].pc # "idle" => request[o] \in Request /\ request[o].ch \in Change
<1>1. request[o] \in Request \cup {NoRequest}
  BY ActionsFacts
<1>. QED  BY <1>1 DEF Request, NoRequest

\* A request goes to another state without the engine.
LEMMA RequestGoes ==
  ASSUME ActionsInv, NEW o \in Officer, request[o].pc # "idle", NEW pc \in {"engine", "record", "stopped"},
         request' = [request EXCEPT ![o].pc = pc]
  PROVE  /\ request' \in [Officer -> Request \cup {NoRequest}]
         /\ \A p \in Officer : (Taken(p)' <=> Taken(p)) /\ (Taken(p) => request'[p].ch = request[p].ch)
         /\ request'[o].ch = request[o].ch
         /\ request'[o].pc = pc /\ \A p \in Officer \ {o} : request'[p] = request[p]
<1>. DEFINE v == [request[o] EXCEPT !.pc = pc]
<1>1. request[o] \in Request /\ request \in [Officer -> Request \cup {NoRequest}]
  BY RequestIs, ActionsFacts
<1>2. request' = [request EXCEPT ![o] = v]
  BY <1>1
<1>3. v \in Request /\ v.pc = pc /\ v.ch = request[o].ch /\ v.taken = request[o].taken
  BY <1>1 DEF Request
<1>. HIDE DEF v
<1>4. request' \in [Officer -> Request \cup {NoRequest}] /\ request'[o] = v
      /\ \A p \in Officer \ {o} : request'[p] = request[p]
  BY <1>1, <1>2, <1>3
<1>5. Taken(o)' <=> Taken(o)
  BY <1>3, <1>4 DEF Taken
<1>6. \A p \in Officer \ {o} : Taken(p)' <=> Taken(p)
  BY <1>4 DEF Taken
<1>. QED  BY <1>3, <1>4, <1>5, <1>6

\* A request is over.
LEMMA RequestEnds ==
  ASSUME ActionsInv, NEW o \in Officer, request' = [request EXCEPT ![o] = NoRequest]
  PROVE  /\ request' \in [Officer -> Request \cup {NoRequest}]
         /\ ~Taken(o)' /\ request'[o].pc = "idle"
         /\ \A p \in Officer \ {o} : request'[p] = request[p] /\ (Taken(p)' <=> Taken(p))
<1>1. request \in [Officer -> Request \cup {NoRequest}]
  BY ActionsFacts
<1>2. request'[o] = NoRequest /\ NoRequest.pc = "idle"
  BY <1>1 DEF NoRequest
<1>. QED  BY <1>1, <1>2 DEF Taken

\* Requests move while the message stays as it is: what was taken is dropped or still under way.
LEMMA OnlyRequests ==
  ASSUME ActionsInv, UNCHANGED <<place, wa, echoes, stored, changes, tangled, misjudged>>,
         request' \in [Officer -> Request \cup {NoRequest}],
         dropped' \in BOOLEAN, dropped => dropped', Permitted',
         \A p \in Officer : /\ Taken(p)' => Taken(p) /\ request'[p].ch = request[p].ch
                            /\ Taken(p) => Taken(p)' \/ dropped'
                            /\ request'[p].pc = "record" => Taken(p)'
                            /\ request'[p].pc = "stopped" /\ Taken(p)' => dropped'
  PROVE  ActionsInv'
<1>1. MessageIs' /\ Pretence' /\ Permitted' /\ Recording' /\ Stopped'
  BY DEF ActionsInv, MessageIs, Pretence,  RealEcho, Recording, Stopped
<1>2. ASSUME ~tangled, ~misjudged PROVE OneAtATime' /\ Latest' /\ Follows'
  <2>1. OneAtATime /\ Latest /\ Follows
    BY <1>2 DEF ActionsInv
  <2>2. OneAtATime'
    BY <2>1 DEF OneAtATime, RealEcho
  <2>3. Latest'
    <3>1. \A i \in DOMAIN echoes' : InFlight(echoes[i].ch)' <=> InFlight(echoes[i].ch)
      BY DEF InFlight
    <3>2. \A i \in DOMAIN echoes' : Rightful(echoes[i])' <=> Rightful(echoes[i])
      BY DEF Rightful, Writer, OwnMessage
    <3>3. \A i : RealEcho(i)' <=> RealEcho(i)
      BY DEF RealEcho
    <3>4. \A p \in Officer : Taken(p)' => /\ Taken(p) /\ request'[p].ch = request[p].ch
                                          /\ InFlight(request[p].ch)' <=> InFlight(request[p].ch)
      BY DEF InFlight
    <3>. QED  BY <2>1, <3>1, <3>2, <3>3, <3>4 DEF Latest
  <2>4. Follows'
    BY <2>1 DEF Follows, RealEcho
  <2>. QED  BY <2>2, <2>3, <2>4
<1>3. ASSUME ~tangled, ~misjudged, ~dropped' PROVE NameFollows'
  <2>1. NameFollows /\ \A p \in Officer : (Taken(p)' <=> Taken(p)) /\ (Taken(p) => request'[p].ch = request[p].ch)
    BY <1>3 DEF ActionsInv
  <2>. QED  BY <2>1 DEF NameFollows, RealEcho, ByOf
<1>. QED  BY <1>1, <1>2, <1>3 DEF ActionsInv

\* A request begins, is refused, stops or is sent again.
LEMMA RequestSteps ==
  ASSUME ActionsInv, NEW o \in Officer,
         \/ \E ch \in Change : Ask(o, ch)
         \/ EngineRefuses(o) \/ StopRequest(o) \/ SendAgain(o)
  PROVE  ActionsInv'
<1>1. ASSUME NEW ch \in Change, Ask(o, ch) PROVE ActionsInv'
  <2>. DEFINE v == [pc |-> "engine", ch |-> ch, taken |-> FALSE]
  <2>1. request' = [request EXCEPT ![o] = v] /\ request[o].pc = "idle"
    BY <1>1 DEF Ask
  <2>2. v \in Request /\ v.pc = "engine" /\ ~v.taken
    BY DEF Request
  <2>. HIDE DEF v
  <2>3. /\ request' \in [Officer -> Request \cup {NoRequest}] /\ request'[o] = v
        /\ \A p \in Officer \ {o} : request'[p] = request[p]
    BY <2>1, <2>2, ActionsFacts
  <2>4. ~Taken(o) /\ ~Taken(o)'
    BY <2>1, <2>2, <2>3 DEF Taken
  <2>5. \A p \in Officer \ {o} : Taken(p)' <=> Taken(p)
    BY <2>3 DEF Taken
  <2>6. UNCHANGED <<place, wa, echoes, stored, changes, tangled, dropped, misjudged>>
    BY <1>1 DEF Ask
  <2>7. \A p \in Officer : /\ Taken(p)' => Taken(p) /\ request'[p].ch = request[p].ch
                           /\ Taken(p) => Taken(p)' \/ dropped'
                           /\ request'[p].pc = "record" => Taken(p)'
                           /\ request'[p].pc = "stopped" /\ Taken(p)' => dropped'
    BY <2>2, <2>3, <2>4, <2>5, <2>6 DEF ActionsInv, Recording, Stopped
  <2>8. Permitted'
    BY <1>1, <2>2, <2>3, <2>6 DEF ActionsInv, Permitted, Ask, Accepts, OwnMessage
  <2>. QED  BY <2>3, <2>6, <2>7, <2>8, OnlyRequests, ActionsFacts
<1>2. ASSUME request' = [request EXCEPT ![o] = NoRequest], Taken(o) => dropped,
             UNCHANGED <<place, wa, echoes, stored, changes, tangled, dropped, misjudged>>
      PROVE  ActionsInv'
  <2>1. /\ request' \in [Officer -> Request \cup {NoRequest}]
        /\ ~Taken(o)' /\ request'[o].pc = "idle"
        /\ \A p \in Officer \ {o} : request'[p] = request[p] /\ (Taken(p)' <=> Taken(p))
    BY <1>2, RequestEnds
  <2>2. \A p \in Officer : /\ Taken(p)' => Taken(p) /\ request'[p].ch = request[p].ch
                           /\ Taken(p) => Taken(p)' \/ dropped'
                           /\ request'[p].pc = "record" => Taken(p)'
                           /\ request'[p].pc = "stopped" /\ Taken(p)' => dropped'
    BY <1>2, <2>1 DEF ActionsInv, Recording, Stopped
  <2>3. Permitted'
    BY <1>2, <2>1 DEF ActionsInv, Permitted, OwnMessage
  <2>. QED  BY <1>2, <2>1, <2>2, <2>3, OnlyRequests, ActionsFacts
<1>3. CASE EngineRefuses(o)
  BY <1>2, <1>3 DEF EngineRefuses, Taken
<1>4. ASSUME NEW pc \in {"engine", "stopped"}, request[o].pc # "idle", request' = [request EXCEPT ![o].pc = pc],
             UNCHANGED <<place, wa, echoes, stored, changes, tangled, misjudged>>,
             dropped' \in BOOLEAN, dropped => dropped', pc = "stopped" /\ Taken(o) => dropped'
      PROVE  ActionsInv'
  <2>1. /\ request' \in [Officer -> Request \cup {NoRequest}]
        /\ \A p \in Officer : (Taken(p)' <=> Taken(p)) /\ (Taken(p) => request'[p].ch = request[p].ch)
        /\ request'[o].ch = request[o].ch
        /\ request'[o].pc = pc /\ \A p \in Officer \ {o} : request'[p] = request[p]
    BY <1>4, RequestGoes
  <2>2. \A p \in Officer : /\ Taken(p)' => Taken(p) /\ request'[p].ch = request[p].ch
                           /\ Taken(p) => Taken(p)' \/ dropped'
                           /\ request'[p].pc = "record" => Taken(p)'
                           /\ request'[p].pc = "stopped" /\ Taken(p)' => dropped'
    BY <1>4, <2>1 DEF ActionsInv, Recording, Stopped
  <2>3. Permitted'
    BY <1>4, <2>1 DEF ActionsInv, Permitted, OwnMessage
  <2>. QED  BY <1>4, <2>1, <2>2, <2>3, OnlyRequests
<1>5. CASE StopRequest(o)
  <2>1. /\ request[o].pc # "idle" /\ request' = [request EXCEPT ![o].pc = "stopped"]
        /\ UNCHANGED <<place, wa, echoes, stored, changes, tangled, misjudged>>
        /\ dropped' = (dropped \/ request[o].taken)
    BY <1>5 DEF StopRequest
  <2>2. dropped' \in BOOLEAN /\ (dropped => dropped') /\ (Taken(o) => dropped')
    BY <2>1 DEF Taken
  <2>. QED  BY <1>4, <2>1, <2>2
<1>6. CASE SendAgain(o)
  <2>1. /\ request[o].pc = "stopped"
        /\ \/ request' = [request EXCEPT ![o].pc = "engine"]
           \/ request' = [request EXCEPT ![o] = NoRequest]
        /\ UNCHANGED <<place, wa, echoes, stored, changes, tangled, dropped, misjudged>>
    BY <1>6 DEF SendAgain
  <2>2. (Taken(o) => dropped) /\ dropped \in BOOLEAN
    BY <2>1, ActionsFacts DEF ActionsInv, Stopped
  <2>3. CASE request' = [request EXCEPT ![o].pc = "engine"]
    BY <1>4, <2>1, <2>2, <2>3
  <2>4. CASE request' = [request EXCEPT ![o] = NoRequest]
    BY <1>2, <2>1, <2>2, <2>4
  <2>. QED  BY <2>1, <2>3, <2>4
<1>. QED  BY <1>1, <1>3, <1>5, <1>6

\* What is stored is what WhatsApp shows while no change is under way.
LEMMA Settled ==
  ASSUME ActionsInv, ~tangled, ~misjudged, \A i \in DOMAIN echoes : ~RealEcho(i), \A o \in Officer : ~Taken(o), NEW k \in Kinds
  PROVE  /\ stored[k] = wa[k]
         /\ ~dropped => stored.by[k] = wa.by[k] \/ (k = "reaction" /\ wa[k] = NoEmoji)
  BY DEF ActionsInv, Follows, NameFollows

\* The fields of a message are of its kinds.
LEMMA FieldIs == ASSUME NEW x PROVE x.delete = x["delete"] /\ "delete" \in Kinds
  BY DEF Kinds

\* A change happens at WhatsApp while no other is under way, or what comes after is tangled.
LEMMA HappensStep ==
  ASSUME ActionsInv, NEW ch \in Change, NEW who \in Name, NEW from \in {"me", "sender", "admin"},
         Happens(ch, who, from), UNCHANGED <<place, stored, dropped, misjudged>>,
         tangled' \in BOOLEAN, request' \in [Officer -> Request \cup {NoRequest}], Permitted', Recording', Stopped',
         ~tangled' => /\ ~tangled /\ echoes = <<>> /\ ch.value # wa[ch.kind]
                      /\ Rightful([ch |-> ch, from |-> from, may |-> TRUE])
                      /\ \A p \in Officer : ~Taken(p)
                      /\ \/ (\A p \in Officer : ~Taken(p)') /\ ByOf(from) = who
                         \/ /\ who \in Officer /\ Taken(who)' /\ request'[who].ch = ch /\ from = "me"
                            /\ \A p \in Officer \ {who} : ~Taken(p)'
  PROVE  ActionsInv'
<1>. DEFINE e == [ch |-> ch, from |-> from, may |-> TRUE]
<1>. USE ActionsConstants
<1>1. /\ wa \in Message /\ stored \in Message /\ echoes \in Seq(Echo)
      /\ changes \in 0..MaxChanges /\ changes < MaxChanges /\ changes' = changes + 1
      /\ wa.delete = "here" /\ wa' = Changed(wa, ch, who) /\ echoes' = Append(echoes, e)
  BY ActionsFacts DEF Happens
<1>2. e \in Echo /\ e.ch = ch /\ e.from = from /\ e.may /\ ch.kind \in Kinds
  BY ChangeIs DEF Reporter, Echo
<1>. HIDE DEF e
<1>3. /\ wa' \in Message
      /\ \A k \in Kinds : /\ wa'[k] = IF k = ch.kind THEN ch.value ELSE wa[k]
                          /\ wa'.by[k] = IF k = ch.kind THEN who ELSE wa.by[k]
  BY <1>1, ChangedIs
<1>4. /\ echoes' \in Seq(Echo)
      /\ DOMAIN echoes' = 1..Len(echoes) + 1
      /\ echoes'[Len(echoes) + 1] = e
      /\ \A i \in 1..Len(echoes) : echoes'[i] = echoes[i]
      /\ DOMAIN echoes = 1..Len(echoes) /\ Len(echoes) \in Nat
  BY <1>1, <1>2
<1>5. MessageIs'
  BY <1>1, <1>3, <1>4, ActionsFacts DEF MessageIs
<1>6. Pretence'
  <2>1. ASSUME NEW i \in DOMAIN echoes', ~RealEcho(i)'
        PROVE  echoes'[i].ch.kind # "reaction" /\ echoes'[i].from \in {"other", "admin"}
    <3>1. i \in 1..Len(echoes)
      BY <1>2, <1>4, <2>1 DEF RealEcho
    <3>2. ~RealEcho(i)
      BY <1>4, <2>1, <3>1 DEF RealEcho
    <3>. QED  BY <1>4, <3>1, <3>2 DEF ActionsInv, Pretence
  <2>. QED  BY <2>1 DEF Pretence
<1>0. stored' = stored /\ place' = place /\ dropped' = dropped /\ misjudged' = misjudged
  OBVIOUS
<1>7. ASSUME ~tangled', ~misjudged
      PROVE  OneAtATime' /\ Latest' /\ Follows' /\ (~dropped' => NameFollows')
  <2>1. /\ ~tangled /\ ch.value # wa[ch.kind] /\ Rightful([ch |-> ch, from |-> from, may |-> TRUE])
        /\ \A p \in Officer : ~Taken(p)
        /\ \/ (\A p \in Officer : ~Taken(p)') /\ ByOf(from) = who
           \/ /\ who \in Officer /\ Taken(who)' /\ request'[who].ch = ch /\ from = "me"
              /\ \A p \in Officer \ {who} : ~Taken(p)'
    BY <1>7
  <2>2. DOMAIN echoes = {} /\ DOMAIN echoes' = {1} /\ echoes'[1] = e
    BY <1>4, <1>7
  <2>3. \A k \in Kinds : /\ stored[k] = wa[k]
                         /\ ~dropped => stored.by[k] = wa.by[k] \/ (k = "reaction" /\ wa[k] = NoEmoji)
    BY <1>7, <2>1, <2>2, Settled
  <2>4. RealEcho(1)'
    BY <1>2, <2>2 DEF RealEcho
  <2>5. OneAtATime'
    BY <1>2, <2>1, <2>2 DEF OneAtATime
  <2>6. InFlight(ch)'
    <3>1. wa'[ch.kind] = ch.value /\ wa'["delete"] = IF ch.kind = "delete" THEN ch.value ELSE wa["delete"]
      BY <1>2, <1>3, FieldIs
    <3>. QED  BY <1>1, <3>1, FieldIs DEF InFlight
  <2>7. Rightful(e)'
    BY <1>2, <2>1 DEF Rightful, Writer, OwnMessage, e
  <2>8. Latest'
    <3>1. \A i \in DOMAIN echoes' : InFlight(echoes[i].ch)' /\ Rightful(echoes[i])'
      BY <1>2, <2>2, <2>6, <2>7 DEF InFlight, Rightful, Writer, OwnMessage
    <3>2. ASSUME NEW o \in Officer, Taken(o)' PROVE InFlight(request[o].ch)' /\ wa'.by[request'[o].ch.kind] = o
      <4>1. o = who /\ request'[o].ch = ch
        BY <2>1, <3>2
      <4>. QED  BY <1>2, <1>3, <2>6, <4>1 DEF InFlight
    <3>. QED  BY <3>1, <3>2 DEF Latest
  <2>9. Follows'
    <3>1. ASSUME NEW k \in Kinds, k # ch.kind PROVE stored'[k] = wa'[k]
      BY <1>0, <1>3, <2>3, <3>1
    <3>2. \E i \in DOMAIN echoes' : RealEcho(i)' /\ echoes'[i].ch.kind = ch.kind
      BY <1>2, <2>2, <2>4
    <3>. QED  BY <3>1, <3>2 DEF Follows
  <2>10. ASSUME ~dropped' PROVE NameFollows'
    <3>1. ASSUME NEW k \in Kinds, k = ch.kind
          PROVE  /\ stored'[k] # wa'[k]
                 /\ \/ \E o \in Officer : Taken(o)' /\ request'[o].ch.kind = k
                    \/ \A i \in DOMAIN echoes' : RealEcho(i)' => ByOf(echoes'[i].from) = wa'.by[k]
      <4>1. stored'[k] # wa'[k] /\ wa'.by[k] = who
        BY <1>0, <1>3, <2>1, <2>3, <3>1
      <4>2. CASE (\A p \in Officer : ~Taken(p)') /\ ByOf(from) = who
        BY <1>2, <2>2, <4>1, <4>2
      <4>3. CASE who \in Officer /\ Taken(who)' /\ request'[who].ch = ch
        BY <3>1, <4>1, <4>3
      <4>. QED  BY <2>1, <4>1, <4>2, <4>3
    <3>2. ASSUME NEW k \in Kinds, k # ch.kind
          PROVE  /\ stored'[k] = wa'[k]
                 /\ stored'.by[k] = wa'.by[k] \/ (k = "reaction" /\ wa'[k] = NoEmoji)
      BY <1>0, <1>3, <2>3, <2>10, <3>2
    <3>. QED  BY <3>1, <3>2 DEF NameFollows, ByOf
  <2>. QED  BY <2>5, <2>8, <2>9, <2>10
<1>. QED  BY <1>0, <1>5, <1>6, <1>7 DEF ActionsInv

\* A change made on a phone.
LEMMA PhoneSteps ==
  ASSUME ActionsInv, NEW ch \in Change, OnPhone(ch) \/ OnOtherPhone(ch)
  PROVE  ActionsInv'
<1>1. ASSUME NEW who \in {Phone, Author, GroupAdmin}, NEW from \in {"me", "sender", "admin"},
             OnAPhone(ch, who, from), Rightful([ch |-> ch, from |-> from, may |-> TRUE]), ByOf(from) = who
      PROVE  ActionsInv'
  <2>1. /\ ch.value # wa[ch.kind] /\ Happens(ch, who, from)
        /\ tangled' = (tangled \/ ~Quiet)
        /\ UNCHANGED <<place, stored, request, dropped, misjudged>>
    BY <1>1 DEF OnAPhone
  <2>2. tangled' \in BOOLEAN /\ (~tangled' => ~tangled /\ Quiet)
    BY <2>1
  <2>3. Quiet => echoes = <<>> /\ \A p \in Officer : ~Taken(p)
    BY DEF Quiet, Taken
  <2>4. Permitted' /\ Recording' /\ Stopped' /\ \A p \in Officer : Taken(p)' <=> Taken(p)
    BY <2>1 DEF ActionsInv, Permitted, OwnMessage, Recording, Stopped, Taken
  <2>5. request' \in [Officer -> Request \cup {NoRequest}] /\ who \in Name
    BY <2>1, ActionsFacts DEF Name
  <2>. QED  BY <1>1, <2>1, <2>2, <2>3, <2>4, <2>5, HappensStep
<1>2. CASE OnPhone(ch)
  <2>1. Rightful([ch |-> ch, from |-> "me", may |-> TRUE])
    BY <1>2, ChangeIs DEF OnPhone, Rightful, Writer, Administrator, OwnMessage, Kinds
  <2>2. OnAPhone(ch, Phone, "me") /\ ByOf("me") = Phone
    BY <1>2 DEF OnPhone, ByOf
  <2>. QED  BY <1>1, <2>1, <2>2
<1>3. CASE ~OwnMessage /\ ch.kind # "reaction" /\ OnAPhone(ch, Author, "sender")
  <2>1. Rightful([ch |-> ch, from |-> "sender", may |-> TRUE])
    BY <1>3, ChangeIs DEF Rightful, Writer, Kinds
  <2>2. ByOf("sender") = Author
    BY DEF ByOf
  <2>. QED  BY <1>1, <1>3, <2>1, <2>2
<1>4. CASE InAGroup /\ ch.kind = "delete" /\ OnAPhone(ch, GroupAdmin, "admin")
  <2>1. Rightful([ch |-> ch, from |-> "admin", may |-> TRUE])
    BY <1>4 DEF Rightful, InAGroup, Administrator
  <2>2. ByOf("admin") = GroupAdmin
    BY DEF ByOf
  <2>. QED  BY <1>1, <1>4, <2>1, <2>2
<1>. QED  BY <1>2, <1>3, <1>4 DEF OnOtherPhone

\* A report of a change that is nobody's to make.
LEMMA PretendedStep ==
  ASSUME ActionsInv, NEW ch \in Change, NEW from \in {"other", "admin"}, Pretended(ch, from)
  PROVE  ActionsInv'
<1>. DEFINE e == [ch |-> ch, from |-> from, may |-> FALSE]
<1>. USE ActionsConstants
<1>1. /\ ch.kind # "reaction" /\ changes < MaxChanges /\ changes' = changes + 1
      /\ echoes' = Append(echoes, e)
      /\ UNCHANGED <<place, wa, stored, request, tangled, dropped, misjudged>>
  BY DEF Pretended
<1>2. e \in Echo /\ e.ch = ch /\ e.from \in {"other", "admin"} /\ ~e.may
  BY DEF Reporter, Echo
<1>. HIDE DEF e
<1>3. echoes \in Seq(Echo)
  BY ActionsFacts
<1>4. /\ echoes' \in Seq(Echo)
      /\ DOMAIN echoes' = 1..Len(echoes) + 1
      /\ echoes'[Len(echoes) + 1] = e
      /\ \A i \in 1..Len(echoes) : echoes'[i] = echoes[i]
      /\ DOMAIN echoes = 1..Len(echoes) /\ Len(echoes) \in Nat
  BY <1>1, <1>2, <1>3
<1>5. \A i \in DOMAIN echoes' :
          \/ i \in DOMAIN echoes /\ echoes'[i] = echoes[i] /\ (RealEcho(i)' <=> RealEcho(i))
          \/ ~RealEcho(i)' /\ ~RealEcho(i) /\ echoes'[i] = e
  BY <1>2, <1>4 DEF RealEcho
<1>6. \A i \in DOMAIN echoes : i \in DOMAIN echoes' /\ echoes'[i] = echoes[i] /\ (RealEcho(i)' <=> RealEcho(i))
  BY <1>4 DEF RealEcho
<1>7. \A o \in Officer : Taken(o)' <=> Taken(o)
  BY <1>1 DEF Taken
<1>8. MessageIs'
  BY <1>1, <1>4, ActionsFacts DEF MessageIs
<1>9. Pretence' /\ Permitted' /\ Recording' /\ Stopped'
  BY <1>1, <1>2, <1>5, <1>7 DEF ActionsInv, Pretence, Permitted, OwnMessage, Recording, Stopped
<1>10. ASSUME ~tangled, ~misjudged PROVE OneAtATime' /\ Latest' /\ Follows' /\ (~dropped => NameFollows')
  <2>1. OneAtATime /\ Latest /\ Follows /\ (~dropped => NameFollows)
    BY <1>10 DEF ActionsInv
  <2>2. OneAtATime'
    BY <1>1, <1>5, <1>7, <2>1 DEF OneAtATime
  <2>3. Latest'
    <3>1. ASSUME NEW i \in DOMAIN echoes', RealEcho(i)' PROVE InFlight(echoes[i].ch)' /\ Rightful(echoes[i])'
      <4>1. echoes'[i] = echoes[i] /\ InFlight(echoes[i].ch) /\ Rightful(echoes[i])
        BY <1>5, <2>1, <3>1 DEF Latest
      <4>. QED  BY <1>1, <4>1 DEF InFlight, Rightful, Writer, OwnMessage
    <3>2. ASSUME NEW o \in Officer, Taken(o)' PROVE InFlight(request[o].ch)' /\ wa'.by[request'[o].ch.kind] = o
      BY <1>1, <1>7, <2>1, <3>2 DEF Latest, InFlight
    <3>. QED  BY <3>1, <3>2 DEF Latest
  <2>4. Follows'
    BY <1>1, <1>6, <2>1 DEF Follows
  <2>5. ~dropped => NameFollows'
    BY <1>1, <1>5, <1>7, <2>1 DEF NameFollows, ByOf
  <2>. QED  BY <2>2, <2>3, <2>4, <2>5
<1>. QED  BY <1>1, <1>8, <1>9, <1>10 DEF ActionsInv

\* The engine takes a request, or knows it.
LEMMA TakeStep ==
  ASSUME ActionsInv, NEW o \in Officer, EngineTakes(o)
  PROVE  ActionsInv'
<1>. DEFINE v == [request[o] EXCEPT !.pc = "record"]
            w == [v EXCEPT !.taken = TRUE]
<1>1. /\ request[o].pc = "engine" /\ UNCHANGED <<place, stored, dropped, misjudged>>
      /\ request' = [request EXCEPT ![o] = w]
  BY DEF EngineTakes
<1>2. request[o] \in Request /\ request \in [Officer -> Request \cup {NoRequest}] /\ request[o].ch \in Change
  BY <1>1, RequestIs, ActionsFacts
<1>3. v \in Request /\ v.pc = "record" /\ v.ch = request[o].ch
  BY <1>2 DEF Request
<1>. HIDE DEF v
<1>4. w \in Request /\ w.pc = "record" /\ w.ch = request[o].ch /\ w.taken
  BY <1>3 DEF Request
<1>. HIDE DEF w
<1>5. /\ request' \in [Officer -> Request \cup {NoRequest}]
      /\ request'[o] = w /\ \A p \in Officer \ {o} : request'[p] = request[p]
  BY <1>1, <1>2, <1>4
<1>6. Taken(o)' /\ \A p \in Officer \ {o} : Taken(p)' <=> Taken(p)
  BY <1>4, <1>5 DEF Taken
<1>7. Permitted' /\ Recording' /\ Stopped'
  <2>1. Permitted'
    BY <1>1, <1>4, <1>5 DEF ActionsInv, Permitted, OwnMessage
  <2>2. Recording'
    BY <1>5, <1>6 DEF ActionsInv, Recording
  <2>3. Stopped'
    BY <1>1, <1>4, <1>5, <1>6 DEF ActionsInv, Stopped
  <2>. QED  BY <2>1, <2>2, <2>3
<1>8. CASE request[o].taken
  <2>1. Taken(o) /\ UNCHANGED <<wa, echoes, changes, tangled>>
    BY <1>1, <1>8 DEF EngineTakes, Taken
  <2>2. \A p \in Officer : /\ Taken(p)' => Taken(p) /\ request'[p].ch = request[p].ch
                           /\ Taken(p) => Taken(p)' \/ dropped'
                           /\ request'[p].pc = "record" => Taken(p)'
                           /\ request'[p].pc = "stopped" /\ Taken(p)' => dropped'
    BY <1>4, <1>5, <1>6, <1>7, <2>1 DEF Recording, Stopped
  <2>3. dropped' \in BOOLEAN /\ (dropped => dropped')
    BY <1>1, ActionsFacts
  <2>. QED  BY <1>1, <1>5, <1>7, <2>1, <2>2, <2>3, OnlyRequests
<1>9. CASE ~request[o].taken
  <2>. DEFINE ch == request[o].ch
              tangles == \/ tangled \/ echoes # <<>> \/ ch.value = wa[ch.kind]
                         \/ \E p \in Officer \ {o} : request[p].pc # "idle" /\ request[p].taken
  <2>1. Happens(ch, o, "me") /\ tangled' = tangles
    BY <1>9 DEF EngineTakes
  <2>2. tangled' \in BOOLEAN
    BY <2>1
  <2>3. ASSUME ~tangled'
        PROVE  /\ ~tangled /\ echoes = <<>> /\ ch.value # wa[ch.kind]
               /\ \A p \in Officer : ~Taken(p)
               /\ \A p \in Officer \ {o} : ~Taken(p)'
    <3>1. ~tangled /\ echoes = <<>> /\ ch.value # wa[ch.kind]
      BY <2>1, <2>3
    <3>2. \A p \in Officer \ {o} : ~Taken(p)
      BY <2>1, <2>3 DEF Taken
    <3>3. ~Taken(o)
      BY <1>9 DEF Taken
    <3>. QED  BY <1>6, <3>1, <3>2, <3>3
  <2>4. Rightful([ch |-> ch, from |-> "me", may |-> TRUE])
    <3>1. ch.kind \in Kinds /\ (ch.kind # "reaction" => OwnMessage)
      BY <1>1, <1>2, ChangeIs DEF ActionsInv, Permitted
    <3>. HIDE DEF ch
    <3>. QED  BY <3>1 DEF Rightful, Writer, Kinds
  <2>5. o \in Name /\ ch \in Change /\ request'[o].ch = ch
    BY <1>2, <1>4, <1>5 DEF Name
  <2>. HIDE DEF ch, tangles
  <2>. QED  BY <1>1, <1>5, <1>6, <1>7, <2>1, <2>2, <2>3, <2>4, <2>5, HappensStep
<1>. QED  BY <1>8, <1>9

\* Storing a change that changes nothing finds what it would have stored.
LEMMA NothingChanges ==
  ASSUME ActionsInv, NEW ch \in Change, InFlight(ch), ~Changes(ch), stored.delete = wa.delete \/ ch.kind = "delete"
  PROVE  stored[ch.kind] = ch.value
<1>1. CASE ch.kind = "edit"
  <2>1. stored.delete = "here" /\ ~EditChanges(ch)
    BY <1>1 DEF InFlight, Changes
  <2>2. stored.edit = ch.value
    BY <2>1 DEF EditChanges
  <2>. QED  BY <1>1, <2>2
<1>2. CASE ch.kind = "delete"
  <2>1. stored.delete # "here" /\ stored.delete \in {"here", "gone"}
    BY <1>2, ActionsFacts DEF Changes, DeleteChanges, Message
  <2>. QED  BY <1>2, <2>1, ChangeIs
<1>3. CASE ch.kind = "reaction"
  <2>1. stored.reaction = ch.value
    BY <1>3 DEF Changes, ReactionChanges
  <2>. QED  BY <1>3, <2>1
<1>. QED  BY <1>1, <1>2, <1>3, ChangeIs DEF Kinds

\* Storing a change that changes something changes the value.
LEMMA SomethingChanges ==
  ASSUME ActionsInv, NEW ch \in Change, Changes(ch)
  PROVE  stored[ch.kind] # ch.value
<1>1. CASE ch.kind = "edit"
  BY <1>1 DEF Changes, EditChanges
<1>2. CASE ch.kind = "delete"
  <2>1. stored.delete = "here" /\ ch.value = "gone"
    BY <1>2, ChangeIs DEF Changes, DeleteChanges
  <2>. QED  BY <1>2, <2>1
<1>3. CASE ch.kind = "reaction"
  BY <1>3 DEF Changes, ReactionChanges
<1>. QED  BY <1>1, <1>2, <1>3, ChangeIs DEF Kinds

\* Only a name is put right.
LEMMA NamedIs ==
  ASSUME NEW x \in Message, NEW kind \in Kinds, NEW who \in Name
  PROVE  LET y == [x EXCEPT !.by[kind] = who]
         IN /\ y \in Message
            /\ \A k \in Kinds : y[k] = x[k] /\ y.by[k] = IF k = kind THEN who ELSE x.by[k]
<1>. DEFINE b == [x.by EXCEPT ![kind] = who]
            y == [x EXCEPT !.by = b]
<1>1. b \in [Kinds -> Name] /\ \A k \in Kinds : b[k] = IF k = kind THEN who ELSE x.by[k]
  BY DEF Message
<1>. HIDE DEF b
<1>2. y \in Message /\ y.by = b /\ y.edit = x.edit /\ y.delete = x.delete /\ y.reaction = x.reaction
  BY <1>1 DEF Message
<1>3. [x EXCEPT !.by[kind] = who] = y
  BY DEF b
<1>. HIDE DEF y
<1>. QED  BY <1>1, <1>2, <1>3 DEF Kinds

\* The officer's transaction: the change is stored, or found, under the officer's name.
LEMMA RecordStep ==
  ASSUME ActionsInv, NEW o \in Officer, request[o].pc = "record", RecordChange(o)
  PROVE  ActionsInv'
<1>. DEFINE ch == request[o].ch
<1>1. /\ UNCHANGED <<place, wa, echoes, changes, tangled, dropped, misjudged>>
      /\ request' = [request EXCEPT ![o] = NoRequest]
      /\ ch \in Change /\ ch.kind \in Kinds /\ o \in Name /\ Taken(o)
  BY RequestIs, ChangeIs DEF RecordChange, Name, ActionsInv, Recording
<1>2. \/ Changes(ch) /\ stored' = Changed(stored, ch, o)
      \/ ~Changes(ch) /\ IsTheEcho(ch) /\ stored' = [stored EXCEPT !.by[ch.kind] = o]
      \/ ~Changes(ch) /\ (~IsTheEcho(ch) \/ MayBeOlder(ch)) /\ stored' = stored
  BY DEF RecordChange, StoreRequest
<1>. HIDE DEF ch
<1>3. /\ request' \in [Officer -> Request \cup {NoRequest}]
      /\ ~Taken(o)' /\ request'[o].pc = "idle"
      /\ \A p \in Officer \ {o} : request'[p] = request[p] /\ (Taken(p)' <=> Taken(p))
  BY <1>1, RequestEnds
<1>4. /\ stored' \in Message
      /\ \A k \in Kinds \ {ch.kind} : stored'[k] = stored[k] /\ stored'.by[k] = stored.by[k]
      /\ Changes(ch) => stored'[ch.kind] = ch.value /\ stored'.by[ch.kind] = o
      /\ ~Changes(ch) => stored'[ch.kind] = stored[ch.kind]
      /\ ~Changes(ch) => \/ IsTheEcho(ch) /\ stored'.by[ch.kind] = o
                         \/ (~IsTheEcho(ch) \/ MayBeOlder(ch)) /\ stored'.by[ch.kind] = stored.by[ch.kind]
  <2>1. stored \in Message
    BY ActionsFacts
  <2>2. CASE Changes(ch)
    BY <1>1, <1>2, <2>1, <2>2, ChangedIs
  <2>3. CASE ~Changes(ch) /\ IsTheEcho(ch) /\ stored' = [stored EXCEPT !.by[ch.kind] = o]
    BY <1>1, <2>1, <2>3, NamedIs
  <2>4. CASE ~Changes(ch) /\ (~IsTheEcho(ch) \/ MayBeOlder(ch)) /\ stored' = stored
    BY <2>1, <2>4
  <2>. QED  BY <1>2, <2>2, <2>3, <2>4
<1>5. MessageIs' /\ Pretence' /\ Permitted' /\ Recording' /\ Stopped'
  BY <1>1, <1>3, <1>4, ActionsFacts DEF ActionsInv, MessageIs, Pretence, Permitted, OwnMessage, RealEcho, Recording, Stopped
<1>6. ASSUME ~tangled, ~misjudged PROVE OneAtATime' /\ Latest' /\ Follows' /\ (~dropped => NameFollows')
  <2>1. OneAtATime /\ Latest /\ Follows /\ (~dropped => NameFollows)
    BY <1>6 DEF ActionsInv
  <2>2. \A p \in Officer : ~Taken(p)'
    BY <1>1, <1>3, <2>1 DEF OneAtATime
  <2>3. OneAtATime'
    BY <1>1, <2>1, <2>2 DEF OneAtATime, RealEcho
  <2>4. Latest'
    BY <1>1, <2>1, <2>2 DEF Latest, RealEcho, InFlight, Rightful, Writer, OwnMessage
  <2>5. InFlight(ch) /\ wa.by[ch.kind] = o
    BY <1>1, <2>1 DEF Latest, ch
  <2>6. \A k \in Kinds \ {ch.kind} : stored[k] = wa[k]
    BY <1>1, <2>1 DEF Follows, OneAtATime, ch
  <2>7. stored.delete = wa.delete \/ ch.kind = "delete"
    BY <2>6, FieldIs
  <2>8. ~Changes(ch) => stored[ch.kind] = ch.value
    BY <1>1, <2>5, <2>7, NothingChanges
  <2>9. \A k \in Kinds : stored'[k] = wa'[k]
    BY <1>1, <1>4, <2>5, <2>6, <2>8 DEF InFlight
  <2>10. Follows'
    BY <2>9 DEF Follows
  <2>11. ASSUME ~dropped, NEW k \in Kinds
         PROVE  stored'.by[k] = wa'.by[k] \/ (k = "reaction" /\ wa'[k] = NoEmoji)
    <3>1. CASE k # ch.kind
      <4>1. ~\E p \in Officer : Taken(p) /\ request[p].ch.kind = k
        BY <1>1, <2>1, <3>1 DEF OneAtATime, ch
      <4>. QED  BY <1>1, <1>4, <2>1, <2>6, <2>11, <3>1, <4>1 DEF NameFollows
    <3>2. CASE k = ch.kind /\ Changes(ch)
      BY <1>1, <1>4, <2>5, <3>2
    <3>3. CASE k = ch.kind /\ ~Changes(ch) /\ ch.value = NoEmoji
      <4>1. k = "reaction" /\ wa[k] = NoEmoji
        BY <1>1, <2>5, <3>3, ChangeIs, ActionsConstants DEF InFlight, Kinds, NoEmoji
      <4>. QED  BY <1>1, <4>1
    <3>4. CASE k = ch.kind /\ ~Changes(ch) /\ ch.value # NoEmoji
      <4>1. stored[k] = ch.value /\ wa[k] = ch.value
        BY <2>5, <2>8, <3>4 DEF InFlight
      <4>0. ~MayBeOlder(ch)
        BY <3>4, <4>1 DEF MayBeOlder
      <4>2. CASE IsTheEcho(ch)
        BY <1>1, <1>4, <2>5, <3>4, <4>0, <4>2
      <4>3. CASE ~IsTheEcho(ch)
        <5>1. k # "reaction" /\ stored.by[k] # Phone
          BY <3>4, <4>1, <4>3 DEF IsTheEcho
        <5>2. stored.by[k] = wa.by[k]
          BY <2>1, <2>11, <4>1, <5>1 DEF NameFollows
        <5>. QED  BY <1>1, <1>4, <3>4, <4>3, <5>2
      <4>. QED  BY <4>2, <4>3
    <3>. QED  BY <3>1, <3>2, <3>3, <3>4
  <2>12. ~dropped => NameFollows'
    BY <2>9, <2>11 DEF NameFollows
  <2>. QED  BY <2>3, <2>4, <2>10, <2>12
<1>. QED  BY <1>1, <1>5, <1>6 DEF ActionsInv

\* What the module stores is what WhatsApp took, when the roles it knows are those of the change.
LEMMA Judged ==
  ASSUME ActionsInv, NEW e \in Echo, ~Misjudges(e)
  PROVE  /\ e.may /\ Rightful(e) => Allowed(e)
         /\ ~e.may /\ e.ch.kind # "reaction" /\ e.from \in {"other", "admin"} => ~Allowed(e)
<1>1. e.ch.kind \in Kinds /\ e.from \in Reporter
  BY ChangeIs DEF Echo
<1>2. CASE e.ch.kind = "edit"
  BY <1>1, <1>2 DEF Rightful, Writer, Allowed, AuthorOf, Administrator, OwnMessage
<1>3. CASE e.ch.kind = "delete"
  <2>1. place \in {"own", "contact", "ours", "member"} /\ e.may \in BOOLEAN
    BY ActionsFacts DEF Echo
  <2>. QED  BY <1>1, <1>3, <2>1 DEF Rightful, Writer, Allowed, AuthorOf, Misjudges, Administrator, OwnMessage
<1>4. CASE e.ch.kind = "reaction"
  BY <1>1, <1>4 DEF Rightful, Allowed, AuthorOf
<1>. QED  BY <1>1, <1>2, <1>3, <1>4 DEF Kinds

\* An echo is ingested: it is stored as the phone's, or finds what the officer stored.
LEMMA IngestStep ==
  ASSUME ActionsInv, ApplyEngineEdit \/ ApplyEngineDelete \/ ApplyEngineReaction
  PROVE  ActionsInv'
<1>. DEFINE e == Head(echoes)
<1>1. /\ echoes # <<>> /\ echoes' = Tail(echoes)
      /\ UNCHANGED <<place, wa, request, changes, tangled, dropped>>
      /\ misjudged' = (misjudged \/ Misjudges(e))
      /\ stored' = IF Allowed(e) /\ Changes(e.ch) THEN Changed(stored, e.ch, ByOf(e.from)) ELSE stored
  BY DEF ApplyEngineEdit, ApplyEngineDelete, ApplyEngineReaction, IngestEcho, Allowed
<1>2. echoes \in Seq(Echo) /\ stored \in Message
  BY ActionsFacts
<1>3. /\ echoes' \in Seq(Echo)
      /\ Len(echoes) \in Nat \ {0} /\ DOMAIN echoes = 1..Len(echoes)
      /\ DOMAIN echoes' = 1..Len(echoes) - 1
      /\ \A i \in DOMAIN echoes' : echoes'[i] = echoes[i + 1]
      /\ e = echoes[1] /\ e \in Echo
  <2>1. echoes \in Seq(Echo)
    BY <1>2
  <2>2. /\ Head(echoes) \in Echo /\ Tail(echoes) \in Seq(Echo)
        /\ Len(Tail(echoes)) = Len(echoes) - 1
        /\ \A i \in 1..Len(Tail(echoes)) : Tail(echoes)[i] = echoes[i + 1]
    BY <1>1, <2>1, HeadTailProperties
  <2>3. Len(echoes) \in Nat \ {0} /\ DOMAIN echoes = 1..Len(echoes) /\ Head(echoes) = echoes[1]
    BY <1>1, <2>1
  <2>4. DOMAIN Tail(echoes) = 1..Len(echoes) - 1
    BY <2>2
  <2>. QED  BY <1>1, <2>2, <2>3, <2>4
<1>. HIDE DEF e
<1>4. e.ch \in Change /\ e.ch.kind \in Kinds /\ ByOf(e.from) \in Name
  BY <1>3, ChangeIs DEF ByOf, Name, Echo
<1>5. /\ stored' \in Message
      /\ \A k \in Kinds \ {e.ch.kind} : stored'[k] = stored[k] /\ stored'.by[k] = stored.by[k]
  BY <1>1, <1>2, <1>4, ChangedIs
<1>6. /\ \A i \in DOMAIN echoes' : (RealEcho(i)' <=> RealEcho(i + 1)) /\ i + 1 \in DOMAIN echoes
      /\ \A i \in DOMAIN echoes : i = 1 \/ (i - 1 \in DOMAIN echoes' /\ echoes'[i - 1] = echoes[i]
                                          /\ (RealEcho(i - 1)' <=> RealEcho(i)))
  BY <1>3 DEF RealEcho
<1>7. \A p \in Officer : Taken(p)' <=> Taken(p)
  BY <1>1 DEF Taken
<1>8. MessageIs' /\ Pretence' /\ Permitted' /\ Recording' /\ Stopped'
  <2>1. MessageIs'
    BY <1>1, <1>3, <1>5, ActionsFacts DEF MessageIs
  <2>2. Pretence'
    BY <1>3, <1>6 DEF ActionsInv, Pretence
  <2>. QED  BY <1>1, <1>7, <2>1, <2>2 DEF ActionsInv, Permitted, OwnMessage, Recording, Stopped
<1>9. ASSUME ~tangled, ~misjudged, ~Misjudges(e) PROVE OneAtATime' /\ Latest' /\ Follows' /\ (~dropped => NameFollows')
  <2>1. OneAtATime /\ Latest /\ Follows /\ (~dropped => NameFollows)
    BY <1>9 DEF ActionsInv
  <2>2. OneAtATime'
    <3>1. \A i, j \in DOMAIN echoes' : RealEcho(i)' /\ RealEcho(j)' => i = j
      <4>1. ASSUME NEW i \in DOMAIN echoes', NEW j \in DOMAIN echoes', RealEcho(i)', RealEcho(j)'
            PROVE  i = j
        <5>1. i + 1 = j + 1
          BY <1>6, <2>1, <4>1 DEF OneAtATime
        <5>. QED  BY <1>3, <5>1
      <4>. QED  BY <4>1
    <3>2. \A i \in DOMAIN echoes', p \in Officer :
             RealEcho(i)' /\ Taken(p)' => echoes'[i].ch = request'[p].ch /\ echoes'[i].from = "me"
      BY <1>1, <1>3, <1>6, <1>7, <2>1 DEF OneAtATime
    <3>. QED  BY <1>7, <2>1, <3>1, <3>2 DEF OneAtATime
  <2>3. Latest'
    <3>1. ASSUME NEW i \in DOMAIN echoes', RealEcho(i)' PROVE InFlight(echoes[i].ch)' /\ Rightful(echoes[i])'
      <4>1. echoes'[i] = echoes[i + 1] /\ InFlight(echoes[i + 1].ch) /\ Rightful(echoes[i + 1])
        BY <1>3, <1>6, <2>1, <3>1 DEF Latest
      <4>. QED  BY <1>1, <4>1 DEF InFlight, Rightful, Writer, OwnMessage
    <3>2. ASSUME NEW p \in Officer, Taken(p)' PROVE InFlight(request[p].ch)' /\ wa'.by[request'[p].ch.kind] = p
      BY <1>1, <1>7, <2>1, <3>2 DEF Latest, InFlight
    <3>. QED  BY <3>1, <3>2 DEF Latest
  <2>4. CASE ~RealEcho(1)
    <3>1. e.from \in {"other", "admin"} /\ e.ch.kind # "reaction" /\ ~e.may
      BY <1>3, <2>4 DEF RealEcho, ActionsInv, Pretence
    <3>2. ~Allowed(e)
      BY <1>3, <1>9, <3>1, Judged
    <3>3. stored' = stored
      BY <1>1, <3>2
    <3>4. Follows'
      <4>1. ASSUME NEW k \in Kinds, stored'[k] # wa'[k]
            PROVE  \E i \in DOMAIN echoes' : RealEcho(i)' /\ echoes'[i].ch.kind = k
        <5>1. PICK i \in DOMAIN echoes : RealEcho(i) /\ echoes[i].ch.kind = k
          BY <1>1, <2>1, <3>3, <4>1 DEF Follows
        <5>. QED  BY <1>6, <2>4, <5>1
      <4>. QED  BY <4>1 DEF Follows
    <3>5. ASSUME ~dropped PROVE NameFollows'
      <4>1. NameFollows
        BY <2>1, <3>5
      <4>2. \A k \in Kinds : (\A i \in DOMAIN echoes : RealEcho(i) => ByOf(echoes[i].from) = wa.by[k])
                           => \A i \in DOMAIN echoes' : RealEcho(i)' => ByOf(echoes'[i].from) = wa'.by[k]
        BY <1>1, <1>3, <1>6
      <4>. QED  BY <1>1, <1>7, <3>3, <4>1, <4>2 DEF NameFollows, ByOf
    <3>. QED  BY <2>2, <2>3, <3>4, <3>5
  <2>5. CASE RealEcho(1)
    <3>1. InFlight(e.ch) /\ Allowed(e)
      BY <1>3, <1>9, <2>1, <2>5, Judged DEF Latest, RealEcho
    <3>2. \A k \in Kinds \ {e.ch.kind} : stored[k] = wa[k]
      BY <1>3, <2>1, <2>5 DEF Follows, OneAtATime
    <3>3. stored.delete = wa.delete \/ e.ch.kind = "delete"
      BY <3>2, FieldIs
    <3>4. /\ Changes(e.ch) => stored'[e.ch.kind] = e.ch.value /\ stored'.by[e.ch.kind] = ByOf(e.from)
                              /\ stored[e.ch.kind] # wa[e.ch.kind]
          /\ ~Changes(e.ch) => stored' = stored /\ stored[e.ch.kind] = e.ch.value
      <4>1. CASE Changes(e.ch)
        <5>1. stored' = Changed(stored, e.ch, ByOf(e.from))
          BY <1>1, <3>1, <4>1
        <5>2. stored[e.ch.kind] # e.ch.value
          BY <1>4, <4>1, SomethingChanges
        <5>. QED  BY <1>2, <1>4, <3>1, <4>1, <5>1, <5>2, ChangedIs DEF InFlight
      <4>2. CASE ~Changes(e.ch)
        <5>1. stored[e.ch.kind] = e.ch.value
          BY <1>4, <3>1, <3>3, <4>2, NothingChanges
        <5>. QED  BY <1>1, <4>2, <5>1
      <4>. QED  BY <4>1, <4>2
    <3>5. \A k \in Kinds : stored'[k] = wa'[k]
      BY <1>1, <1>5, <3>1, <3>2, <3>4 DEF InFlight
    <3>6. Follows'
      BY <3>5 DEF Follows
    <3>7. ASSUME ~dropped, NEW k \in Kinds
          PROVE  \/ stored'.by[k] = wa'.by[k]
                 \/ k = "reaction" /\ wa'[k] = NoEmoji
                 \/ /\ k = "reaction" \/ stored'.by[k] = Phone
                    /\ \E p \in Officer : Taken(p)' /\ request'[p].ch.kind = k
      <4>1. CASE k # e.ch.kind \/ ~Changes(e.ch)
        <5>1. stored[k] = wa[k] /\ stored'.by[k] = stored.by[k]
          BY <1>5, <3>1, <3>2, <3>4, <4>1 DEF InFlight
        <5>2. \/ stored.by[k] = wa.by[k]
              \/ k = "reaction" /\ wa[k] = NoEmoji
              \/ /\ k = "reaction" \/ stored.by[k] = Phone
                 /\ \E p \in Officer : Taken(p) /\ request[p].ch.kind = k
          BY <2>1, <3>7, <5>1 DEF NameFollows
        <5>. QED  BY <1>1, <1>7, <5>1, <5>2
      <4>2. CASE k = e.ch.kind /\ Changes(e.ch)
        <5>1. stored[k] # wa[k] /\ stored'.by[k] = ByOf(e.from)
          BY <3>4, <4>2
        <5>2. CASE \E p \in Officer : Taken(p) /\ request[p].ch.kind = k
          <6>1. e.from = "me"
            BY <1>3, <2>1, <2>5, <5>2 DEF OneAtATime
          <6>2. stored'.by[k] = Phone
            BY <5>1, <6>1 DEF ByOf
          <6>. QED  BY <1>1, <1>7, <5>2, <6>2
        <5>3. CASE \A i \in DOMAIN echoes : RealEcho(i) => ByOf(echoes[i].from) = wa.by[k]
          BY <1>1, <1>3, <2>5, <5>1, <5>3
        <5>. QED  BY <2>1, <3>7, <5>1, <5>2, <5>3 DEF NameFollows
      <4>. QED  BY <4>1, <4>2
    <3>8. ~dropped => NameFollows'
      BY <3>5, <3>7 DEF NameFollows
    <3>. QED  BY <2>2, <2>3, <3>6, <3>8
  <2>. QED  BY <2>4, <2>5
<1>. QED  BY <1>1, <1>8, <1>9 DEF ActionsInv

\* The inductive invariant.
THEOREM ActionsInvariant == ActionsSpec => []ActionsInv
<1>1. ActionsInit => ActionsInv
  <2>. SUFFICES ASSUME ActionsInit PROVE ActionsInv
    OBVIOUS
  <2>1. Fresh \in Message
    <3>. DEFINE none == [k \in Kinds |-> Nobody]
    <3>1. none \in [Kinds -> Name]
      BY DEF Name
    <3>. HIDE DEF none
    <3>2. [edit |-> FirstBody, delete |-> "here", reaction |-> NoEmoji, by |-> none] \in Message
      BY <3>1, ActionsConstants DEF Message
    <3>. QED  BY <3>2 DEF Fresh, none
  <2>2. /\ place \in {"own", "contact", "ours", "member"} /\ wa = Fresh /\ stored = Fresh /\ echoes = <<>>
        /\ request = [o \in Officer |-> NoRequest] /\ changes = 0
        /\ tangled = FALSE /\ dropped = FALSE /\ misjudged = FALSE
    BY DEF ActionsInit
  <2>3. \A o \in Officer : request[o] = NoRequest /\ NoRequest.pc = "idle" /\ ~Taken(o)
    BY <2>2 DEF NoRequest, Taken
  <2>4. MessageIs
    <3>1. wa \in Message /\ stored \in Message
      BY <2>1, <2>2
    <3>2. <<>> \in Seq(Echo)
      OBVIOUS
    <3>3. request \in [Officer -> Request \cup {NoRequest}]
      BY <2>2
    <3>4. tangled \in BOOLEAN /\ dropped \in BOOLEAN /\ misjudged \in BOOLEAN
      BY <2>2
    <3>5. changes \in 0..MaxChanges
      BY <2>2, ActionsConstants
    <3>. QED  BY <2>2, <3>1, <3>2, <3>3, <3>4, <3>5 DEF MessageIs
  <2>5. Pretence /\ Permitted /\ Recording /\ Stopped
    BY <2>2, <2>3 DEF Pretence, Permitted, Recording, Stopped
  <2>6. OneAtATime /\ Latest /\ Follows /\ NameFollows
    BY <2>2, <2>3 DEF OneAtATime, Latest, Follows, NameFollows
  <2>. QED  BY <2>4, <2>5, <2>6 DEF ActionsInv
<1>2. ASSUME ActionsInv, [ActionsNext]_actionsVars PROVE ActionsInv'
  <2>1. ASSUME NEW ch \in Change, OnPhone(ch) \/ OnOtherPhone(ch) PROVE ActionsInv'
    BY <1>2, <2>1, PhoneSteps
  <2>2. ASSUME NEW ch \in Change, NEW from \in {"other", "admin"}, Pretended(ch, from) PROVE ActionsInv'
    BY <1>2, <2>2, PretendedStep
  <2>3. ASSUME NEW ch \in Change, NEW o \in Officer, EditMessage(o, ch) \/ RemoveMessage(o, ch) \/ ReactTo(o, ch)
        PROVE  ActionsInv'
    <3>1. Ask(o, ch)
      BY <2>3 DEF EditMessage, RemoveMessage, ReactTo
    <3>. QED  BY <1>2, <3>1, RequestSteps
  <2>4. ASSUME NEW o \in Officer, EngineTakes(o) PROVE ActionsInv'
    BY <1>2, <2>4, TakeStep
  <2>5. ASSUME NEW o \in Officer, EngineRefuses(o) \/ StopRequest(o) \/ SendAgain(o) PROVE ActionsInv'
    BY <1>2, <2>5, RequestSteps
  <2>6. ASSUME NEW o \in Officer, RecordEdit(o) \/ RecordRemoval(o) \/ RecordReaction(o) PROVE ActionsInv'
    <3>1. request[o].pc = "record" /\ RecordChange(o)
      BY <2>6 DEF RecordEdit, RecordRemoval, RecordReaction
    <3>. QED  BY <1>2, <3>1, RecordStep
  <2>7. CASE ApplyEngineEdit \/ ApplyEngineDelete \/ ApplyEngineReaction
    BY <1>2, <2>7, IngestStep
  <2>8. CASE UNCHANGED actionsVars \/ RefreshRoles \/ \E x \in Administrator : RoleChanges(x)
    <3>1. UNCHANGED <<place, wa, echoes, stored, request, changes, tangled, dropped, misjudged>>
      BY <2>8 DEF actionsVars, RefreshRoles, RoleChanges
    <3>2. MessageIs'
      BY <1>2, <3>1 DEF ActionsInv, MessageIs
    <3>3. Pretence' /\ Permitted' /\ Recording' /\ Stopped'
      BY <1>2, <3>1 DEF ActionsInv, Pretence, Permitted, OwnMessage, Recording, Stopped, Taken, RealEcho
    <3>4. OneAtATime => OneAtATime'
      BY <3>1 DEF OneAtATime, Taken, RealEcho
    <3>5. Latest => Latest'
      <4>2. \A i \in DOMAIN echoes' : InFlight(echoes[i].ch)' <=> InFlight(echoes[i].ch)
        BY <3>1 DEF InFlight
      <4>3. \A i \in DOMAIN echoes' : Rightful(echoes[i])' <=> Rightful(echoes[i])
        BY <3>1 DEF Rightful, Writer, OwnMessage
      <4>4. \A i : RealEcho(i)' <=> RealEcho(i)
        BY <3>1 DEF RealEcho
      <4>5. \A o \in Officer : (Taken(o)' <=> Taken(o)) /\ (InFlight(request[o].ch)' <=> InFlight(request[o].ch))
        BY <3>1 DEF Taken, InFlight
      <4>. QED  BY <3>1, <4>2, <4>3, <4>4, <4>5 DEF Latest
    <3>6. (Follows => Follows') /\ (NameFollows => NameFollows')
      BY <3>1 DEF Follows, NameFollows, Taken, RealEcho
    <3>7. (tangled' <=> tangled) /\ (dropped' <=> dropped) /\ (misjudged' <=> misjudged)
      BY <3>1
    <3>8. ~tangled /\ ~misjudged => OneAtATime' /\ Latest' /\ Follows' /\ (~dropped => NameFollows')
      BY <1>2, <3>4, <3>5, <3>6 DEF ActionsInv
    <3>. QED  BY <3>2, <3>3, <3>7, <3>8, Zenon DEF ActionsInv
  <2>. QED  BY <1>2, <2>1, <2>2, <2>3, <2>4, <2>5, <2>6, <2>7, <2>8 DEF ActionsNext
<1>. QED  BY <1>1, <1>2, PTL DEF ActionsSpec

\* What is stored is what WhatsApp shows, under the name of whoever made each change.
THEOREM StoredIsShownAndNamed == ActionsSpec => []ShownAndNamed
<1>1. ASSUME ActionsInv, Quiet, ~tangled, ~misjudged
      PROVE  /\ Shown(stored) = Shown(wa)
             /\ ~dropped => \A k \in Kinds : stored.by[k] = wa.by[k] \/ (k = "reaction" /\ wa[k] = NoEmoji)
  <2>1. (\A i \in DOMAIN echoes : ~RealEcho(i)) /\ \A o \in Officer : ~Taken(o)
    BY <1>1 DEF Quiet, Taken
  <2>2. \A k \in Kinds : stored[k] = wa[k]
    BY <1>1, <2>1, Settled
  <2>3. ~dropped => \A k \in Kinds : stored.by[k] = wa.by[k] \/ (k = "reaction" /\ wa[k] = NoEmoji)
    BY <1>1, <2>1, Settled
  <2>. QED  BY <2>2, <2>3 DEF Shown
<1>2. ActionsInv => ShownAndNamed
  BY <1>1 DEF ShownAndNamed
<1>. QED  BY <1>2, ActionsInvariant, PTL

-----------------------------------------------------------------------------
(* The photos of contacts. *)

\* A fetch has a file in hand: one it has written, or is to remove.
InHand(j) == fetch[j].file # 0
\* A file that has been written.
WrittenFile(f) == f \in 1..written

\* Such a file is no row's and no other fetch's, and has what goes into the row.
FetchIs(j) ==
    /\ fetch[j].pc \in {"ask", "compare", "touch", "write", "replace", "insert"} => fetch[j].subject \in Subject
    /\ fetch[j].pc = "write" => fetch[j].photo # NoPhoto
    /\ fetch[j].pc = "remove" => InHand(j)
    /\ InHand(j) =>
          /\ fetch[j].pc \in {"replace", "insert", "remove"} /\ WrittenFile(fetch[j].file)
          /\ \A s \in Subject : photoRow[s].file # fetch[j].file
          /\ \A k \in PhotoFetch \ {j} : fetch[k].file # fetch[j].file
          /\ fetch[j].pc # "remove" => files[fetch[j].file] = [of |-> fetch[j].subject, photo |-> fetch[j].photo]

\* A row with a file names one that has been written, with this photo of this contact.
RowIs(s) ==
    photoRow[s].file # 0 =>
        /\ WrittenFile(photoRow[s].file)
        /\ files[photoRow[s].file] = [of |-> s, photo |-> photoRow[s].photo]

\* A file that exists is a row's, in the hand of a fetch, or known to be lost.
FileKept(f) ==
    files[f] # NoFile => f \in lost \/ (\E s \in Subject : photoRow[s].file = f) \/ (\E j \in PhotoFetch : Holds(j, f))

\* What a module has looked up is a file with that photo, or one that is gone.
ViewerIs(v) ==
    /\ viewer[v].pc = "read" =>
          /\ WrittenFile(viewer[v].file)
          /\ files[viewer[v].file] \in {NoFile, [of |-> viewer[v].job[2], photo |-> viewer[v].photo]}
    /\ viewer[v].pc \in {"demand", "wait", "again"} => viewer[v].job \in PhotoFetch /\ viewer[v].job[2] \in Subject

\* The inductive invariant.
PhotosInv ==
    /\ PhotosTypeOK
    /\ \A j \in PhotoFetch : FetchIs(j)
    /\ \A s \in Subject : RowIs(s)
    /\ \A f \in 1..MaxFiles : FileKept(f)
    /\ \A v \in Viewer : ViewerIs(v)

\* What the assumption says of the numbers, and the types of what is empty.
LEMMA PhotosConstants ==
    /\ MaxFiles \in Nat /\ PerMinute \in Nat
    /\ NoPhoto \notin Photo
    /\ NoFile \in Contents
    /\ NoPhotoRow \in PhotoRows /\ NoPhotoRow.file = 0
    /\ NoPhotoFetch \in PhotoFetches /\ NoPhotoFetch.pc = "idle" /\ NoPhotoFetch.file = 0
    /\ NoViewer \in Viewers /\ NoViewer.pc = "idle"
    /\ "round" \notin Subject
BY PhotosAssumption DEF PhotosAssumption, NoPhoto, NoFile, Contents, NoPhotoRow, PhotoRows, NoPhotoFetch,
   PhotoFetches, NoViewer, Viewers, File, PhotoOrNone

\* What the invariant says of each value.
LEMMA PhotosFacts ==
    ASSUME PhotosTypeOK
    PROVE  /\ shows \in [Subject -> PhotoOrNone]
           /\ \A s \in Subject :
                 /\ photoRow[s] \in PhotoRows
                 /\ photoRow[s].there \in BOOLEAN /\ photoRow[s].file \in File /\ photoRow[s].photo \in PhotoOrNone
                 /\ photoRow[s].fresh \in BOOLEAN
           /\ \A j \in PhotoFetch :
                 /\ fetch[j] \in PhotoFetches
                 /\ fetch[j].file \in File /\ fetch[j].photo \in PhotoOrNone /\ fetch[j].todo \in SUBSET Subject
                 /\ fetch[j].subject \in Subject \cup {"none"}
                 /\ fetch[j].pc \in {"idle", "next", "ask", "compare", "touch", "write", "replace", "insert", "remove"}
           /\ \A v \in Viewer :
                 /\ viewer[v] \in Viewers
                 /\ viewer[v].pc \in {"idle", "demand", "wait", "again", "read"}
                 /\ viewer[v].job \in (Hub \cup {"none"}) \X (Subject \cup {"none"})
                 /\ viewer[v].file \in File /\ viewer[v].photo \in PhotoOrNone
           /\ written \in Nat /\ written <= MaxFiles
           /\ File = 0..MaxFiles
BY PhotosConstants DEF PhotosTypeOK, PhotoRows, PhotoFetches, Viewers, File

\* Where Continue leaves the fetch.
Continued(j) == [NoPhotoFetch EXCEPT !.pc = IF j[2] = "round" THEN "next" ELSE "idle", !.todo = fetch[j].todo]

\* A fetch that ends has no file in hand.
LEMMA ContinuedIs ==
    ASSUME PhotosTypeOK, NEW j \in PhotoFetch
    PROVE  Continued(j) \in PhotoFetches /\ Continued(j).file = 0 /\ Continued(j).pc \in {"next", "idle"}
<1>1. fetch[j].todo \in SUBSET Subject
  BY PhotosFacts
<1>2. ASSUME NEW pc \in {"next", "idle"}, Continued(j) = [NoPhotoFetch EXCEPT !.pc = pc, !.todo = fetch[j].todo]
      PROVE  Continued(j) \in PhotoFetches /\ Continued(j).file = 0 /\ Continued(j).pc = pc
  BY <1>1, <1>2, PhotosConstants DEF PhotoFetches, NoPhotoFetch
<1>3. CASE j[2] = "round"
  BY <1>2, <1>3 DEF Continued
<1>4. CASE j[2] # "round"
  BY <1>2, <1>4 DEF Continued
<1> QED BY <1>3, <1>4

\* A file keeps what it has, or is gone, once it has been written.
FilesStay == written' \in Nat /\ written <= written' /\ \A f \in 1..written : files'[f] \in {files[f], NoFile}

\* The viewers of a fetch are freed.
LEMMA FreeViewersStep ==
    ASSUME PhotosInv, FilesStay, NEW j \in PhotoFetch,
           FreeViewers(j, LookingAgain) \/ FreeViewers(j, SentAway)
    PROVE  viewer' \in [Viewer -> Viewers] /\ \A v \in Viewer : ViewerIs(v)'
<1>1. PhotosTypeOK /\ \A v \in Viewer : ViewerIs(v)
  BY DEF PhotosInv
<1>2. \A v \in Viewer : viewer[v] \in Viewers /\ LookingAgain[v] \in Viewers /\ SentAway[v] \in Viewers
  BY <1>1, PhotosFacts, PhotosConstants DEF LookingAgain, SentAway, Viewers
<1>3. \A v \in Viewer : \/ viewer'[v] = viewer[v]
                        \/ viewer[v].pc = "wait" /\ viewer'[v] = [viewer[v] EXCEPT !.pc = "again"]
                        \/ viewer'[v] = NoViewer
  BY DEF FreeViewers, LookingAgain, SentAway
<1>4. viewer' \in [Viewer -> Viewers]
  BY <1>2 DEF FreeViewers
<1>5. ASSUME NEW v \in Viewer PROVE ViewerIs(v)'
  <2>1. CASE viewer'[v] = viewer[v]
    BY <2>1, <1>1, PhotosFacts DEF FilesStay, ViewerIs, WrittenFile
  <2>2. CASE viewer[v].pc = "wait" /\ viewer'[v] = [viewer[v] EXCEPT !.pc = "again"]
    <3>1. viewer'[v].pc = "again" /\ viewer'[v].job = viewer[v].job
      BY <2>2, <1>2 DEF Viewers
    <3> QED BY <3>1, <2>2, <1>1 DEF ViewerIs
  <2>3. CASE viewer'[v] = NoViewer
    BY <2>3, PhotosConstants DEF ViewerIs
  <2> QED BY <1>3, <2>1, <2>2, <2>3
<1> QED BY <1>4, <1>5

\* A fetch moves on with no file in its hands: the one it had, if any, is left behind.
LEMMA LetGo ==
    ASSUME PhotosInv, NEW j \in PhotoFetch, NEW r \in PhotoFetches,
           r.file = 0, r.pc # "remove",
           r.pc \in {"ask", "compare", "touch", "write", "replace", "insert"} => r.subject \in Subject,
           r.pc = "write" => r.photo # NoPhoto,
           fetch' = [fetch EXCEPT ![j] = r],
           photoRow' \in [Subject -> PhotoRows],
           \A s \in Subject : photoRow'[s].file = photoRow[s].file /\ photoRow'[s].photo = photoRow[s].photo,
           UNCHANGED <<shows, files, written>>,
           lost \subseteq lost', lost' \subseteq 1..MaxFiles,
           ~InHand(j) \/ fetch[j].file \in lost',
           spent' \in [Hub -> Nat],
           viewer' \in [Viewer -> Viewers],
           \A v \in Viewer : ViewerIs(v)'
    PROVE  PhotosInv'
<1>1. /\ PhotosTypeOK
      /\ \A i \in PhotoFetch : FetchIs(i)
      /\ \A s \in Subject : RowIs(s)
      /\ \A f \in 1..MaxFiles : FileKept(f)
  BY DEF PhotosInv
<1>2. /\ \A k \in PhotoFetch \ {j} : fetch'[k] = fetch[k]
      /\ fetch'[j] = r
  BY <1>1 DEF PhotosTypeOK
<1>3. PhotosTypeOK'
  BY <1>1 DEF PhotosTypeOK
<1>4. ASSUME NEW i \in PhotoFetch PROVE FetchIs(i)'
  <2>1. CASE i = j
    BY <2>1, <1>2 DEF FetchIs, InHand
  <2>2. CASE i # j
    BY <2>2, <1>1, <1>2 DEF FetchIs, InHand, WrittenFile
  <2> QED BY <2>1, <2>2
<1>5. \A s \in Subject : RowIs(s)'
  BY <1>1 DEF RowIs, WrittenFile
<1>6. ASSUME NEW f \in 1..MaxFiles PROVE FileKept(f)'
  <2>1. CASE Holds(j, f)
    <3>1. f \in lost'
      BY <2>1 DEF Holds, InHand
    <3> QED BY <3>1 DEF FileKept
  <2>2. CASE ~Holds(j, f)
    BY <2>2, <1>1, <1>2 DEF FileKept, Holds
  <2> QED BY <2>1, <2>2
<1> QED BY <1>3, <1>4, <1>5, <1>6 DEF PhotosInv

\* Steps of a fetch with no file, and of one that leaves it behind.
LEMMA EmptyHandedSteps ==
    ASSUME PhotosInv, NEW j \in PhotoFetch,
           NextSubject(j) \/ PhotoAnswer(j) \/ PhotoUnavailable(j) \/ Compare(j) \/ Touch(j) \/ RemoveFails(j) \/ Breaks(j)
    PROVE  PhotosInv'
<1>b. UNCHANGED <<shows, files, written, spent>>
  BY DEF NextSubject, PhotoAnswer, PhotoUnavailable, Compare, Touch, RemoveFails, Breaks
<1>c. PhotosTypeOK /\ FetchIs(j) /\ \A v \in Viewer : ViewerIs(v)
  BY DEF PhotosInv
<1>1. /\ PhotosTypeOK /\ FetchIs(j) /\ FilesStay /\ \A v \in Viewer : ViewerIs(v)
      /\ spent' \in [Hub -> Nat] /\ lost \subseteq 1..MaxFiles /\ photoRow \in [Subject -> PhotoRows]
      /\ viewer \in [Viewer -> Viewers] /\ UNCHANGED <<shows, files, written>>
  BY <1>b, <1>c, PhotosFacts DEF PhotosTypeOK, FilesStay
<1>a. /\ fetch[j] \in PhotoFetches /\ fetch[j].todo \in SUBSET Subject /\ fetch[j].file \in File /\ File = 0..MaxFiles
      /\ MaxFiles \in Nat
  BY <1>1, PhotosFacts, PhotosConstants
<1> DEFINE next == Continued(j)
<1>2. next \in PhotoFetches /\ next.file = 0 /\ next.pc \in {"next", "idle"}
  BY <1>1, ContinuedIs
<1>3. CASE NextSubject(j)
  <2>1. ~InHand(j) /\ UNCHANGED <<photoRow, lost, viewer>>
    BY <1>3, <1>1 DEF NextSubject, FetchIs
  <2>2. \A v \in Viewer : ViewerIs(v)'
    BY <1>1, <2>1 DEF ViewerIs, WrittenFile
  <2>3. CASE EndFetch(j)
    BY <2>1, <2>2, <2>3, <1>1, LetGo, PhotosConstants DEF EndFetch
  <2>4. ASSUME NEW s \in fetch[j].todo,
               fetch' = [fetch EXCEPT ![j] = [@ EXCEPT !.pc = "ask", !.subject = s, !.todo = fetch[j].todo \ {s}]]
        PROVE  PhotosInv'
    <3> DEFINE r == [fetch[j] EXCEPT !.pc = "ask", !.subject = s, !.todo = @ \ {s}]
    <3>a. s \in Subject /\ fetch[j].todo \ {s} \in SUBSET Subject
      BY <1>a
    <3>1. r \in PhotoFetches /\ r.file = 0 /\ r.pc = "ask" /\ r.subject = s /\ s \in Subject
      BY <1>a, <2>1, <3>a DEF PhotoFetches, InHand
    <3>2. fetch' = [fetch EXCEPT ![j] = r]
      BY <2>4
    <3> HIDE DEF r
    <3> QED BY <3>1, <3>2, <2>1, <2>2, <1>1, LetGo
  <2> QED BY <1>3, <2>3, <2>4 DEF NextSubject
<1>4. CASE PhotoAnswer(j)
  <2>1. ~InHand(j) /\ fetch[j].subject \in Subject /\ UNCHANGED <<photoRow, lost, viewer>>
    BY <1>4, <1>1 DEF PhotoAnswer, FetchIs
  <2>2. \A v \in Viewer : ViewerIs(v)'
    BY <1>1, <2>1 DEF ViewerIs, WrittenFile
  <2>a. shows[fetch[j].subject] \in PhotoOrNone /\ NoPhoto \in PhotoOrNone
    BY <1>1, <2>1, PhotosFacts DEF PhotoOrNone
  <2>3. PICK photo \in PhotoOrNone : fetch' = [fetch EXCEPT ![j].pc = "compare", ![j].photo = photo]
    BY <1>4, <2>a DEF PhotoAnswer
  <2> DEFINE r == [fetch[j] EXCEPT !.pc = "compare", !.photo = photo]
  <2>4. r \in PhotoFetches /\ r.file = 0 /\ r.pc = "compare" /\ r.subject \in Subject
    BY <1>a, <2>1 DEF PhotoFetches, InHand
  <2>5. fetch' = [fetch EXCEPT ![j] = r]
    BY <2>3, <1>1, PhotosFacts DEF PhotosTypeOK, PhotoFetches
  <2> HIDE DEF r
  <2> QED BY <2>1, <2>2, <2>4, <2>5, <1>1, LetGo
<1>5. CASE PhotoUnavailable(j)
  <2>1. ~InHand(j) /\ UNCHANGED <<photoRow, lost>>
    BY <1>5, <1>1 DEF PhotoUnavailable, FetchIs
  <2>2. viewer' \in [Viewer -> Viewers] /\ \A v \in Viewer : ViewerIs(v)'
    BY <1>5, <1>1, FreeViewersStep DEF PhotoUnavailable
  <2> QED BY <1>5, <2>1, <2>2, <1>1, LetGo, PhotosConstants DEF PhotoUnavailable, EndFetch
<1>6. CASE Compare(j)
  <2>1. ~InHand(j) /\ fetch[j].subject \in Subject /\ UNCHANGED <<photoRow, lost, viewer>>
    BY <1>6, <1>1 DEF Compare, FetchIs
  <2>2. \A v \in Viewer : ViewerIs(v)'
    BY <1>1, <2>1 DEF ViewerIs, WrittenFile
  <2> DEFINE pc == IF SameAsStored(j) THEN "touch" ELSE IF fetch[j].photo # NoPhoto THEN "write" ELSE "replace"
             r == [fetch[j] EXCEPT !.pc = pc]
  <2>3. pc \in {"touch", "write", "replace"} /\ (pc = "write" => fetch[j].photo # NoPhoto)
    OBVIOUS
  <2>4. r \in PhotoFetches /\ r.file = 0 /\ r.pc = pc /\ r.subject \in Subject /\ r.photo = fetch[j].photo
    BY <1>a, <2>1, <2>3 DEF PhotoFetches, InHand
  <2>5. fetch' = [fetch EXCEPT ![j] = r]
    BY <1>6, <1>1, PhotosFacts DEF PhotosTypeOK, PhotoFetches, Compare
  <2> HIDE DEF r, pc
  <2> QED BY <2>1, <2>2, <2>3, <2>4, <2>5, <1>1, LetGo
<1>7. CASE Touch(j)
  <2>1. ~InHand(j) /\ fetch[j].subject \in Subject /\ UNCHANGED lost
    BY <1>7, <1>1 DEF Touch, FetchIs
  <2>2. viewer' \in [Viewer -> Viewers] /\ \A v \in Viewer : ViewerIs(v)'
    BY <1>7, <1>1, FreeViewersStep DEF Touch, Continue
  <2>3. /\ photoRow' \in [Subject -> PhotoRows]
        /\ \A s \in Subject : photoRow'[s].file = photoRow[s].file /\ photoRow'[s].photo = photoRow[s].photo
    <3>1. photoRow' = [photoRow EXCEPT ![fetch[j].subject].fresh = TRUE]
      BY <1>7 DEF Touch
    <3>2. [photoRow[fetch[j].subject] EXCEPT !.fresh = TRUE] \in PhotoRows
      BY <1>1, <2>1, PhotosFacts DEF PhotoRows
    <3> QED BY <3>1, <3>2, <1>1, <2>1 DEF PhotoRows
  <2>4. fetch' = [fetch EXCEPT ![j] = next]
    BY <1>7 DEF Touch, Continue, Continued
  <2> HIDE DEF next
  <2> QED BY <2>1, <2>2, <2>3, <2>4, <1>1, <1>2, LetGo
<1>8. CASE RemoveFails(j)
  <2>1. UNCHANGED photoRow /\ lost' = lost \cup {fetch[j].file} /\ fetch[j].file \in 1..MaxFiles
    BY <1>8, <1>1, <1>a DEF RemoveFails, FetchIs, InHand
  <2>2. viewer' \in [Viewer -> Viewers] /\ \A v \in Viewer : ViewerIs(v)'
    BY <1>8, <1>1, FreeViewersStep DEF RemoveFails, Continue
  <2>3. fetch' = [fetch EXCEPT ![j] = next]
    BY <1>8 DEF RemoveFails, Continue, Continued
  <2> HIDE DEF next
  <2> QED BY <2>1, <2>2, <2>3, <1>1, <1>2, LetGo
<1>9. CASE Breaks(j)
  <2>1. UNCHANGED photoRow /\ lost' \subseteq 1..MaxFiles /\ lost \subseteq lost' /\ (~InHand(j) \/ fetch[j].file \in lost')
    <3>1. lost' = lost \cup ({fetch[j].file} \ {0}) /\ UNCHANGED photoRow
      BY <1>9 DEF Breaks
    <3>2. fetch[j].file # 0 => fetch[j].file \in 1..MaxFiles
      BY <1>a
    <3> QED BY <3>1, <3>2, <1>1 DEF InHand
  <2>2. viewer' \in [Viewer -> Viewers] /\ \A v \in Viewer : ViewerIs(v)'
    BY <1>9, <1>1, FreeViewersStep DEF Breaks
  <2> QED BY <1>9, <2>1, <2>2, <1>1, LetGo, PhotosConstants DEF Breaks, EndFetch
<1> QED BY <1>3, <1>4, <1>5, <1>6, <1>7, <1>8, <1>9

\* A new file goes to the disk.
LEMMA WriteStep ==
    ASSUME PhotosInv, NEW j \in PhotoFetch, WriteFile(j)
    PROVE  PhotosInv'
<1>1. /\ PhotosTypeOK
      /\ \A i \in PhotoFetch : FetchIs(i)
      /\ \A s \in Subject : RowIs(s)
      /\ \A f \in 1..MaxFiles : FileKept(f)
      /\ \A v \in Viewer : ViewerIs(v)
  BY DEF PhotosInv
<1>a. /\ fetch[j] \in PhotoFetches /\ fetch[j].photo \in PhotoOrNone /\ File = 0..MaxFiles
      /\ MaxFiles \in Nat /\ written \in Nat /\ written <= MaxFiles
  BY <1>1, PhotosFacts, PhotosConstants
<1> DEFINE new == written + 1
           r == [fetch[j] EXCEPT !.pc = "replace", !.file = new]
<1>2. /\ fetch[j].subject \in Subject /\ fetch[j].photo \in Photo /\ ~InHand(j)
      /\ new \in 1..MaxFiles /\ new # 0 /\ new \in File /\ written' = new
  BY <1>1, <1>a DEF WriteFile, FetchIs, PhotoOrNone, InHand
<1>3. /\ r \in PhotoFetches /\ r.file = new /\ r.pc = "replace" /\ r.subject = fetch[j].subject /\ r.photo = fetch[j].photo
  BY <1>a, <1>2 DEF PhotoFetches
<1>4. /\ fetch' = [fetch EXCEPT ![j] = r]
      /\ \A k \in PhotoFetch \ {j} : fetch'[k] = fetch[k]
      /\ fetch'[j] = r
  BY <1>1, PhotosFacts DEF PhotosTypeOK, PhotoFetches, WriteFile
<1>5. /\ files'[new] = [of |-> fetch[j].subject, photo |-> fetch[j].photo]
      /\ \A f \in 1..MaxFiles : f # new => files'[f] = files[f]
      /\ files' \in [1..MaxFiles -> Contents]
  BY <1>1, <1>2 DEF PhotosTypeOK, WriteFile, Contents
<1>6. UNCHANGED <<shows, photoRow, lost, spent, viewer>>
  BY DEF WriteFile
<1> HIDE DEF r
<1>7. \A f \in 1..written : f \in 1..written' /\ f # new /\ f \in 1..MaxFiles
  BY <1>a, <1>2
<1>8. PhotosTypeOK'
  BY <1>1, <1>2, <1>3, <1>4, <1>5, <1>6 DEF PhotosTypeOK
<1>9. ASSUME NEW i \in PhotoFetch PROVE FetchIs(i)'
  <2>1. CASE i = j
    <3>1. \A s \in Subject : photoRow'[s].file # new
      BY <1>1, <1>2, <1>6, <1>7 DEF RowIs, WrittenFile
    <3>2. \A k \in PhotoFetch \ {j} : fetch'[k].file # new
      BY <1>1, <1>2, <1>4, <1>7 DEF FetchIs, InHand, WrittenFile
    <3>3. new \in 1..written'
      BY <1>2
    <3> HIDE DEF new
    <3> QED BY <2>1, <3>1, <3>2, <3>3, <1>2, <1>3, <1>4, <1>5 DEF FetchIs, InHand, WrittenFile
  <2>2. CASE i # j
    <3>1. fetch'[i] = fetch[i]
      BY <2>2, <1>4
    <3>2. InHand(i) => fetch[i].file # new /\ fetch'[j].file # fetch[i].file
      BY <1>1, <1>3, <1>4, <1>7 DEF FetchIs, InHand, WrittenFile
    <3> QED BY <2>2, <3>1, <3>2, <1>1, <1>3, <1>4, <1>5, <1>6, <1>7 DEF FetchIs, InHand, WrittenFile
  <2> QED BY <2>1, <2>2
<1>10. \A s \in Subject : RowIs(s)'
  BY <1>1, <1>5, <1>6, <1>7 DEF RowIs, WrittenFile
<1>11. ASSUME NEW f \in 1..MaxFiles PROVE FileKept(f)'
  <2>1. CASE f = new
    BY <2>1, <1>3, <1>4 DEF FileKept, Holds
  <2>2. CASE f # new
    BY <2>2, <1>1, <1>2, <1>4, <1>5, <1>6 DEF FileKept, Holds, InHand
  <2> QED BY <2>1, <2>2
<1>12. \A v \in Viewer : ViewerIs(v)'
  BY <1>1, <1>5, <1>6, <1>7 DEF ViewerIs, WrittenFile
<1> QED BY <1>8, <1>9, <1>10, <1>11, <1>12 DEF PhotosInv

\* What a fetch has in hand is no row's and no other fetch's; a file a row names is its own.
LEMMA OwnFiles ==
    ASSUME PhotosInv
    PROVE  /\ \A i, k \in PhotoFetch : fetch[i].file # 0 /\ i # k => fetch[k].file # fetch[i].file
           /\ \A i \in PhotoFetch, t \in Subject : fetch[i].file # 0 => photoRow[t].file # fetch[i].file
           /\ \A t \in Subject : photoRow[t].file # 0 => files[photoRow[t].file].of = t
<1>1. \A i \in PhotoFetch : InHand(i) => /\ \A t \in Subject : photoRow[t].file # fetch[i].file
                                       /\ \A k \in PhotoFetch \ {i} : fetch[k].file # fetch[i].file
  <2>1. \A i \in PhotoFetch : FetchIs(i)
    BY DEF PhotosInv
  <2> QED BY <2>1 DEF FetchIs
<1>2. \A t \in Subject : photoRow[t].file # 0 => files[photoRow[t].file] = [of |-> t, photo |-> photoRow[t].photo]
  BY DEF PhotosInv, RowIs
<1>3. ASSUME NEW t \in Subject, photoRow[t].file # 0 PROVE files[photoRow[t].file].of = t
  <2>1. files[photoRow[t].file] = [of |-> t, photo |-> photoRow[t].photo]
    BY <1>2, <1>3
  <2>2. [of |-> t, photo |-> photoRow[t].photo].of = t
    OBVIOUS
  <2> QED BY <2>1, <2>2, Zenon
<1> QED BY <1>1, <1>3 DEF InHand

\* The row is put, and leads to the file the fetch had in hand.
LEMMA PutStep ==
    ASSUME PhotosInv, NEW j \in PhotoFetch, fetch[j].pc \in {"replace", "insert"}, PutRow(j)
    PROVE  LET s == fetch[j].subject
           IN /\ s \in Subject /\ photoRow' \in [Subject -> PhotoRows]
              /\ photoRow'[s].file = fetch[j].file /\ photoRow'[s].photo = fetch[j].photo
              /\ \A t \in Subject \ {s} : photoRow'[t] = photoRow[t]
              /\ InHand(j) => /\ WrittenFile(fetch[j].file)
                              /\ files[fetch[j].file] = [of |-> s, photo |-> fetch[j].photo]
<1>1. PhotosTypeOK /\ FetchIs(j)
  BY DEF PhotosInv
<1>2. NewRow(j) \in PhotoRows /\ NewRow(j).file = fetch[j].file /\ NewRow(j).photo = fetch[j].photo
  BY <1>1, PhotosFacts DEF NewRow, PhotoRows
<1>3. /\ photoRow' = [photoRow EXCEPT ![fetch[j].subject] = NewRow(j)]
      /\ photoRow \in [Subject -> PhotoRows]
  BY <1>1 DEF PutRow, PhotosTypeOK
<1>4. /\ fetch[j].subject \in Subject
      /\ InHand(j) => /\ WrittenFile(fetch[j].file)
                      /\ files[fetch[j].file] = [of |-> fetch[j].subject, photo |-> fetch[j].photo]
  BY <1>1 DEF FetchIs
<1> QED BY <1>2, <1>3, <1>4

\* A row is replaced under its lock: what it named is the fetch's to remove.
LEMMA ReplaceStep ==
    ASSUME PhotosInv, NEW j \in PhotoFetch, ReplaceRow(j)
    PROVE  PhotosInv'
<1> DEFINE s == fetch[j].subject
           old == photoRow[s].file
           next == Continued(j)
           r == IF old = 0 THEN next ELSE [fetch[j] EXCEPT !.pc = "remove", !.file = old]
<1>1. /\ PhotosTypeOK
      /\ \A i \in PhotoFetch : FetchIs(i)
      /\ \A t \in Subject : RowIs(t)
      /\ \A f \in 1..MaxFiles : FileKept(f)
      /\ \A v \in Viewer : ViewerIs(v)
  BY DEF PhotosInv
<1>2. fetch[j].pc = "replace" /\ PutRow(j) /\ UNCHANGED <<shows, files, written, lost, spent>>
  BY DEF ReplaceRow
<1>3. /\ s \in Subject /\ photoRow' \in [Subject -> PhotoRows]
      /\ photoRow'[s].file = fetch[j].file /\ photoRow'[s].photo = fetch[j].photo
      /\ \A t \in Subject \ {s} : photoRow'[t] = photoRow[t]
      /\ InHand(j) => WrittenFile(fetch[j].file) /\ files[fetch[j].file] = [of |-> s, photo |-> fetch[j].photo]
  BY <1>2, PutStep
<1>4. fetch[j] \in PhotoFetches /\ fetch[j].todo \in SUBSET Subject /\ old \in File
  BY <1>1, <1>3, PhotosFacts
<1>5. r \in PhotoFetches /\ r.file = old /\ r.pc \in {"next", "idle", "remove"} /\ (r.pc = "remove" <=> old # 0)
  <2>1. CASE old = 0
    BY <2>1, <1>1, ContinuedIs
  <2>2. CASE old # 0
    BY <2>2, <1>4 DEF PhotoFetches
  <2> QED BY <2>1, <2>2
<1>6. fetch' = [fetch EXCEPT ![j] = r]
  <2>1. CASE old = 0
    BY <2>1 DEF ReplaceRow, Replaced, Continue, Continued
  <2>2. CASE old # 0
    <3>1. fetch' = [fetch EXCEPT ![j].pc = "remove", ![j].file = old]
      BY <2>2 DEF ReplaceRow, Replaced
    <3>2. fetch \in [PhotoFetch -> PhotoFetches] /\ r = [fetch[j] EXCEPT !.pc = "remove", !.file = old]
      BY <1>1, <2>2 DEF PhotosTypeOK
    <3> QED BY <3>1, <3>2 DEF PhotoFetches
  <2> QED BY <2>1, <2>2
<1>7. viewer' \in [Viewer -> Viewers] /\ \A v \in Viewer : ViewerIs(v)'
  <2>1. FilesStay
    BY <1>1, <1>2, PhotosFacts DEF FilesStay
  <2>2. CASE FreeViewers(j, LookingAgain)
    BY <2>1, <2>2, FreeViewersStep
  <2>3. CASE UNCHANGED viewer
    BY <2>3, <1>1, <1>2 DEF PhotosTypeOK, ViewerIs, WrittenFile
  <2> QED BY <2>2, <2>3 DEF ReplaceRow, Continue
<1>8. /\ \A k \in PhotoFetch \ {j} : fetch'[k] = fetch[k]
      /\ fetch'[j] = r
  BY <1>1, <1>6 DEF PhotosTypeOK
<1> HIDE DEF r
<1>9. PhotosTypeOK'
  BY <1>1, <1>2, <1>3, <1>5, <1>6, <1>7 DEF PhotosTypeOK
<1>10. old # 0 => /\ WrittenFile(old) /\ files[old].of = s /\ files[old] # NoFile
                  /\ \A i \in PhotoFetch : fetch[i].file # old
                  /\ \A t \in Subject \ {s} : photoRow[t].file # old
  <2>1. "none" \notin Subject
    BY PhotosAssumption DEF PhotosAssumption
  <2>2. old # 0 => WrittenFile(old) /\ files[old] = [of |-> s, photo |-> photoRow[s].photo]
    BY <1>1, <1>3 DEF RowIs
  <2>3. \A t \in Subject \ {s} : photoRow[t].file # 0 => files[photoRow[t].file].of = t
    BY OwnFiles
  <2>4. \A i \in PhotoFetch : fetch[i].file # 0 => fetch[i].file # old
    BY <1>1, <1>3 DEF FetchIs, InHand
  <2> HIDE DEF s, old
  <2> QED BY <2>1, <2>2, <2>3, <2>4, <1>3 DEF NoFile
<1>11. ASSUME NEW i \in PhotoFetch PROVE FetchIs(i)'
  <2>1. CASE i = j
    <3>1. old # 0 => \A t \in Subject : photoRow'[t].file # old
      BY <1>3, <1>10
    <3>2. old # 0 => \A k \in PhotoFetch \ {j} : fetch'[k].file # old
      BY <1>8, <1>10
    <3> HIDE DEF old
    <3> QED BY <2>1, <3>1, <3>2, <1>2, <1>5, <1>8, <1>10 DEF FetchIs, InHand, WrittenFile
  <2>2. CASE i # j
    <3>1. fetch'[i] = fetch[i]
      BY <2>2, <1>8
    <3>2. InHand(i) => \A t \in Subject : photoRow'[t].file # fetch[i].file
      BY <2>2, <1>3, OwnFiles DEF InHand
    <3>3. InHand(i) => \A k \in PhotoFetch \ {i} : fetch'[k].file # fetch[i].file
      BY <1>5, <1>8, <1>10, OwnFiles DEF InHand
    <3> QED BY <2>2, <3>1, <3>2, <3>3, <1>1, <1>2 DEF FetchIs, InHand, WrittenFile
  <2> QED BY <2>1, <2>2
<1>12. ASSUME NEW t \in Subject PROVE RowIs(t)'
  BY <1>1, <1>2, <1>3 DEF RowIs, InHand, WrittenFile
<1>13. ASSUME NEW f \in 1..MaxFiles PROVE FileKept(f)'
  <2>1. CASE Holds(j, f)
    BY <2>1, <1>2, <1>3 DEF Holds, FileKept
  <2>2. CASE f = old
    <3>1. old # 0
      BY <2>2, PhotosConstants
    <3> QED BY <2>2, <3>1, <1>5, <1>8 DEF Holds, FileKept
  <2>3. CASE ~Holds(j, f) /\ f # old
    <3>1. ASSUME NEW t \in Subject, photoRow[t].file = f PROVE photoRow'[t].file = f
      BY <2>3, <3>1, <1>3
    <3>2. ASSUME NEW k \in PhotoFetch, Holds(k, f) PROVE Holds(k, f)'
      BY <2>3, <3>2, <1>8 DEF Holds
    <3> QED BY <3>1, <3>2, <1>1, <1>2 DEF FileKept
  <2> QED BY <2>1, <2>2, <2>3
<1> QED BY <1>7, <1>9, <1>11, <1>12, <1>13 DEF PhotosInv

\* A row that was not there: it is found missing, and inserted over what came since.
LEMMA InsertSteps ==
    ASSUME PhotosInv, NEW j \in PhotoFetch, FindNoRow(j) \/ InsertRow(j)
    PROVE  PhotosInv'
<1> DEFINE s == fetch[j].subject
           old == photoRow[s].file
           next == Continued(j)
<1>1. /\ PhotosTypeOK
      /\ \A i \in PhotoFetch : FetchIs(i)
      /\ \A t \in Subject : RowIs(t)
      /\ \A f \in 1..MaxFiles : FileKept(f)
      /\ \A v \in Viewer : ViewerIs(v)
  BY DEF PhotosInv
<1>2. fetch[j] \in PhotoFetches /\ fetch[j].todo \in SUBSET Subject /\ fetch \in [PhotoFetch -> PhotoFetches]
  BY <1>1, PhotosFacts DEF PhotosTypeOK
<1>3. CASE FindNoRow(j)
  <2> DEFINE r == [fetch[j] EXCEPT !.pc = "insert"]
  <2>1. /\ fetch[j].pc = "replace" /\ UNCHANGED <<shows, photoRow, files, written, lost, spent, viewer>>
        /\ fetch' = [fetch EXCEPT ![j] = r]
    BY <1>3, <1>2 DEF FindNoRow, PhotoFetches
  <2>2. /\ r \in PhotoFetches /\ r.pc = "insert" /\ r.file = fetch[j].file /\ r.subject = fetch[j].subject
        /\ r.photo = fetch[j].photo
    BY <1>2 DEF PhotoFetches
  <2>3. /\ \A k \in PhotoFetch \ {j} : fetch'[k] = fetch[k]
        /\ fetch'[j] = r
    BY <1>2, <2>1
  <2> HIDE DEF r
  <2>4. PhotosTypeOK'
    BY <1>1, <2>1, <2>2 DEF PhotosTypeOK
  <2>5. ASSUME NEW i \in PhotoFetch PROVE FetchIs(i)'
    BY <1>1, <2>1, <2>2, <2>3 DEF FetchIs, InHand, WrittenFile
  <2>6. ASSUME NEW f \in 1..MaxFiles PROVE FileKept(f)'
    BY <1>1, <2>1, <2>2, <2>3 DEF FileKept, Holds
  <2>7. (\A t \in Subject : RowIs(t)') /\ \A v \in Viewer : ViewerIs(v)'
    BY <1>1, <2>1 DEF RowIs, ViewerIs, WrittenFile
  <2> QED BY <2>4, <2>5, <2>6, <2>7 DEF PhotosInv
<1>4. CASE InsertRow(j)
  <2>1. /\ fetch[j].pc = "insert" /\ PutRow(j) /\ UNCHANGED <<shows, files, written, spent>>
        /\ lost' = lost \cup ({old} \ {0}) /\ fetch' = [fetch EXCEPT ![j] = next]
    BY <1>4 DEF InsertRow, Replaced, Continue, Continued
  <2>2. /\ s \in Subject /\ photoRow' \in [Subject -> PhotoRows]
        /\ photoRow'[s].file = fetch[j].file /\ photoRow'[s].photo = fetch[j].photo
        /\ \A t \in Subject \ {s} : photoRow'[t] = photoRow[t]
        /\ InHand(j) => WrittenFile(fetch[j].file) /\ files[fetch[j].file] = [of |-> s, photo |-> fetch[j].photo]
    BY <2>1, PutStep
  <2>3. next \in PhotoFetches /\ next.file = 0 /\ next.pc \in {"next", "idle"}
    BY <1>1, ContinuedIs
  <2>4. /\ \A k \in PhotoFetch \ {j} : fetch'[k] = fetch[k]
        /\ fetch'[j] = next
    BY <1>2, <2>1
  <2> HIDE DEF next
  <2>5. viewer' \in [Viewer -> Viewers] /\ \A v \in Viewer : ViewerIs(v)'
    <3>1. FilesStay
      BY <1>1, <2>1, PhotosFacts DEF FilesStay
    <3> QED BY <3>1, <1>4, FreeViewersStep DEF InsertRow, Continue
  <2>6. lost' \subseteq 1..MaxFiles
    <3>1. old \in File /\ File = 0..MaxFiles /\ MaxFiles \in Nat /\ lost \subseteq 1..MaxFiles
      BY <1>1, <2>2, PhotosFacts, PhotosConstants DEF PhotosTypeOK
    <3> HIDE DEF old
    <3> QED BY <3>1, <2>1
  <2>7. PhotosTypeOK'
    BY <1>1, <2>1, <2>2, <2>3, <2>5, <2>6 DEF PhotosTypeOK
  <2>8. ASSUME NEW i \in PhotoFetch PROVE FetchIs(i)'
    <3>1. CASE i = j
      BY <3>1, <2>3, <2>4 DEF FetchIs, InHand
    <3>2. CASE i # j
      <4>1. fetch'[i] = fetch[i]
        BY <3>2, <2>4
      <4>2. InHand(i) => \A t \in Subject : photoRow'[t].file # fetch[i].file
        BY <3>2, <2>2, OwnFiles DEF InHand
      <4>3. InHand(i) => \A k \in PhotoFetch \ {i} : fetch'[k].file # fetch[i].file
        BY <2>3, <2>4, OwnFiles DEF InHand
      <4> QED BY <3>2, <4>1, <4>2, <4>3, <1>1, <2>1 DEF FetchIs, InHand, WrittenFile
    <3> QED BY <3>1, <3>2
  <2>9. ASSUME NEW t \in Subject PROVE RowIs(t)'
    BY <1>1, <2>1, <2>2 DEF RowIs, InHand, WrittenFile
  <2>10. ASSUME NEW f \in 1..MaxFiles PROVE FileKept(f)'
    <3>1. CASE Holds(j, f)
      BY <3>1, <2>2 DEF Holds, FileKept
    <3>2. CASE f = old
      BY <3>2, <2>1, PhotosConstants DEF FileKept
    <3>3. CASE ~Holds(j, f) /\ f # old
      <4>1. ASSUME NEW t \in Subject, photoRow[t].file = f PROVE photoRow'[t].file = f
        BY <3>3, <4>1, <2>2
      <4>2. ASSUME NEW k \in PhotoFetch, Holds(k, f) PROVE Holds(k, f)'
        BY <3>3, <4>2, <2>4 DEF Holds
      <4>3. lost \subseteq lost' /\ files' = files
        BY <2>1
      <4> QED BY <4>1, <4>2, <4>3, <1>1 DEF FileKept
    <3> QED BY <3>1, <3>2, <3>3
  <2> QED BY <2>5, <2>7, <2>8, <2>9, <2>10 DEF PhotosInv
<1> QED BY <1>3, <1>4

\* A replaced file leaves the disk.
LEMMA RemoveStep ==
    ASSUME PhotosInv, NEW j \in PhotoFetch, RemoveFile(j)
    PROVE  PhotosInv'
<1> DEFINE gone == fetch[j].file
           next == Continued(j)
<1>1. /\ PhotosTypeOK
      /\ \A i \in PhotoFetch : FetchIs(i)
      /\ \A t \in Subject : RowIs(t)
      /\ \A f \in 1..MaxFiles : FileKept(f)
  BY DEF PhotosInv
<1>2. /\ fetch[j].pc = "remove" /\ gone # 0 /\ fetch' = [fetch EXCEPT ![j] = next]
      /\ files' = [files EXCEPT ![gone] = NoFile] /\ UNCHANGED <<shows, photoRow, written, lost, spent>>
  BY <1>1 DEF RemoveFile, Continue, Continued, FetchIs, InHand
<1>3. fetch[j] \in PhotoFetches /\ fetch[j].todo \in SUBSET Subject /\ fetch \in [PhotoFetch -> PhotoFetches]
  BY <1>1, PhotosFacts DEF PhotosTypeOK
<1>4. next \in PhotoFetches /\ next.file = 0 /\ next.pc \in {"next", "idle"}
  BY <1>1, ContinuedIs
<1>5. /\ \A k \in PhotoFetch \ {j} : fetch'[k] = fetch[k]
      /\ fetch'[j] = next
  BY <1>2, <1>3
<1> HIDE DEF next
<1>6. /\ files' \in [1..MaxFiles -> Contents]
      /\ \A f \in 1..MaxFiles : files'[f] = IF f = gone THEN NoFile ELSE files[f]
  BY <1>1, <1>2, PhotosConstants DEF PhotosTypeOK
<1>7. FilesStay
  <2>1. written \in Nat /\ written <= MaxFiles /\ MaxFiles \in Nat
    BY <1>1, PhotosFacts, PhotosConstants
  <2>2. \A f \in 1..written : f \in 1..MaxFiles
    BY <2>1
  <2> QED BY <2>1, <2>2, <1>2, <1>6 DEF FilesStay
<1>8. viewer' \in [Viewer -> Viewers] /\ \A v \in Viewer : ViewerIs(v)'
  BY <1>7, FreeViewersStep DEF RemoveFile, Continue
<1>9. PhotosTypeOK'
  BY <1>1, <1>2, <1>4, <1>6, <1>8 DEF PhotosTypeOK
<1>10. \A f \in 1..written : f \in 1..MaxFiles
  BY <1>1, PhotosFacts, PhotosConstants
<1>11. ASSUME NEW i \in PhotoFetch PROVE FetchIs(i)'
  <2>1. CASE i = j
    BY <2>1, <1>4, <1>5 DEF FetchIs, InHand
  <2>2. CASE i # j
    <3>1. fetch'[i] = fetch[i]
      BY <2>2, <1>5
    <3>2. InHand(i) => \A k \in PhotoFetch \ {i} : fetch'[k].file # fetch[i].file
      BY <1>4, <1>5, OwnFiles DEF InHand
    <3>3. InHand(i) => fetch[i].file \in 1..written /\ fetch[i].file # gone
      BY <2>2, <1>1, <1>2, OwnFiles DEF FetchIs, InHand, WrittenFile
    <3>4. InHand(i) => WrittenFile(fetch[i].file) /\ files'[fetch[i].file] = files[fetch[i].file]
      BY <3>3, <1>6, <1>10 DEF WrittenFile
    <3> QED BY <2>2, <3>1, <3>2, <3>4, <1>1, <1>2 DEF FetchIs, InHand, WrittenFile
  <2> QED BY <2>1, <2>2
<1>12. ASSUME NEW t \in Subject PROVE RowIs(t)'
  BY <1>1, <1>2, <1>6, <1>10, OwnFiles DEF RowIs, WrittenFile
<1>13. ASSUME NEW f \in 1..MaxFiles PROVE FileKept(f)'
  <2>1. CASE f = gone
    BY <2>1, <1>6 DEF FileKept
  <2>2. CASE f # gone
    BY <2>2, <1>1, <1>2, <1>5, <1>6 DEF FileKept, Holds
  <2> QED BY <2>1, <2>2
<1> QED BY <1>8, <1>9, <1>11, <1>12, <1>13 DEF PhotosInv

\* A module asks for a photo and reads it.
LEMMA ViewerSteps ==
    ASSUME PhotosInv, NEW v \in Viewer, ViewerStep(v)
    PROVE  PhotosInv'
<1>1. /\ PhotosTypeOK
      /\ \A j \in PhotoFetch : FetchIs(j)
      /\ \A s \in Subject : RowIs(s)
      /\ \A w \in Viewer : ViewerIs(w)
  BY DEF PhotosInv
<1>2. UNCHANGED <<shows, photoRow, files, written, lost>> /\ spent' \in [Hub -> Nat]
  <2>1. ASSUME NEW p \in Hub, NEW s \in Subject, AskPhoto(v, p, s) PROVE UNCHANGED <<shows, photoRow, files, written, lost, spent>>
    BY <2>1 DEF AskPhoto
  <2>2. CASE FetchNow(v)
    BY <2>2, <1>1 DEF FetchNow, PhotosTypeOK
  <2>3. CASE LookAgain(v)
    BY <2>3, <1>1 DEF LookAgain, PhotosTypeOK
  <2>4. CASE ReadFile(v)
    BY <2>4, <1>1 DEF ReadFile, PhotosTypeOK
  <2> QED BY <2>1, <2>2, <2>3, <2>4, <1>1 DEF ViewerStep, PhotosTypeOK
\* What a viewer finds is a photo of the subject, as the row has it.
<1>3. ASSUME NEW s \in Subject
      PROVE  /\ Found(s) \in Viewers /\ Found(s).pc \in {"idle", "read"}
             /\ Found(s).pc = "read" => /\ WrittenFile(Found(s).file) /\ Found(s).job[2] = s
                                        /\ files[Found(s).file] = [of |-> s, photo |-> Found(s).photo]
  <2>1. CASE photoRow[s].file = 0
    BY <2>1, PhotosConstants DEF Found
  <2>2. CASE photoRow[s].file # 0
    <3>1. Found(s) = [pc |-> "read", job |-> <<"none", s>>, file |-> photoRow[s].file, photo |-> photoRow[s].photo]
      BY <2>2 DEF Found, NoViewer
    <3>2. photoRow[s].file \in File /\ photoRow[s].photo \in PhotoOrNone
      BY <1>1, PhotosFacts
    <3>3. Found(s) \in Viewers /\ Found(s).pc = "read" /\ Found(s).job = <<"none", s>>
          /\ Found(s).file = photoRow[s].file /\ Found(s).photo = photoRow[s].photo
      BY <3>1, <3>2 DEF Viewers
    <3> HIDE DEF Found
    <3> QED BY <2>2, <3>3, <1>1 DEF RowIs
  <2> QED BY <2>1, <2>2
\* A viewer that waits for nothing, or reads what is there, has what it should.
<1>4. ASSUME NEW r \in Viewers, UNCHANGED fetch, viewer' = [viewer EXCEPT ![v] = r],
             r.pc = "read" => WrittenFile(r.file) /\ files[r.file] \in {NoFile, [of |-> r.job[2], photo |-> r.photo]},
             r.pc \in {"demand", "wait", "again"} => r.job \in PhotoFetch /\ r.job[2] \in Subject
      PROVE  PhotosInv'
  <2>1. viewer' \in [Viewer -> Viewers] /\ viewer'[v] = r /\ \A w \in Viewer \ {v} : viewer'[w] = viewer[w]
    BY <1>1, <1>4 DEF PhotosTypeOK
  <2>2. PhotosTypeOK'
    BY <1>1, <1>2, <1>4, <2>1 DEF PhotosTypeOK
  <2>3. (\A j \in PhotoFetch : FetchIs(j)') /\ \A s \in Subject : RowIs(s)'
    BY <1>1, <1>2, <1>4 DEF FetchIs, RowIs, InHand, WrittenFile
  <2>4. ASSUME NEW f \in 1..MaxFiles PROVE FileKept(f)'
    BY <1>2, <1>4 DEF PhotosInv, FileKept, Holds
  <2>5. ASSUME NEW w \in Viewer PROVE ViewerIs(w)'
    BY <1>1, <1>2, <1>4, <2>1 DEF ViewerIs, WrittenFile
  <2> QED BY <2>2, <2>3, <2>4, <2>5 DEF PhotosInv
<1>5. ASSUME NEW p \in Hub, NEW s \in Subject, AskPhoto(v, p, s) PROVE PhotosInv'
  <2> DEFINE r == [NoViewer EXCEPT !.pc = "demand", !.job = <<p, s>>]
  <2>1. r \in Viewers /\ r.pc = "demand" /\ r.job \in PhotoFetch /\ r.job[2] \in Subject
    BY PhotosConstants DEF Viewers, NoViewer, PhotoFetch
  <2>2. UNCHANGED fetch /\ (viewer' = [viewer EXCEPT ![v] = Found(s)] \/ viewer' = [viewer EXCEPT ![v] = r])
    BY <1>5 DEF AskPhoto
  <2> HIDE DEF r
  <2>3. CASE viewer' = [viewer EXCEPT ![v] = Found(s)]
    BY <2>2, <2>3, <1>3, <1>4
  <2>4. CASE viewer' = [viewer EXCEPT ![v] = r]
    BY <2>1, <2>2, <2>4, <1>4
  <2> QED BY <2>2, <2>3, <2>4
<1>6. CASE FetchNow(v)
  <2> DEFINE j == viewer[v].job
             r == [NoPhotoFetch EXCEPT !.pc = "ask", !.subject = j[2]]
             wait == [viewer[v] EXCEPT !.pc = "wait"]
  <2>1. viewer[v].pc = "demand" /\ j \in PhotoFetch /\ j[2] \in Subject
    BY <1>1, <1>6 DEF FetchNow, ViewerIs
  <2>2. wait \in Viewers /\ wait.pc = "wait" /\ wait.job = j
    BY <1>1, PhotosFacts DEF Viewers
  <2>3. r \in PhotoFetches /\ r.pc = "ask" /\ r.subject \in Subject /\ r.file = 0
    BY <2>1, PhotosConstants DEF PhotoFetches, NoPhotoFetch
  <2>4. \/ viewer' = [viewer EXCEPT ![v] = wait] /\ UNCHANGED fetch
        \/ viewer' = [viewer EXCEPT ![v] = NoViewer] /\ UNCHANGED fetch
        \/ /\ viewer' = [viewer EXCEPT ![v] = wait]
           /\ fetch[j].pc = "idle" /\ fetch' = [fetch EXCEPT ![j] = r]
    <3>1. viewer' = IF fetch[j].pc # "idle" \/ spent[j[1]] < PerMinute THEN [viewer EXCEPT ![v] = wait]
                    ELSE [viewer EXCEPT ![v] = NoViewer]
      BY <1>1, <1>6 DEF FetchNow, PhotosTypeOK
    <3>2. \/ fetch[j].pc = "idle" /\ spent[j[1]] < PerMinute /\ fetch' = [fetch EXCEPT ![j] = r]
          \/ UNCHANGED fetch
      BY <1>6 DEF FetchNow
    <3> HIDE DEF wait, r, j
    <3> QED BY <3>1, <3>2
  <2> HIDE DEF wait, r, j
  <2>5. CASE viewer' = [viewer EXCEPT ![v] = wait] /\ UNCHANGED fetch
    BY <2>1, <2>2, <2>5, <1>4
  <2>6. CASE viewer' = [viewer EXCEPT ![v] = NoViewer] /\ UNCHANGED fetch
    BY <2>6, <1>4, PhotosConstants
  <2>7. CASE /\ viewer' = [viewer EXCEPT ![v] = wait]
             /\ fetch[j].pc = "idle" /\ fetch' = [fetch EXCEPT ![j] = r]
    <3>1. ~InHand(j)
      BY <1>1, <2>1, <2>7 DEF FetchIs
    <3>2. viewer' \in [Viewer -> Viewers] /\ viewer'[v] = wait /\ \A w \in Viewer \ {v} : viewer'[w] = viewer[w]
      BY <1>1, <2>2, <2>7 DEF PhotosTypeOK
    <3>3. ASSUME NEW w \in Viewer PROVE ViewerIs(w)'
      BY <1>1, <1>2, <2>1, <2>2, <3>2 DEF ViewerIs, WrittenFile
    <3>4. /\ photoRow' \in [Subject -> PhotoRows] /\ lost \subseteq lost' /\ lost' \subseteq 1..MaxFiles
          /\ \A s \in Subject : photoRow'[s].file = photoRow[s].file /\ photoRow'[s].photo = photoRow[s].photo
      BY <1>1, <1>2 DEF PhotosTypeOK
    <3> QED BY <1>2, <2>1, <2>3, <2>7, <3>1, <3>2, <3>3, <3>4, LetGo
  <2> QED BY <2>4, <2>5, <2>6, <2>7
<1>7. CASE LookAgain(v)
  <2>1. viewer[v].job[2] \in Subject /\ UNCHANGED fetch /\ viewer' = [viewer EXCEPT ![v] = Found(viewer[v].job[2])]
    BY <1>1, <1>7 DEF LookAgain, ViewerIs
  <2> QED BY <2>1, <1>3, <1>4
<1>8. CASE ReadFile(v)
  BY <1>8, <1>4, PhotosConstants DEF ReadFile
<1> QED BY <1>5, <1>6, <1>7, <1>8 DEF ViewerStep

\* Rounds begin, and contacts and clocks go on.
LEMMA OtherSteps ==
    ASSUME PhotosInv,
           \/ \E p \in Hub : BeginPhotoRound(p) \/ MinutePasses(p)
           \/ \E s \in Subject, photo \in Photo \cup {NoPhoto} : ContactChanges(s, photo)
           \/ WeekPasses
    PROVE  PhotosInv'
<1>1. /\ PhotosTypeOK
      /\ \A j \in PhotoFetch : FetchIs(j)
      /\ \A s \in Subject : RowIs(s)
      /\ \A f \in 1..MaxFiles : FileKept(f)
      /\ \A w \in Viewer : ViewerIs(w)
  BY DEF PhotosInv
<1>2. ASSUME UNCHANGED <<files, written, lost, fetch, viewer>>, shows' \in [Subject -> PhotoOrNone],
             spent' \in [Hub -> Nat], photoRow' \in [Subject -> PhotoRows],
             \A s \in Subject : photoRow'[s].file = photoRow[s].file /\ photoRow'[s].photo = photoRow[s].photo
      PROVE  PhotosInv'
  <2>1. PhotosTypeOK'
    BY <1>1, <1>2 DEF PhotosTypeOK
  <2>2. (\A j \in PhotoFetch : FetchIs(j)') /\ \A s \in Subject : RowIs(s)'
    BY <1>1, <1>2 DEF FetchIs, RowIs, InHand, WrittenFile
  <2>3. ASSUME NEW f \in 1..MaxFiles PROVE FileKept(f)'
    BY <1>1, <1>2 DEF FileKept, Holds
  <2>4. ASSUME NEW w \in Viewer PROVE ViewerIs(w)'
    BY <1>1, <1>2 DEF ViewerIs, WrittenFile
  <2> QED BY <2>1, <2>2, <2>3, <2>4 DEF PhotosInv
<1>3. ASSUME NEW p \in Hub, BeginPhotoRound(p) PROVE PhotosInv'
  <2> DEFINE j == <<p, "round">>
             r == [NoPhotoFetch EXCEPT !.pc = "next", !.todo = Due]
  <2>1. j \in PhotoFetch /\ fetch[j].pc = "idle" /\ fetch' = [fetch EXCEPT ![j] = r]
        /\ UNCHANGED <<shows, photoRow, files, written, lost, spent, viewer>>
    BY <1>3 DEF BeginPhotoRound, PhotoFetch
  <2>2. Due \in SUBSET Subject
    BY PhotosAssumption DEF PhotosAssumption, Due
  <2>3. r \in PhotoFetches /\ r.pc = "next" /\ r.file = 0
    BY <2>2, PhotosConstants DEF PhotoFetches, NoPhotoFetch
  <2> HIDE DEF r, j
  <2>4. ~InHand(j)
    BY <1>1, <2>1 DEF FetchIs
  <2>5. /\ photoRow' \in [Subject -> PhotoRows] /\ lost \subseteq lost' /\ lost' \subseteq 1..MaxFiles
        /\ spent' \in [Hub -> Nat] /\ viewer' \in [Viewer -> Viewers]
        /\ \A s \in Subject : photoRow'[s].file = photoRow[s].file /\ photoRow'[s].photo = photoRow[s].photo
    BY <1>1, <2>1 DEF PhotosTypeOK
  <2>6. ASSUME NEW w \in Viewer PROVE ViewerIs(w)'
    BY <1>1, <2>1 DEF ViewerIs, WrittenFile
  <2> QED BY <2>1, <2>3, <2>4, <2>5, <2>6, LetGo
<1>4. ASSUME NEW p \in Hub, MinutePasses(p) PROVE PhotosInv'
  BY <1>1, <1>2, <1>4 DEF MinutePasses, PhotosTypeOK
<1>5. ASSUME NEW s \in Subject, NEW photo \in Photo \cup {NoPhoto}, ContactChanges(s, photo) PROVE PhotosInv'
  BY <1>1, <1>2, <1>5 DEF ContactChanges, PhotosTypeOK, PhotoOrNone
<1>6. CASE WeekPasses
  <2>1. /\ photoRow' \in [Subject -> PhotoRows]
        /\ \A s \in Subject : photoRow'[s].file = photoRow[s].file /\ photoRow'[s].photo = photoRow[s].photo
    <3>1. photoRow' = [s \in Subject |-> [photoRow[s] EXCEPT !.fresh = FALSE]]
      BY <1>6 DEF WeekPasses
    <3>2. \A s \in Subject : /\ [photoRow[s] EXCEPT !.fresh = FALSE] \in PhotoRows
                            /\ [photoRow[s] EXCEPT !.fresh = FALSE].file = photoRow[s].file
                            /\ [photoRow[s] EXCEPT !.fresh = FALSE].photo = photoRow[s].photo
      BY <1>1, PhotosFacts DEF PhotoRows
    <3> QED BY <3>1, <3>2
  <2> QED BY <1>1, <1>2, <1>6, <2>1 DEF WeekPasses, PhotosTypeOK
<1> QED BY <1>3, <1>4, <1>5, <1>6

\* The inductive invariant of the photos holds throughout.
THEOREM PhotosInvariant == PhotosSpec => []PhotosInv
<1>1. PhotosInit => PhotosInv
  <2> SUFFICES ASSUME PhotosInit PROVE PhotosInv
    OBVIOUS
  <2>1. PhotosTypeOK
    BY PhotosConstants DEF PhotosInit, PhotosTypeOK, PhotoOrNone, File
  <2> QED BY <2>1, PhotosConstants DEF PhotosInit, PhotosInv, FetchIs, RowIs, FileKept, ViewerIs, InHand
<1>2. PhotosInv /\ [PhotosNext]_photosVars => PhotosInv'
  <2> SUFFICES ASSUME PhotosInv, [PhotosNext]_photosVars PROVE PhotosInv'
    OBVIOUS
  <2>1. ASSUME NEW j \in PhotoFetch, PhotoStep(j) PROVE PhotosInv'
    BY <2>1, EmptyHandedSteps, WriteStep, ReplaceStep, InsertSteps, RemoveStep DEF PhotoStep
  <2>2. ASSUME NEW v \in Viewer, ViewerStep(v) PROVE PhotosInv'
    BY <2>2, ViewerSteps
  <2>3. CASE UNCHANGED photosVars
    BY <2>3 DEF photosVars, PhotosInv, PhotosTypeOK, FetchIs, RowIs, FileKept, ViewerIs, InHand, WrittenFile, Holds
  <2> QED BY <2>1, <2>2, <2>3, OtherSteps DEF PhotosNext
<1> QED BY <1>1, <1>2, PTL DEF PhotosSpec

\* Every variable of the photos has its type.
THEOREM PhotosTyped == PhotosSpec => []PhotosTypeOK
<1>1. PhotosInv => PhotosTypeOK
  BY DEF PhotosInv
<1> QED BY <1>1, PhotosInvariant, PTL

\* A row that says there is a photo names a file with this photo of this contact, every file
\* on the disk is accounted for, and a module is shown the photo the row had or an error,
\* whichever fetches of however many processes cross, fail or stop.
THEOREM PhotosStayOnDisk == PhotosSpec => []PhotosOnDisk
<1>1. PhotosInv => PhotosOnDisk
  BY DEF PhotosInv, PhotosOnDisk, RowIs, FileKept, ViewerIs
<1> QED BY <1>1, PhotosInvariant, PTL
=============================================================================
