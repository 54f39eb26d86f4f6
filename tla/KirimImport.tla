---------------------------- MODULE KirimImport ----------------------------
(***************************************************************************)
(* The import of a number's old messages (kirim/history-import.ts): from   *)
(* the engine's stored copy, one row per chat of a request, and from the   *)
(* phone ("perangkat"), one row per known conversation, asked of WhatsApp  *)
(* and polled.  Each process runs one round at a time, and the rounds of   *)
(* two processes overlap while a release is rolled out.                    *)
(*                                                                         *)
(* The messages of a stored chat are copied one by one, oldest first and   *)
(* at most CopyLimit of them, each looked up and then stored in another    *)
(* transaction; those of a phone import are left out, and so are the       *)
(* messages ingestion stores meanwhile.                                    *)
(***************************************************************************)
EXTENDS Naturals, FiniteSets

CONSTANTS
    Runner,          \* SQ Hub processes
    Chat,            \* private chats in the engine's stored copy
    Messages,        \* chat -> messages of it in the stored copy, 0 when the engine has none
    CopyLimit,       \* STORED_MAX_PAGES pages of a chat
    Conversation,    \* conversations of the number
    WaitLimit,       \* polls within WAIT_LIMIT_MS
    MaxBreaks        \* bound: calls the engine is unavailable for, and stops

ASSUME ImportAssumption ==
    Messages \in [Chat -> Nat] /\ {CopyLimit, WaitLimit, MaxBreaks} \subseteq Nat

VARIABLES
    request,         \* status of the request for the stored copy
    chatRow,         \* chat -> status of its row
    copied,          \* chat -> messages of it the number has, the oldest ones
    crossed,         \* history: chats that two processes copied at once
    twice,           \* history: chats of which the number has a message twice
    expansions,      \* history: times the request was turned into rows
    deviceRow,       \* conversation -> status of its row
    polls,           \* conversation -> times WhatsApp was still awaited
    round,           \* process -> what its round does
    breaks

importVars == <<request, chatRow, copied, crossed, twice, expansions, deviceRow, polls, round, breaks>>
copyVars == <<copied, crossed, twice>>

Waiting == {"antre", "menunggu_mesin"}
Ended == {"selesai", "gagal"}
RowStatus == Waiting \cup Ended \cup {"none", "memasukkan"}
Copying == {"chat", "insert"}
NoRound == [pc |-> "idle", batch |-> {}, row |-> "none", at |-> 0]

ImportInit ==
    /\ request = "none" /\ expansions = 0
    /\ chatRow = [c \in Chat |-> "none"]
    /\ copied = [c \in Chat |-> 0] /\ crossed = {} /\ twice = {}
    /\ deviceRow = [c \in Conversation |-> "none"]
    /\ polls = [c \in Conversation |-> 0]
    /\ round = [r \in Runner |-> NoRound]
    /\ breaks = 0

Goes(r, pc, row) == round' = [round EXCEPT ![r].pc = pc, ![r].row = row]
EndImportRound(r) == round' = [round EXCEPT ![r] = NoRound]
Break == breaks < MaxBreaks /\ breaks' = breaks + 1

-----------------------------------------------------------------------------
(* kirim_admin. *)

\* queueStoredImport: not while an import from the stored copy is under way.
QueueStored ==
    /\ request = "none"
    /\ request' = "antre"
    /\ UNCHANGED <<chatRow, copyVars, expansions, deviceRow, polls, round, breaks>>

\* One row per conversation, not while one of the number's is under way.
StartDevice ==
    /\ \A c \in Conversation : deviceRow[c] = "none"
    /\ deviceRow' = [c \in Conversation |-> "antre"]
    /\ UNCHANGED <<request, chatRow, copyVars, expansions, polls, round, breaks>>

-----------------------------------------------------------------------------
(* step: one row of a phone import per round. *)

\* The row whose answer is awaited comes first.
NextDeviceRow(c) ==
    /\ deviceRow[c] \in Waiting
    /\ deviceRow[c] = "menunggu_mesin" \/ \A d \in Conversation : deviceRow[d] # "menunggu_mesin"

BeginRound(r) ==
    /\ round[r].pc = "idle"
    /\ \/ \E c \in Conversation :
             /\ NextDeviceRow(c)
             /\ Goes(r, IF deviceRow[c] = "antre" THEN "ask" ELSE "poll", c)
       \/ /\ \A c \in Conversation : deviceRow[c] \notin Waiting
          /\ Goes(r, "stored", "none")
    /\ UNCHANGED <<request, chatRow, copyVars, expansions, deviceRow, polls, breaks>>

SetDevice(r, status, pc) ==
    /\ deviceRow' = [deviceRow EXCEPT ![round[r].row] = status]
    /\ Goes(r, pc, IF pc = "copy" THEN round[r].row ELSE "none")

AskPhone(r) ==
    /\ round[r].pc = "ask"
    /\ SetDevice(r, "menunggu_mesin", "stored") \/ SetDevice(r, "gagal", "stored")
    /\ UNCHANGED <<request, chatRow, copyVars, expansions, polls, breaks>>

\* Still awaited, given up, failed, or ready to be copied.
PollPhone(r) ==
    /\ round[r].pc = "poll"
    /\ LET c == round[r].row
       IN \/ /\ polls[c] < WaitLimit
             /\ polls' = [polls EXCEPT ![c] = @ + 1]
             /\ Goes(r, "stored", "none")
             /\ UNCHANGED deviceRow
          \/ /\ SetDevice(r, "gagal", "stored") \/ SetDevice(r, "memasukkan", "copy")
             /\ UNCHANGED polls
    /\ UNCHANGED <<request, chatRow, copyVars, expansions, breaks>>

CopyFromPhone(r) ==
    /\ round[r].pc = "copy"
    /\ SetDevice(r, "selesai", "stored") \/ SetDevice(r, "gagal", "stored")
    /\ UNCHANGED <<request, chatRow, copyVars, expansions, polls, breaks>>

\* engine_unavailable: the row keeps its status, "tried again next round".
PhoneUnavailable(r) ==
    /\ round[r].pc \in {"ask", "poll", "copy"}
    /\ Break
    /\ Goes(r, "stored", "none")
    /\ UNCHANGED <<request, chatRow, copyVars, expansions, deviceRow, polls>>

-----------------------------------------------------------------------------
(* stepStored: the request is turned into rows, or a batch of rows imported. *)

\* Status of the chat rows a round takes up.
TakenUp == {"antre", "memasukkan"}

BeginStored(r) ==
    /\ round[r].pc = "stored"
    /\ IF request = "antre" THEN Goes(r, "list", "none")
       ELSE LET batch == {c \in Chat : chatRow[c] \in TakenUp}
            IN round' = [round EXCEPT ![r] = IF batch = {} THEN NoRound
                                             ELSE [NoRound EXCEPT !.pc = "batch", !.batch = batch]]
    /\ UNCHANGED <<request, chatRow, copyVars, expansions, deviceRow, polls, breaks>>

\* insertStoredChats: the claim, the rows and the end of the request in one
\* transaction.  A chat without an address, beyond the pages that are read or
\* missed between two of them gets no row.
Expand(listed) ==
    IF request = "antre"
    THEN /\ request' = "selesai"
         /\ chatRow' = [c \in Chat |-> IF c \in listed THEN "antre" ELSE "none"]
         /\ expansions' = expansions + 1
    ELSE UNCHANGED <<request, chatRow, expansions>>

ListChats(r) ==
    /\ round[r].pc = "list"
    /\ \/ \E listed \in SUBSET Chat : Expand(listed)
       \/ request' = "gagal" /\ UNCHANGED <<chatRow, expansions>>
    /\ EndImportRound(r)
    /\ UNCHANGED <<copyVars, deviceRow, polls, breaks>>

ListUnavailable(r) ==
    /\ round[r].pc = "list"
    /\ Break
    /\ EndImportRound(r)
    /\ UNCHANGED <<request, chatRow, copyVars, expansions, deviceRow, polls>>

\* Also a chat another process is at: the row is not claimed.
BeginChat(r) ==
    /\ round[r].pc = "batch"
    /\ \E c \in round[r].batch :
          /\ chatRow' = [chatRow EXCEPT ![c] = "memasukkan"]
          /\ round' = [round EXCEPT ![r].pc = "chat", ![r].row = c, ![r].at = 0, ![r].batch = @ \ {c}]
          /\ crossed' = IF \E q \in Runner : round[q].pc \in Copying /\ round[q].row = c
                        THEN crossed \cup {c} ELSE crossed
    /\ UNCHANGED <<request, copied, twice, expansions, deviceRow, polls, breaks>>

\* What of a chat the pages that are read hold: the rest, the newest, is left out.
Wanted(c) == IF Messages[c] < CopyLimit THEN Messages[c] ELSE CopyLimit

\* Mutant: a message the number has ends the copying of the chat.
StopAtKnown(r) ==
    round' = [round EXCEPT ![r].at = Wanted(round[r].row)]

\* A message the number has is passed over.
PassOver(r) == round' = [round EXCEPT ![r].at = @ + 1]

\* Mutant: the number is not asked for the message.
NeverKnown(r) == FALSE

\* insertEngineMessage: does the number have the message?
Known(r) == round[r].at < copied[round[r].row]

LookUp(r) ==
    /\ round[r].pc = "chat"
    /\ round[r].at < Wanted(round[r].row)
    /\ IF Known(r) THEN PassOver(r) ELSE round' = [round EXCEPT ![r].pc = "insert"]
    /\ UNCHANGED <<request, chatRow, copyVars, expansions, deviceRow, polls, breaks>>

\* Its row, in a transaction of its own: no index keeps a second one out.
StoreMessage(r) ==
    /\ round[r].pc = "insert"
    /\ LET c == round[r].row
       IN IF round[r].at < copied[c]
          THEN twice' = twice \cup {c} /\ UNCHANGED copied
          ELSE copied' = [copied EXCEPT ![c] = round[r].at + 1] /\ UNCHANGED twice
    /\ round' = [round EXCEPT ![r].pc = "chat", ![r].at = @ + 1]
    /\ UNCHANGED <<request, chatRow, crossed, expansions, deviceRow, polls, breaks>>

\* The last page is done, or the engine, the database or the chat's data refuse.
EndChat(r, status) ==
    /\ round[r].pc \in Copying
    /\ status = "selesai" => round[r].pc = "chat" /\ round[r].at = Wanted(round[r].row)
    /\ chatRow' = [chatRow EXCEPT ![round[r].row] = status]
    /\ IF round[r].batch = {} THEN EndImportRound(r) ELSE Goes(r, "batch", "none")
    /\ UNCHANGED <<request, copyVars, expansions, deviceRow, polls, breaks>>

\* engine_unavailable: the row is queued again and the batch stops.
ChatUnavailable(r) ==
    /\ round[r].pc = "chat"
    /\ Break
    /\ chatRow' = [chatRow EXCEPT ![round[r].row] = "antre"]
    /\ EndImportRound(r)
    /\ UNCHANGED <<request, copyVars, expansions, deviceRow, polls>>

StopRunner(r) ==
    /\ round[r].pc # "idle"
    /\ Break
    /\ EndImportRound(r)
    /\ UNCHANGED <<request, chatRow, copyVars, expansions, deviceRow, polls>>

RoundStep(r) ==
    \/ BeginRound(r) \/ AskPhone(r) \/ PollPhone(r) \/ CopyFromPhone(r)
    \/ BeginStored(r) \/ ListChats(r) \/ BeginChat(r) \/ LookUp(r) \/ StoreMessage(r)
    \/ \E s \in Ended : EndChat(r, s)

ImportNext ==
    \/ QueueStored \/ StartDevice
    \/ \E r \in Runner : RoundStep(r) \/ PhoneUnavailable(r) \/ ListUnavailable(r)
                            \/ ChatUnavailable(r) \/ StopRunner(r)

\* The timer of a process starts round after round, and calls to the engine end.
ImportFairness == \A r \in Runner : WF_importVars(RoundStep(r))

ImportSpec == ImportInit /\ [][ImportNext]_importVars /\ ImportFairness

-----------------------------------------------------------------------------
(* Properties. *)

ImportTypeOK ==
    /\ request \in RowStatus /\ expansions \in Nat
    /\ chatRow \in [Chat -> RowStatus] /\ deviceRow \in [Conversation -> RowStatus]
    /\ polls \in [Conversation -> 0..WaitLimit]
    /\ round \in [Runner -> [pc : {"idle", "ask", "poll", "copy", "stored", "list", "batch"} \cup Copying,
                             batch : SUBSET Chat, row : Chat \cup Conversation \cup {"none"}, at : 0..CopyLimit]]
    /\ copied \in [Chat -> 0..CopyLimit] /\ crossed \subseteq Chat /\ twice \subseteq Chat
    /\ breaks \in 0..MaxBreaks

\* A request is turned into rows once, also by the overlapping rounds of two processes.
ExpandedOnce == expansions <= 1

\* An import from the stored copy ends, whatever the engine and the processes
\* did meanwhile: every chat of it is marked failed or done, and of a chat that
\* is done the number has every message of the pages that are read, also when it
\* was begun twice: all of it, unless the copy holds more than 100 pages of it.
StoredImportsEnd ==
    (request = "antre") ~>
        /\ request \in Ended
        /\ \A c \in Chat : /\ chatRow[c] \in Ended \cup {"none"}
                           /\ chatRow[c] = "selesai" => copied[c] = Wanted(c)

\* KIRIM-IMPL-002 section 10.3, "pesan yang sudah ada dilewati": a chat that is
\* begun again, after a stop or an engine that was unavailable, gets no message a
\* second time.  Only two processes at one chat at once can store one twice.
CopiedOnce == twice \subseteq crossed

\* What the comment says of an engine that is unavailable while a phone import
\* is copied: it is tried again next round, so the row ends.
DeviceImportsEnd ==
    \A c \in Conversation : (deviceRow[c] = "memasukkan") ~> (deviceRow[c] \in Ended)
=============================================================================
