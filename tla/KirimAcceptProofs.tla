-------------------------- MODULE KirimAcceptProofs --------------------------
(***************************************************************************)
(* What accepting a message keeps for every set of requests, keys, bodies  *)
(* and messages and every quota.                                           *)
(*                                                                         *)
(* OneMessagePerKey rests on the unique key alone.  The other properties   *)
(* need what a request may rely on between its queries: rows never change  *)
(* key, body or day, a request whose key was taken when it came never gets *)
(* past findIdempotent, and the requests that have passed the quota check  *)
(* and not yet inserted stand for as many messages of the day.             *)
(***************************************************************************)
EXTENDS KirimAccept, FiniteSetTheorems, TLAPS

\* What a request under way has established.
Requested ==
    \A h \in Handler :
       /\ pc[h] # "idle" => req[h] \in Request
       /\ pc[h] \in {"now", "quota"} => Automatic(req[h].body)
       /\ pc[h] = "quota" => day[h] <= today

FoundHolds ==
    \A h \in Handler : \A m \in found[h] :
       /\ m \in Stored
       /\ req[h] \in Request
       /\ row[m].key = req[h].key

FoundFirst == \A h \in Handler : found[h] # {} => pc[h] \in {"idle", "replay"}

DaysPast == \A m \in Stored : row[m].day <= today

\* The automatic requests between the quota check and the insert.
Passed == {h \in Handler : pc[h] \in {"media", "insert"} /\ Automatic(req[h].body)}

QuotaRoom ==
    Cardinality(AutomaticOn(today)) + Cardinality(Passed) <= Quota + Cardinality(Handler) - 1

Base == TypeOK /\ Requested /\ OneMessagePerKey
Found == FoundHolds /\ FoundFirst
IInv == Base /\ AnswersTrue /\ Found /\ RetryFindsIt /\ DaysPast /\ QuotaRoom

\* A request step that inserts nothing.
Elsewhere == row' = row /\ optouts' = optouts /\ today' = today

-----------------------------------------------------------------------------

\* What the assumptions say of the constants, in the forms used below.
LEMMA ConstantTypes ==
    /\ Cardinality(Handler) \in Nat
    /\ \A b \in Body : Kind[b] \in {"notifikasi", "kode", "percakapan"}
    /\ Quota \in Nat /\ Quota > 0
    /\ Message \cap Code = {} /\ NoAnswer \notin Message \cup Code
  BY AcceptAssumption, FS_CardinalityType DEF Code

USE DEF vars, requestVars, KeyTaken, Holders, SameRequest, WibDayStart, QuotaUsedUp

\* The initial states have the right types.
LEMMA TypeInit == Init => Base
  BY DEF Init, Base, TypeOK, Requested, OneMessagePerKey, Stored, Pc

\* The inserting case of the transaction, with the message it makes.
Inserts(h, m) ==
    /\ pc[h] = "insert"
    /\ m \in Message \ Stored
    /\ ~KeyTaken(req[h].key)
    /\ row' = [row EXCEPT ![m] = [key |-> req[h].key, body |-> req[h].body,
                                  day |-> today, handed |-> FALSE]]
    /\ answer' = [answer EXCEPT ![h] = m]
    /\ pc' = [pc EXCEPT ![h] = "idle"]
    /\ UNCHANGED <<req, found, optouts, today, day>>

\* The message made is stored as it was asked for.
LEMMA InsertedRow ==
    ASSUME TypeOK, Requested, NEW h \in Handler, NEW m \in Message, Inserts(h, m)
    PROVE  /\ m \in Stored' /\ m \notin Stored
           /\ row'[m].key = req[h].key /\ row'[m].body = req[h].body /\ row'[m].day = today
<1>1. [key |-> req[h].key, body |-> req[h].body, day |-> today, handed |-> FALSE]
        \in [key : Key, body : Body, day : Nat, handed : BOOLEAN]
  BY DEF Inserts, TypeOK, Requested, Request
<1> QED BY <1>1, AcceptAssumption DEF Inserts, TypeOK, Stored

\* Every step is one of these.
LEMMA StepCases ==
    ASSUME TypeOK, [Next]_vars
    PROVE  \/ \E h \in Handler : RequestStep(h) /\ Elsewhere
           \/ \E h \in Handler : \E m \in Message : Inserts(h, m)
           \/ \E m \in Message : HandOver(m)
           \/ UNCHANGED row /\ UNCHANGED requestVars /\ today' \in {today, today + 1}
<1>1. ASSUME NEW h \in Handler, RequestStep(h)
      PROVE  Elsewhere \/ \E m \in Message : Inserts(h, m)
  <2>1. CASE Insert(h)
    BY <2>1 DEF Insert, Inserts, Elsewhere, GoOn, At
  <2>2. CASE ~Insert(h)
    BY <1>1, <2>2 DEF RequestStep, Receive, Replay, AnswerFrom, Answer, CheckNumber, CheckOptout,
       ReadNow, CheckQuota, CheckMedia, Raced, Stop, GoOn, At, Elsewhere
  <2> QED BY <2>1, <2>2
<1>2. CASE \E n \in Number : AddOptout(n) \/ RemoveOptout(n)
  BY <1>2 DEF AddOptout, RemoveOptout
<1>3. CASE Midnight
  BY <1>3 DEF Midnight
<1> QED BY <1>1, <1>2, <1>3 DEF Next

\* A message handed to its worker keeps what it says.
LEMMA HandedRow ==
    ASSUME NEW r \in Row
    PROVE  LET handed == [r EXCEPT !.handed = TRUE]
           IN  /\ handed \in Row /\ handed.key = r.key
               /\ handed.body = r.body /\ handed.day = r.day
BY DEF Row

\* Rows are added and handed over, and otherwise stay as they are.
LEMMA RowsStay ==
    ASSUME TypeOK, [Next]_vars, NEW m \in Stored
    PROVE  /\ m \in Stored'
           /\ row'[m].key = row[m].key /\ row'[m].body = row[m].body
           /\ row'[m].day = row[m].day
<1> USE DEF TypeOK, Stored, Row
<1>1. CASE row' = row
  BY <1>1
<1>2. ASSUME NEW h \in Handler, NEW n \in Message, Inserts(h, n)
      PROVE  m \in Stored' /\ row'[m] = row[m]
  BY <1>2 DEF Inserts
<1>3. ASSUME NEW n \in Message, HandOver(n)
      PROVE  /\ m \in Stored' /\ row'[m].key = row[m].key /\ row'[m].body = row[m].body
             /\ row'[m].day = row[m].day
  <2>1. row'[m] = IF m = n THEN [row[n] EXCEPT !.handed = TRUE] ELSE row[m]
    BY <1>3 DEF HandOver
  <2>2. row[m] \in Row
    OBVIOUS
  <2>3. row'[m] \in Row /\ row'[m].key = row[m].key /\ row'[m].body = row[m].body /\ row'[m].day = row[m].day
    <3>1. CASE m = n
      BY <2>1, <2>2, <3>1, HandedRow
    <3>2. CASE m # n
      BY <2>1, <2>2, <3>2
    <3> QED BY <3>1, <3>2
  <2> QED BY <2>3, AcceptAssumption
<1> QED BY <1>1, <1>2, <1>3, StepCases DEF Elsewhere

\* A row that is not an insert's was there before.
LEMMA NewRows ==
    ASSUME TypeOK, [Next]_vars, NEW m \in Stored', m \notin Stored
    PROVE  \E h \in Handler : Inserts(h, m)
<1> USE DEF TypeOK, Stored
<1>1. ASSUME NEW n \in Message, HandOver(n) PROVE m \in Stored
  BY <1>1 DEF HandOver
<1>2. ASSUME NEW h \in Handler, NEW n \in Message, Inserts(h, n) PROVE m = n
  BY <1>2 DEF Inserts
<1> QED BY <1>1, <1>2, StepCases DEF Elsewhere

-----------------------------------------------------------------------------
(* Types, and what a request has established. *)

\* Every step keeps the types and what is known of requests.
LEMMA TypeStep == TypeOK /\ Requested /\ [Next]_vars => TypeOK' /\ Requested'
<1> SUFFICES ASSUME TypeOK, Requested, [Next]_vars PROVE TypeOK' /\ Requested'
  OBVIOUS
<1> USE DEF TypeOK, Requested, Pc, Code
<1>1. CASE UNCHANGED vars
  BY <1>1
<1>2. ASSUME NEW h \in Handler, NEW k \in Key, NEW b \in Body, Receive(h, k, b)
      PROVE  TypeOK' /\ Requested'
  <2>1. [key |-> k, body |-> b] \in Request
    BY DEF Request
  <2>2. TypeOK'
    BY <1>2, <2>1 DEF Receive, Stored
  <2>3. Requested'
    BY <1>2, <2>1 DEF Receive
  <2> QED BY <2>2, <2>3
<1>3. ASSUME NEW h \in Handler, Replay(h) PROVE TypeOK' /\ Requested'
  BY <1>3 DEF Replay, AnswerFrom, Answer, GoOn, At, Stored
<1>4. ASSUME NEW h \in Handler, CheckNumber(h) PROVE TypeOK' /\ Requested'
  BY <1>4 DEF CheckNumber, Answer, GoOn, At
<1>5. ASSUME NEW h \in Handler, CheckOptout(h) PROVE TypeOK' /\ Requested'
  BY <1>5 DEF CheckOptout, Answer, GoOn, At
<1>6. ASSUME NEW h \in Handler, ReadNow(h) PROVE TypeOK' /\ Requested'
  BY <1>6 DEF ReadNow, At
<1>7. ASSUME NEW h \in Handler, CheckQuota(h) PROVE TypeOK' /\ Requested'
  BY <1>7 DEF CheckQuota, At
<1>8. ASSUME NEW h \in Handler, CheckMedia(h) PROVE TypeOK' /\ Requested'
  BY <1>8 DEF CheckMedia, Answer, GoOn, At
<1>9. ASSUME NEW h \in Handler, Insert(h) PROVE TypeOK' /\ Requested'
  <2>1. CASE KeyTaken(req[h].key)
    BY <1>9, <2>1 DEF Insert, GoOn, At
  <2>2. ASSUME NEW m \in Message, Inserts(h, m) PROVE TypeOK' /\ Requested'
    <3>1. [key |-> req[h].key, body |-> req[h].body, day |-> today, handed |-> FALSE] \in Row
      BY <2>2 DEF Inserts, Row, Request
    <3> QED BY <2>2, <3>1 DEF Inserts
  <2> QED BY <1>9, <2>1, <2>2 DEF Insert, Inserts, At
<1>10. ASSUME NEW h \in Handler, Raced(h) PROVE TypeOK' /\ Requested'
  BY <1>10 DEF Raced, AnswerFrom, Answer, GoOn, At, Stored
<1>11. ASSUME NEW h \in Handler, Stop(h) PROVE TypeOK' /\ Requested'
  BY <1>11 DEF Stop, At
<1>12. ASSUME NEW n \in Number, AddOptout(n) \/ RemoveOptout(n) PROVE TypeOK' /\ Requested'
  BY <1>12 DEF AddOptout, RemoveOptout
<1>13. ASSUME NEW m \in Message, HandOver(m) PROVE TypeOK' /\ Requested'
  <2>1. [row[m] EXCEPT !.handed = TRUE] \in Row
    BY <1>13 DEF HandOver, Stored, Row
  <2> QED BY <1>13, <2>1 DEF HandOver
<1>14. CASE Midnight
  BY <1>14 DEF Midnight
<1> QED BY <1>1, <1>2, <1>3, <1>4, <1>5, <1>6, <1>7, <1>8, <1>9, <1>10, <1>11, <1>12, <1>13, <1>14
        DEF Next, RequestStep

\* Section 5.1, step 5: the unique key keeps one message of each key.
LEMMA UniqueStep == Base /\ [Next]_vars => OneMessagePerKey'
<1> SUFFICES ASSUME Base, [Next]_vars, NEW m \in Stored', NEW n \in Stored', row'[m].key = row'[n].key
             PROVE  m = n
  BY DEF OneMessagePerKey
<1> USE DEF Base
<1>1. CASE m \in Stored /\ n \in Stored
  BY <1>1, RowsStay DEF OneMessagePerKey
<1>2. ASSUME NEW a \in Stored', NEW b \in Stored', a \notin Stored, row'[a].key = row'[b].key
      PROVE  a = b
  <2>1. PICK h \in Handler : Inserts(h, a)
    BY <1>2, NewRows
  <2>2. row'[a].key = req[h].key
    BY <2>1 DEF Inserts, TypeOK
  <2>3. ASSUME b \in Stored PROVE FALSE
    BY <1>2, <2>1, <2>2, <2>3, RowsStay DEF Inserts
  <2>4. PICK g \in Handler : Inserts(g, b)
    BY <2>3, NewRows
  <2>5. row' = [row EXCEPT ![a] = row'[a]]
    BY <2>1 DEF Inserts, TypeOK
  <2> QED BY <2>4, <2>5 DEF Inserts, TypeOK, Stored
<1> QED BY <1>1, <1>2

\* Every step keeps Base.
LEMMA BaseStep == Base /\ [Next]_vars => Base'
  BY TypeStep, UniqueStep DEF Base

-----------------------------------------------------------------------------
(* The answers. *)

\* What a step does to the answer of a request.
LEMMA AnswerCases ==
    ASSUME TypeOK, [Next]_vars, NEW h \in Handler
    PROVE  \/ answer'[h] = answer[h] /\ req'[h] = req[h] /\ found'[h] = found[h]
              /\ (pc'[h] = pc[h] \/ pc[h] # "idle")
           \/ answer'[h] = NoAnswer /\ req'[h] \in Request /\ pc'[h] = "replay"
              /\ found'[h] = {m \in Stored : row[m].key = req'[h].key} /\ row' = row
           \/ /\ pc[h] \in {"replay", "raced"} /\ pc'[h] = "idle"
              /\ UNCHANGED <<row, req, found>>
              /\ \E m \in Stored : /\ row[m].key = req[h].key
                                   /\ answer'[h] = IF row[m].body = req[h].body THEN m ELSE "conflict"
           \/ /\ pc[h] \in {"number", "optout", "quota", "media"} /\ pc'[h] = "idle"
              /\ UNCHANGED <<row, req, found>>
              /\ answer'[h] \in {"denied", "optout", "quota_exceeded", "media_invalid"}
           \/ \E m \in Message : Inserts(h, m)
<1> USE DEF TypeOK
<1>1. ASSUME NEW g \in Handler, RequestStep(g), g # h
      PROVE  answer'[h] = answer[h] /\ req'[h] = req[h] /\ found'[h] = found[h] /\ pc'[h] = pc[h]
  BY <1>1 DEF RequestStep, Receive, Replay, AnswerFrom, Answer, CheckNumber, CheckOptout,
     ReadNow, CheckQuota, CheckMedia, Insert, Raced, Stop, GoOn, At
<1>2. ASSUME NEW k \in Key, NEW b \in Body, Receive(h, k, b)
      PROVE  /\ answer'[h] = NoAnswer /\ req'[h] \in Request /\ pc'[h] = "replay"
             /\ found'[h] = {m \in Stored : row[m].key = req'[h].key} /\ row' = row
  BY <1>2 DEF Receive, Request
<1>3. CASE Replay(h)
  BY <1>3 DEF Replay, AnswerFrom, Answer, GoOn, At
<1>4. CASE Raced(h)
  BY <1>4 DEF Raced, AnswerFrom, Answer, GoOn, At
<1>5. CASE CheckNumber(h) \/ CheckOptout(h) \/ ReadNow(h) \/ CheckQuota(h) \/ CheckMedia(h) \/ Stop(h)
  BY <1>5 DEF CheckNumber, CheckOptout, ReadNow, CheckQuota, CheckMedia, Stop, Answer, GoOn, At
<1>6. CASE Insert(h)
  BY <1>6 DEF Insert, Inserts, GoOn, At
<1>7. CASE (\E n \in Number : AddOptout(n) \/ RemoveOptout(n)) \/ (\E m \in Message : HandOver(m)) \/ Midnight
  BY <1>7 DEF AddOptout, RemoveOptout, HandOver, Midnight
<1> QED BY <1>1, <1>2, <1>3, <1>4, <1>5, <1>6, <1>7 DEF Next, RequestStep

\* Every step keeps the answers true.
LEMMA AnswersTrueStep == Base /\ AnswersTrue /\ [Next]_vars => AnswersTrue'
<1> SUFFICES ASSUME Base, AnswersTrue, [Next]_vars, NEW h \in Handler PROVE AnswerTrue(h)'
  BY DEF AnswersTrue
<1> USE ConstantTypes DEF Base, Code
<1>1. CASE answer'[h] = answer[h] /\ req'[h] = req[h]
  BY <1>1, RowsStay DEF AnswersTrue, AnswerTrue
<1>2. CASE answer'[h] = NoAnswer
  BY <1>2 DEF AnswerTrue
<1>3. ASSUME UNCHANGED <<row, req>>, NEW m \in Stored, row[m].key = req[h].key,
             answer'[h] = IF row[m].body = req[h].body THEN m ELSE "conflict"
      PROVE  AnswerTrue(h)'
  BY <1>3 DEF AnswerTrue, Stored
<1>4. CASE answer'[h] \in {"denied", "optout", "quota_exceeded", "media_invalid"}
  BY <1>4 DEF AnswerTrue
<1>5. ASSUME NEW m \in Message, Inserts(h, m)
      PROVE  AnswerTrue(h)'
  <2>1. answer'[h] = m /\ req' = req
    BY <1>5 DEF Inserts, TypeOK
  <2>2. m \in Stored' /\ row'[m].key = req[h].key /\ row'[m].body = req[h].body
    BY <1>5, InsertedRow
  <2> QED BY <2>1, <2>2 DEF AnswerTrue
<1> QED BY <1>1, <1>2, <1>3, <1>4, <1>5, AnswerCases

\* A request whose key was taken when it came is answered by findIdempotent.
LEMMA FoundStep == Base /\ Found /\ [Next]_vars => Found'
<1> SUFFICES ASSUME Base, Found, [Next]_vars, NEW h \in Handler
             PROVE  /\ \A m \in found'[h] :
                          m \in Stored' /\ req'[h] \in Request /\ row'[m].key = req'[h].key
                    /\ found'[h] # {} => pc'[h] \in {"idle", "replay"}
  BY DEF Found, FoundHolds, FoundFirst
<1> USE DEF Base
<1>1. CASE /\ answer'[h] = answer[h] /\ req'[h] = req[h] /\ found'[h] = found[h]
           /\ pc'[h] = pc[h] \/ pc[h] # "idle"
  <2>1. \A m \in found'[h] : m \in Stored' /\ req'[h] \in Request /\ row'[m].key = req'[h].key
    BY <1>1, RowsStay DEF Found, FoundHolds
  <2>2. CASE pc'[h] = pc[h]
    BY <1>1, <2>1, <2>2 DEF Found, FoundFirst
  <2>3. CASE pc[h] # "replay" /\ pc[h] # "idle"
    BY <1>1, <2>1, <2>3 DEF Found, FoundFirst
  <2>4. CASE pc[h] = "replay" /\ pc'[h] # "replay"
    <3>1. Holders(req[h].key) = {} \/ pc'[h] = "idle"
      BY <1>1, <2>4 DEF TypeOK, Next, RequestStep, Receive, Replay, AnswerFrom, Answer, CheckNumber,
         CheckOptout, ReadNow, CheckQuota, CheckMedia, Insert, Raced, Stop, GoOn, At, AddOptout,
         RemoveOptout, HandOver, Midnight
    <3>2. found[h] \subseteq Holders(req[h].key)
      BY DEF Found, FoundHolds
    <3> QED BY <1>1, <2>1, <3>1, <3>2
  <2> QED BY <1>1, <2>2, <2>3, <2>4
<1>2. CASE /\ answer'[h] = NoAnswer /\ req'[h] \in Request /\ pc'[h] = "replay"
           /\ found'[h] = {m \in Stored : row[m].key = req'[h].key} /\ row' = row
  BY <1>2 DEF Stored
<1>3. CASE pc'[h] = "idle" /\ UNCHANGED <<row, req, found>>
  BY <1>3 DEF Found, FoundHolds, Stored
<1>4. ASSUME NEW m \in Message, Inserts(h, m)
      PROVE  pc'[h] = "idle" /\ req' = req /\ found' = found
  BY <1>4 DEF Inserts, TypeOK
<1>5. CASE pc'[h] = "idle" /\ req' = req /\ found' = found
  BY <1>5, RowsStay DEF Found, FoundHolds
<1> QED BY <1>1, <1>2, <1>3, <1>4, <1>5, AnswerCases

\* The message that was there is the one that answers.
LEMMA RetryStep == Base /\ Found /\ RetryFindsIt /\ [Next]_vars => RetryFindsIt'
<1> SUFFICES ASSUME Base, Found, RetryFindsIt, [Next]_vars, NEW h \in Handler, found'[h] # {}
             PROVE  answer'[h] \in found'[h] \cup {NoAnswer, "conflict"}
  BY DEF RetryFindsIt
<1> USE DEF Base
<1>1. CASE answer'[h] = answer[h] /\ found'[h] = found[h]
  BY <1>1 DEF RetryFindsIt
<1>2. CASE answer'[h] = NoAnswer
  BY <1>2
<1>3. ASSUME UNCHANGED <<row, req, found>>, NEW m \in Stored, row[m].key = req[h].key,
             answer'[h] = IF row[m].body = req[h].body THEN m ELSE "conflict"
      PROVE  answer'[h] \in found'[h] \cup {NoAnswer, "conflict"}
  <2>1. PICK n \in found[h] : n \in Stored /\ row[n].key = req[h].key
    BY <1>3 DEF Found, FoundHolds
  <2>2. m = n
    BY <1>3, <2>1 DEF OneMessagePerKey
  <2> QED BY <1>3, <2>1, <2>2
<1>4. ASSUME pc[h] \in {"number", "optout", "quota", "media", "insert"}, found' = found PROVE FALSE
  BY <1>4 DEF Found, FoundFirst
<1>5. ASSUME NEW m \in Message, Inserts(h, m) PROVE pc[h] = "insert" /\ found' = found
  BY <1>5 DEF Inserts
<1> QED BY <1>1, <1>2, <1>3, <1>4, <1>5, AnswerCases

-----------------------------------------------------------------------------
(* The quota. *)

\* Every step keeps the counted days in the past.
LEMMA DaysPastStep == Base /\ DaysPast /\ [Next]_vars => DaysPast'
<1> SUFFICES ASSUME Base, DaysPast, [Next]_vars, NEW m \in Stored' PROVE row'[m].day <= today'
  BY DEF DaysPast
<1> USE DEF Base, TypeOK
<1>1. today' \in {today, today + 1}
  BY StepCases DEF Elsewhere, Inserts, HandOver
<1>2. CASE m \in Stored
  <2>1. row'[m].day = row[m].day /\ row[m].day <= today /\ row[m].day \in Nat
    BY <1>2, RowsStay DEF DaysPast, Stored, Row
  <2> QED BY <1>1, <2>1
<1>3. CASE m \notin Stored
  <2>1. PICK h \in Handler : Inserts(h, m)
    BY <1>3, NewRows
  <2>2. row'[m].day = today /\ today' = today
    BY <2>1, InsertedRow DEF Inserts, Stored
  <2> QED BY <2>2
<1> QED BY <1>2, <1>3

\* Sets of messages and of requests are finite, and have sizes.
LEMMA Finite ==
    ASSUME TypeOK
    PROVE  /\ \A S \in SUBSET Message : IsFiniteSet(S) /\ Cardinality(S) \in Nat
           /\ \A S \in SUBSET Handler : IsFiniteSet(S) /\ Cardinality(S) \in Nat
                                        /\ Cardinality(S) <= Cardinality(Handler)
           /\ \A d : AutomaticOn(d) \in SUBSET Message
           /\ Passed \in SUBSET Handler
<1>1. \A S \in SUBSET Message : IsFiniteSet(S) /\ Cardinality(S) \in Nat
  BY AcceptAssumption, FS_Subset, FS_CardinalityType
<1>2. \A S \in SUBSET Handler : /\ IsFiniteSet(S) /\ Cardinality(S) \in Nat
                                /\ Cardinality(S) <= Cardinality(Handler)
  BY AcceptAssumption, FS_Subset, FS_CardinalityType
<1> QED BY <1>1, <1>2 DEF AutomaticOn, Stored, Passed

\* No message of the day is added but by an insert.
LEMMA SameMessages ==
    ASSUME Base, [Next]_vars, today' = today, \A h \in Handler : \A m \in Message : ~Inserts(h, m)
    PROVE  AutomaticOn(today)' = AutomaticOn(today)
<1>1. Stored' = Stored
  BY RowsStay, NewRows DEF Base, Stored
<1> QED BY <1>1, RowsStay DEF Base, AutomaticOn

\* An insert makes one more message of a request that has passed, and it is done.
LEMMA RoomInsert ==
    ASSUME Base, QuotaRoom, [Next]_vars, NEW h \in Handler, NEW m \in Message, Inserts(h, m)
    PROVE  QuotaRoom'
<1> USE DEF Base
<1>1. /\ TypeOK' /\ today' = today
  BY TypeStep DEF Inserts
<1>2. Stored' = Stored \cup {m} /\ m \notin Stored
  <2>1. m \in Stored' /\ m \notin Stored
    BY InsertedRow
  <2>2. \A n \in Message \ {m} : row'[n] = row[n]
    BY DEF Inserts, TypeOK
  <2> QED BY <2>1, <2>2 DEF Stored
<1>3. AutomaticOn(today)' = IF Automatic(req[h].body) THEN AutomaticOn(today) \cup {m} ELSE AutomaticOn(today)
  BY <1>1, <1>2, RowsStay, InsertedRow, SMTT(30) DEF AutomaticOn
<1>4. Passed' = Passed \ {h}
  BY DEF Inserts, Passed, TypeOK
<1>5. Automatic(req[h].body) => h \in Passed
  BY DEF Passed, Inserts
<1>6. Cardinality(Passed') = IF h \in Passed THEN Cardinality(Passed) - 1 ELSE Cardinality(Passed)
  BY <1>4, Finite, FS_RemoveElement
<1>7. Cardinality(AutomaticOn(today)') <= IF h \in Passed THEN Cardinality(AutomaticOn(today)) + 1
                                                        ELSE Cardinality(AutomaticOn(today))
  <2>1. m \notin AutomaticOn(today)
    BY <1>2 DEF AutomaticOn
  <2>2. Cardinality(AutomaticOn(today) \cup {m}) = Cardinality(AutomaticOn(today)) + 1
    BY <2>1, Finite, FS_AddElement
  <2>3. Cardinality(AutomaticOn(today)) \in Nat
    BY Finite
  <2> QED BY <1>3, <1>5, <2>2, <2>3
<1>8. /\ Cardinality(AutomaticOn(today)) \in Nat /\ Cardinality(Passed) \in Nat
      /\ Cardinality(AutomaticOn(today)') \in Nat
      /\ Cardinality(Handler) \in Nat /\ Quota \in Nat
  <2>1. AutomaticOn(today)' \in SUBSET Message
    BY <1>1, Finite DEF AutomaticOn, Stored
  <2> QED BY <2>1, Finite, ConstantTypes
<1> QED BY <1>1, <1>6, <1>7, <1>8 DEF QuotaRoom

\* The check leaves room for every request under way.
LEMMA RoomCheck ==
    ASSUME Base, [Next]_vars, NEW h \in Handler, CheckQuota(h), ~QuotaUsedUp(h)
    PROVE  QuotaRoom'
<1> USE DEF Base
<1>1. /\ TypeOK' /\ today' = today /\ AutomaticOn(today)' = AutomaticOn(today)
  BY TypeStep DEF CheckQuota, AutomaticOn, Stored
<1> DEFINE Counted == {m \in Stored : row[m].day >= day[h]}
<1>2. AutomaticOn(today) \subseteq Counted
  BY DEF CheckQuota, At, Requested, AutomaticOn, TypeOK
<1>3. Counted \in SUBSET Message
  BY DEF Stored
<1>4. Cardinality(AutomaticOn(today)) <= Cardinality(Counted)
  <2> HIDE DEF Counted
  <2> QED BY <1>2, <1>3, Finite, FS_Subset
<1>5. Cardinality(Counted) < Quota /\ Cardinality(Counted) \in Nat
  BY <1>3, Finite, ConstantTypes DEF Used
<1>6. Cardinality(Passed') <= Cardinality(Handler) /\ Cardinality(Passed') \in Nat
  <2>1. Passed' \in SUBSET Handler
    BY DEF Passed
  <2> QED BY <2>1, Finite
<1>7. Cardinality(AutomaticOn(today)) \in Nat
  BY Finite
<1> HIDE DEF Counted
<1> QED BY <1>1, <1>4, <1>5, <1>6, <1>7, ConstantTypes DEF QuotaRoom

\* Any other request step passes nobody.
LEMMA RoomKeeps ==
    ASSUME Base, QuotaRoom, [Next]_vars, today' = today, Passed' \subseteq Passed,
           \A h \in Handler : \A m \in Message : ~Inserts(h, m)
    PROVE  QuotaRoom'
<1>1. AutomaticOn(today)' = AutomaticOn(today)
  BY SameMessages
<1>2. Cardinality(Passed') <= Cardinality(Passed) /\ Cardinality(Passed') \in Nat /\ Cardinality(Passed) \in Nat
  BY Finite, FS_Subset, FS_CardinalityType DEF Base
<1>3. Cardinality(AutomaticOn(today)) \in Nat
  BY Finite DEF Base
<1> QED BY <1>1, <1>2, <1>3, ConstantTypes DEF QuotaRoom

\* A new day has its whole quota left.
LEMMA RoomMidnight ==
    ASSUME Base, DaysPast, today' = today + 1, UNCHANGED <<row, pc, req>>
    PROVE  QuotaRoom'
<1>1. AutomaticOn(today)' = {}
  BY DEF AutomaticOn, DaysPast, Base, TypeOK, Stored, Row
<1>2. Passed' = Passed
  BY DEF Passed
<1>3. Cardinality({}) = 0
  BY FS_EmptySet
<1> QED BY <1>1, <1>2, <1>3, Finite, ConstantTypes DEF QuotaRoom, Base

\* Every step keeps the quota within what the requests under way may overshoot.
LEMMA RoomStep == Base /\ DaysPast /\ QuotaRoom /\ [Next]_vars => QuotaRoom'
<1> SUFFICES ASSUME Base, DaysPast, QuotaRoom, [Next]_vars PROVE QuotaRoom'
  OBVIOUS
<1> USE DEF Base
<1>1. CASE \E h \in Handler : \E m \in Message : Inserts(h, m)
  BY <1>1, RoomInsert
<1> DEFINE NoInsert == \A h \in Handler : \A m \in Message : ~Inserts(h, m)
<1>2. ASSUME NoInsert, NEW h \in Handler, RequestStep(h), Elsewhere PROVE QuotaRoom'
  <2>1. CASE CheckQuota(h) /\ ~QuotaUsedUp(h)
    BY <2>1, RoomCheck
  <2>2. ASSUME ~(CheckQuota(h) /\ ~QuotaUsedUp(h)) PROVE Passed' \subseteq Passed
    <3> SUFFICES ASSUME NEW g \in Handler, g \in Passed' PROVE g \in Passed
      BY DEF Passed
    <3>1. CASE g # h
      BY <1>2, <3>1 DEF Passed, TypeOK, RequestStep, Receive, Replay, AnswerFrom, Answer, CheckNumber,
         CheckOptout, ReadNow, CheckQuota, CheckMedia, Insert, Raced, Stop, GoOn, At
    <3>2. CASE g = h
      <4>1. pc'[h] \in {"media", "insert"} /\ Automatic(req'[h].body)
        BY <3>2 DEF Passed
      <4>2. pc[h] \in {"media", "insert"} /\ req'[h] = req[h]
        BY <1>2, <2>2, <4>1 DEF TypeOK, RequestStep, Receive, Replay, AnswerFrom, Answer, CheckNumber,
           CheckOptout, ReadNow, CheckQuota, CheckMedia, Insert, Raced, Stop, GoOn, At
      <4> QED BY <3>2, <4>1, <4>2 DEF Passed
    <3> QED BY <3>1, <3>2
  <2>3. today' = today
    BY <1>2 DEF Elsewhere
  <2> QED BY <1>2, <2>1, <2>2, <2>3, RoomKeeps
<1>3. ASSUME NoInsert, NEW m \in Message, HandOver(m) PROVE QuotaRoom'
  <2>1. Passed' = Passed /\ today' = today
    BY <1>3 DEF HandOver, Passed
  <2> QED BY <1>3, <2>1, RoomKeeps
<1>4. CASE NoInsert /\ UNCHANGED row /\ UNCHANGED requestVars /\ today' = today
  <2>1. Passed' = Passed
    BY <1>4 DEF Passed
  <2> QED BY <1>4, <2>1, RoomKeeps
<1>5. CASE UNCHANGED row /\ UNCHANGED requestVars /\ today' = today + 1
  BY <1>5, RoomMidnight
<1> QED BY <1>1, <1>2, <1>3, <1>4, <1>5, StepCases

-----------------------------------------------------------------------------

\* The invariant holds at first.
LEMMA InitInv == Init => IInv
<1> SUFFICES ASSUME Init PROVE IInv
  OBVIOUS
<1>1. Base
  BY TypeInit
<1>2. AnswersTrue /\ Found /\ RetryFindsIt /\ DaysPast
  BY AcceptAssumption
     DEF Init, AnswersTrue, AnswerTrue, Found, FoundHolds, FoundFirst, RetryFindsIt, DaysPast, Stored, Code
<1>3. AutomaticOn(today) = {} /\ Passed = {}
  BY DEF Init, AutomaticOn, Passed, Stored
<1>4. QuotaRoom
  BY <1>3, ConstantTypes, FS_EmptySet DEF QuotaRoom
<1> QED BY <1>1, <1>2, <1>4 DEF IInv

\* Every step keeps the invariant.
LEMMA StepInv == IInv /\ [Next]_vars => IInv'
  BY BaseStep, AnswersTrueStep, FoundStep, RetryStep, DaysPastStep, RoomStep DEF IInv

\* The invariant holds in every state.
LEMMA Invariance == Spec => []IInv
  BY InitInv, StepInv, PTL DEF Spec

\* Every variable of the acceptance keeps its type.
THEOREM AcceptTypeCorrect == Spec => []TypeOK
  BY Invariance, PTL DEF IInv, Base

\* Races, retries and stops never make a second message of one key.
THEOREM AcceptedOnce == Spec => []OneMessagePerKey
  BY Invariance, PTL DEF IInv, Base

\* An answer names a message that is exactly what was asked, and 409 a key that
\* another request has used.
THEOREM AnswersAreTrue == Spec => []AnswersTrue
  BY Invariance, PTL DEF IInv

\* A retry that comes after its message was accepted is never refused.
THEOREM RetriesFindTheirMessage == Spec => []RetryFindsIt
  BY Invariance, PTL DEF IInv

\* The invariant bounds the overshoot of the quota.
LEMMA RoomBounds == IInv => QuotaOvershoot
  BY Finite, ConstantTypes DEF IInv, Base, QuotaRoom, QuotaOvershoot

\* A day's automatic messages exceed the quota by less than the number of
\* requests under way at a time.
THEOREM OvershootBounded == Spec => []QuotaOvershoot
  BY Invariance, RoomBounds, PTL
=============================================================================
