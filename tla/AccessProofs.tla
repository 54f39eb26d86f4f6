---------------------------- MODULE AccessProofs ----------------------------
(***************************************************************************)
(* Theorems about access: the offboarding of a member of the staff         *)
(* (StaffAccess), the sessions of SQ Hub and the account tokens they hold  *)
(* (HubSessions), the codes that prove a number (OtpCodes), and the        *)
(* devices that skip the OTP (TrustedDevices).                             *)
(***************************************************************************)
EXTENDS StaffAccess, HubSessions, OtpCodes, TrustedDevices, WellFoundedInduction, TLAPS

-----------------------------------------------------------------------------
(* The offboarding of a member of the staff. *)

\* While h has the lock it is in its offboarding, and from its begin on the
\* operation is not completed.
Held == \A h \in Handler :
    lock = h => pc[h] \in Running /\ (pc[h] # "begin" => operation # "COMPLETED")

\* What the final verification of h has read and is active now, was given after
\* it began.
ReadBack(h) ==
    pc[h] \in {"check", "finish"} /\ ~failed[h] =>
        \A r \in Resource \ todo[h] : state[r] = "active" => r \in since[h]

\* Without a failed step the final verification has read everything.
AllRead(h) == pc[h] = "finish" /\ ~failed[h] => todo[h] = {}

\* What holds of a final verification under way.
Verified == \A h \in Handler : ReadBack(h) /\ AllRead(h)

\* The inductive invariant of the offboarding.
AccessInv == TypeOK /\ Held /\ Verified

-----------------------------------------------------------------------------
(* Types. *)

\* The initial states are of the right type.
LEMMA InitType == Init => TypeOK
BY AccessAssumption DEF Init, TypeOK, State, Path, Pc, Running

\* A request that ends keeps its variables' types.
LEMMA EndType ==
    ASSUME TypeOK, NEW h \in Handler, End(h)
    PROVE  /\ pc' \in [Handler -> Pc]
           /\ row' \in [Handler -> Nat]
           /\ todo' \in [Handler -> SUBSET Resource]
           /\ failed' \in [Handler -> BOOLEAN]
           /\ since' \in [Handler -> SUBSET Resource]
BY DEF End, Goto, TypeOK, Pc, Running

\* A step that records its outcome keeps its variables' types.
LEMMA RecordType ==
    ASSUME TypeOK, NEW h \in Handler, NEW r \in Resource, NEW ok \in BOOLEAN, Record(h, r, ok)
    PROVE  /\ pc' \in [Handler -> Pc]
           /\ todo' \in [Handler -> SUBSET Resource]
           /\ failed' \in [Handler -> BOOLEAN]
BY DEF Record, Goto, TypeOK, Pc, Running

\* A request's own step keeps the types.
LEMMA HandlerType ==
    ASSUME TypeOK, NEW h \in Handler, HandlerStep(h)
    PROVE  TypeOK'
<1> USE AccessAssumption DEF State, Path, personVars
<1>0. Hcis \in Resource
  BY DEF Resource
<1>1. CASE Throw(h)
  BY <1>1, EndType DEF Throw, Unlocked, TypeOK
<1>2. CASE InspectForEnd(h)
  BY <1>2 DEF InspectForEnd, Goto, TypeOK, Pc, Running, requestVars
<1>3. CASE EndRow(h)
  BY <1>3, EndType DEF EndRow, TypeOK
<1>4. CASE ReadForInvite(h)
  <2>1. CASE state[Hcis] = "none"
    BY <1>4, <2>1 DEF ReadForInvite, Goto, TypeOK, Pc, Running, requestVars
  <2>2. CASE state[Hcis] # "none"
    BY <1>4, <2>2, EndType DEF ReadForInvite, TypeOK
  <2> QED
    BY <2>1, <2>2
<1>5. CASE GrantForInvite(h)
  BY <1>5, <1>0 DEF GrantForInvite, GivenTo, Goto, TypeOK, Pc, Running, requestVars
<1>6. CASE TryLock(h)
  <2>1. CASE lock = NoHandler
    BY <1>6, <2>1, SMTT(30) DEF TryLock, Goto, TypeOK, Pc, Running, requestVars
  <2>2. CASE lock # NoHandler
    BY <1>6, <2>2, EndType DEF TryLock, TypeOK
  <2> QED
    BY <2>1, <2>2
<1>7. CASE Begin(h)
  BY <1>7 DEF Begin, Goto, TypeOK, Pc, Running, requestVars
<1>8. CASE List(h)
  <2>1. todo' \in [Handler -> SUBSET Resource] /\ failed' \in [Handler -> BOOLEAN]
    <3>1. CASE todo' = [todo EXCEPT ![h] = Resource] /\ UNCHANGED failed
      BY <3>1 DEF TypeOK
    <3>2. CASE todo' = [todo EXCEPT ![h] = Resource \ App] /\ failed' = [failed EXCEPT ![h] = TRUE]
      BY <3>2 DEF TypeOK
    <3> QED BY <1>8, <3>1, <3>2 DEF List
  <2>2. pc' \in [Handler -> Pc]
    BY <1>8 DEF List, Goto, TypeOK, Pc, Running
  <2> QED
    BY <1>8, <2>1, <2>2 DEF List, TypeOK
<1>9. ASSUME NEW r \in Resource, ReadResource(h, r)
      PROVE  TypeOK'
  <2>1. ASSUME NEW ok \in BOOLEAN, Record(h, r, ok), UNCHANGED row
        PROVE  TypeOK'
    BY <1>9, <2>1, RecordType DEF ReadResource, TypeOK
  <2>2. ASSUME Goto(h, "revoke") \/ Goto(h, "verify"), UNCHANGED <<todo, failed>>,
               row' = row \/ row' = [row EXCEPT ![h] = IF r = "organ" THEN term ELSE 0]
        PROVE  TypeOK'
    BY <1>9, <2>2 DEF ReadResource, Goto, TypeOK, Pc, Running, requestVars
  <2> QED
    BY <1>9, <2>1, <2>2 DEF ReadResource
<1>10. ASSUME NEW r \in Resource, RevokeResource(h, r)
       PROVE  TypeOK'
  <2>1. state' \in [Resource -> State] /\ row' \in [Handler -> Nat]
    BY <1>10 DEF RevokeResource, TypeOK
  <2>2. CASE Record(h, r, FALSE)
    BY <1>10, <2>1, <2>2, RecordType DEF RevokeResource, TypeOK
  <2>3. CASE Goto(h, "verify") /\ UNCHANGED <<todo, failed>>
    BY <1>10, <2>1, <2>3 DEF RevokeResource, Goto, TypeOK, Pc, Running, requestVars
  <2> QED
    BY <1>10, <2>2, <2>3 DEF RevokeResource
<1>11. ASSUME NEW r \in Resource, VerifyResource(h, r)
       PROVE  TypeOK'
  BY <1>11, RecordType DEF VerifyResource, TypeOK
<1>12. ASSUME NEW r \in Resource, CheckResource(h, r)
       PROVE  TypeOK'
  BY <1>12 DEF CheckResource, TypeOK
<1>13. CASE StartCheck(h)
  BY <1>13 DEF StartCheck, Goto, TypeOK, Pc, Running, requestVars
<1>14. CASE CheckFails(h)
  BY <1>14 DEF CheckFails, Goto, TypeOK, Pc, Running, requestVars
<1>15. CASE CheckHolds(h)
  BY <1>15 DEF CheckHolds, Goto, TypeOK, Pc, Running, requestVars
<1>16. CASE Finish(h)
  BY <1>16, EndType DEF Finish, Unlocked, Outcome, TypeOK
<1> QED
  BY <1>1, <1>2, <1>3, <1>4, <1>5, <1>6, <1>7, <1>8, <1>9, <1>10, <1>11,
     <1>12, <1>13, <1>14, <1>15, <1>16 DEF HandlerStep

\* Every step keeps the types.
LEMMA NextType == TypeOK /\ [Next]_vars => TypeOK'
<1> SUFFICES ASSUME TypeOK, [Next]_vars
             PROVE  TypeOK'
  OBVIOUS
<1> USE AccessAssumption DEF State, Path, Pc, Running, personVars, requestVars
<1>1. ASSUME NEW h \in Handler, HandlerStep(h)
      PROVE  TypeOK'
  BY <1>1, HandlerType
<1>2. ASSUME NEW h \in Handler, Offboard(h) \/ EndMembership(h) \/ Invite(h)
      PROVE  TypeOK'
  BY <1>2 DEF Offboard, EndMembership, Invite, Ask, Goto, TypeOK
<1>3. ASSUME NEW h \in Handler, LoseSession(h)
      PROVE  TypeOK'
  BY <1>3 DEF LoseSession, TypeOK
<1>4. ASSUME NEW r \in Resource, Give(r)
      PROVE  TypeOK'
  BY <1>4 DEF Give, GivenTo, TypeOK
<1>5. ASSUME NEW r \in Resource, Take(r)
      PROVE  TypeOK'
  BY <1>5 DEF Take, TypeOK
<1>6. CASE LinkEmployee \/ MarkExistingStaff
  BY <1>6 DEF LinkEmployee, MarkExistingStaff, TypeOK
<1>7. CASE UNCHANGED vars
  BY <1>7 DEF vars, TypeOK
<1> QED
  BY <1>1, <1>2, <1>3, <1>4, <1>5, <1>6, <1>7 DEF Next

-----------------------------------------------------------------------------
(* The lock. *)

\* Only the lock, the requests and the operation matter to Held.
LEMMA HeldStutter ==
    ASSUME Held, UNCHANGED <<lock, pc, operation>>
    PROVE  Held'
BY DEF Held

\* A request's own step leaves the lock to it or to who had it.
LEMMA HandlerHeld ==
    ASSUME TypeOK, Held, NEW h \in Handler, HandlerStep(h)
    PROVE  Held'
<1> USE AccessAssumption DEF TypeOK, Held, Running, personVars, requestVars
<1>1. CASE Throw(h)
  BY <1>1 DEF Throw, End, Goto, Unlocked
<1>2. CASE InspectForEnd(h)
  BY <1>2 DEF InspectForEnd, Goto
<1>3. CASE EndRow(h)
  BY <1>3 DEF EndRow, End, Goto
<1>4. CASE ReadForInvite(h)
  BY <1>4 DEF ReadForInvite, End, Goto
<1>5. CASE GrantForInvite(h)
  BY <1>5 DEF GrantForInvite, Goto
<1>6. CASE TryLock(h)
  BY <1>6 DEF TryLock, End, Goto
<1>7. CASE Begin(h)
  BY <1>7 DEF Begin, Goto, CanWrite
<1>8. CASE List(h)
  BY <1>8 DEF List, Goto
<1>9. ASSUME NEW r \in Resource, ReadResource(h, r)
      PROVE  Held'
  BY <1>9 DEF ReadResource, Record, Goto
<1>10. ASSUME NEW r \in Resource, RevokeResource(h, r)
       PROVE  Held'
  BY <1>10 DEF RevokeResource, Record, Goto
<1>11. ASSUME NEW r \in Resource, VerifyResource(h, r)
       PROVE  Held'
  BY <1>11 DEF VerifyResource, Record, Goto
<1>12. ASSUME NEW r \in Resource, CheckResource(h, r)
       PROVE  Held'
  BY <1>12 DEF CheckResource
<1>13. CASE StartCheck(h)
  BY <1>13 DEF StartCheck, Goto
<1>14. CASE CheckFails(h)
  BY <1>14 DEF CheckFails, Goto
<1>15. CASE CheckHolds(h)
  BY <1>15 DEF CheckHolds, Goto
<1>16. CASE Finish(h)
  BY <1>16 DEF Finish, End, Goto, Unlocked, CanWrite
<1> QED
  BY <1>1, <1>2, <1>3, <1>4, <1>5, <1>6, <1>7, <1>8, <1>9, <1>10, <1>11,
     <1>12, <1>13, <1>14, <1>15, <1>16 DEF HandlerStep

\* Every step keeps Held.
LEMMA NextHeld == TypeOK /\ Held /\ [Next]_vars => Held'
<1> SUFFICES ASSUME TypeOK, Held, [Next]_vars
             PROVE  Held'
  OBVIOUS
<1> USE DEF personVars, requestVars
<1>1. ASSUME NEW h \in Handler, HandlerStep(h)
      PROVE  Held'
  BY <1>1, HandlerHeld
<1>2. ASSUME NEW h \in Handler, Offboard(h) \/ EndMembership(h) \/ Invite(h)
      PROVE  Held'
  BY <1>2 DEF Offboard, EndMembership, Invite, Ask, Goto, TypeOK, Held, Running
<1>3. ASSUME NEW h \in Handler, LoseSession(h)
      PROVE  Held'
  BY <1>3, AccessAssumption DEF LoseSession, Held
<1>4. ASSUME NEW r \in Resource, Give(r) \/ Take(r)
      PROVE  Held'
  BY <1>4, HeldStutter DEF Give, Take
<1>5. CASE LinkEmployee \/ MarkExistingStaff
  BY <1>5, HeldStutter DEF LinkEmployee, MarkExistingStaff
<1>6. CASE UNCHANGED vars
  BY <1>6, HeldStutter DEF vars
<1> QED
  BY <1>1, <1>2, <1>3, <1>4, <1>5, <1>6 DEF Next

-----------------------------------------------------------------------------
(* The final verification. *)

\* What was read stays accounted for while nothing becomes active that is not
\* recorded as given.
LEMMA VerifiedKept ==
    ASSUME TypeOK, NEW g \in Handler, ReadBack(g), AllRead(g),
           pc'[g] = pc[g], failed'[g] = failed[g], todo'[g] = todo[g],
           since[g] \subseteq since'[g],
           \A r \in Resource : state'[r] = "active" =>
              state[r] = "active" \/ (pc[g] \in {"check", "finish"} => r \in since'[g])
    PROVE  ReadBack(g)' /\ AllRead(g)'
BY DEF ReadBack, AllRead

\* A request that is not in its final verification has nothing to account for.
LEMMA VerifiedVacuous ==
    ASSUME NEW g \in Handler, pc'[g] \notin {"check", "finish"}
    PROVE  ReadBack(g)' /\ AllRead(g)'
BY DEF ReadBack, AllRead

\* What a step gives is recorded with every final verification under way.
LEMMA GivenRecorded ==
    ASSUME NEW r \in Resource, NEW g \in Handler, TypeOK
    PROVE  /\ since[g] \subseteq GivenTo(r)[g]
           /\ pc[g] \in {"check", "finish"} => r \in GivenTo(r)[g]
BY DEF GivenTo, TypeOK

\* A request's own step keeps what was read, read.
LEMMA HandlerVerified ==
    ASSUME TypeOK, Verified, NEW h \in Handler, HandlerStep(h)
    PROVE  Verified'
<1> SUFFICES ASSUME NEW g \in Handler
             PROVE  ReadBack(g)' /\ AllRead(g)'
  BY DEF Verified
<1> USE DEF personVars, requestVars
<1>g. ReadBack(g) /\ AllRead(g)
  BY DEF Verified
<1>1. CASE Throw(h)
  <2>1. CASE g = h
    BY <1>1, <2>1, VerifiedVacuous DEF Throw, End, Goto, TypeOK
  <2>2. CASE g # h
    BY <1>1, <2>2, <1>g, VerifiedKept DEF Throw, End, Goto, TypeOK
  <2> QED
    BY <2>1, <2>2
<1>2. CASE InspectForEnd(h)
  <2>1. CASE g = h
    BY <1>2, <2>1, VerifiedVacuous DEF InspectForEnd, Goto, TypeOK
  <2>2. CASE g # h
    BY <1>2, <2>2, <1>g, VerifiedKept DEF InspectForEnd, Goto, TypeOK
  <2> QED
    BY <2>1, <2>2
<1>3. CASE EndRow(h)
  <2>1. CASE g = h
    BY <1>3, <2>1, VerifiedVacuous DEF EndRow, End, Goto, TypeOK
  <2>2. CASE g # h
    BY <1>3, <2>2, <1>g, VerifiedKept DEF EndRow, End, Goto, TypeOK
  <2> QED
    BY <2>1, <2>2
<1>4. CASE ReadForInvite(h)
  <2>1. CASE g = h
    BY <1>4, <2>1, VerifiedVacuous DEF ReadForInvite, End, Goto, TypeOK
  <2>2. CASE g # h
    BY <1>4, <2>2, <1>g, VerifiedKept DEF ReadForInvite, End, Goto, TypeOK
  <2> QED
    BY <2>1, <2>2
<1>5. CASE GrantForInvite(h)
  <2>0. Hcis \in Resource
    BY AccessAssumption DEF Resource
  <2>1. CASE g = h
    BY <1>5, <2>1, VerifiedVacuous DEF GrantForInvite, Goto, TypeOK
  <2>2. CASE g # h
    <3>1. since'[g] = GivenTo(Hcis)[g]
      BY <1>5, <2>2 DEF GrantForInvite, GivenTo
    <3>2. \A r \in Resource : r # Hcis => state'[r] = state[r]
      BY <1>5 DEF GrantForInvite, TypeOK
    <3>3. pc'[g] = pc[g] /\ failed'[g] = failed[g] /\ todo'[g] = todo[g]
      BY <1>5, <2>2 DEF GrantForInvite, Goto, TypeOK
    <3> QED
      BY <2>0, <3>1, <3>2, <3>3, <1>g, VerifiedKept, GivenRecorded
  <2> QED
    BY <2>1, <2>2
<1>6. CASE TryLock(h)
  <2>1. CASE g = h
    BY <1>6, <2>1, VerifiedVacuous DEF TryLock, End, Goto, TypeOK
  <2>2. CASE g # h
    BY <1>6, <2>2, <1>g, VerifiedKept DEF TryLock, End, Goto, TypeOK
  <2> QED
    BY <2>1, <2>2
<1>7. CASE Begin(h) \/ List(h)
  <2>1. CASE g = h
    BY <1>7, <2>1, VerifiedVacuous DEF Begin, List, Goto, TypeOK
  <2>2. CASE g # h
    BY <1>7, <2>2, <1>g, VerifiedKept DEF Begin, List, Goto, TypeOK
  <2> QED
    BY <2>1, <2>2
<1>8. ASSUME NEW r \in Resource, ReadResource(h, r)
      PROVE  ReadBack(g)' /\ AllRead(g)'
  <2>1. CASE g = h
    BY <1>8, <2>1, VerifiedVacuous DEF ReadResource, Record, Goto, TypeOK
  <2>2. CASE g # h
    <3>1. pc'[g] = pc[g] /\ failed'[g] = failed[g] /\ todo'[g] = todo[g]
      BY <1>8, <2>2 DEF ReadResource, Record, Goto, TypeOK
    <3> QED
      BY <1>8, <3>1, <1>g, VerifiedKept DEF ReadResource
  <2> QED
    BY <2>1, <2>2
<1>9. ASSUME NEW r \in Resource, RevokeResource(h, r)
      PROVE  ReadBack(g)' /\ AllRead(g)'
  <2>1. CASE g = h
    BY <1>9, <2>1, VerifiedVacuous DEF RevokeResource, Record, Goto, TypeOK
  <2>2. CASE g # h
    <3>1. pc'[g] = pc[g] /\ failed'[g] = failed[g] /\ todo'[g] = todo[g]
      BY <1>9, <2>2 DEF RevokeResource, Record, Goto, TypeOK
    <3>2. \A q \in Resource : state'[q] = "active" => state[q] = "active"
      BY <1>9 DEF RevokeResource, TypeOK
    <3> QED
      BY <1>9, <3>1, <3>2, <1>g, VerifiedKept DEF RevokeResource
  <2> QED
    BY <2>1, <2>2
<1>10. ASSUME NEW r \in Resource, VerifyResource(h, r)
       PROVE  ReadBack(g)' /\ AllRead(g)'
  <2>1. CASE g = h
    BY <1>10, <2>1, VerifiedVacuous DEF VerifyResource, Record, Goto, TypeOK
  <2>2. CASE g # h
    BY <1>10, <2>2, <1>g, VerifiedKept DEF VerifyResource, Record, Goto, TypeOK
  <2> QED
    BY <2>1, <2>2
<1>11. ASSUME NEW r \in Resource, CheckResource(h, r)
       PROVE  ReadBack(g)' /\ AllRead(g)'
  <2>1. CASE g = h
    <3>1. /\ pc' = pc /\ failed' = failed /\ since' = since /\ state' = state
          /\ todo'[h] = todo[h] \ {r} /\ state[r] # "active" /\ pc[h] = "check"
      BY <1>11 DEF CheckResource, StillActive, TypeOK
    <3> QED
      BY <3>1, <2>1, <1>g DEF ReadBack, AllRead
  <2>2. CASE g # h
    BY <1>11, <2>2, <1>g, VerifiedKept DEF CheckResource, TypeOK
  <2> QED
    BY <2>1, <2>2
<1>12. CASE StartCheck(h)
  <2>1. CASE g = h
    BY <1>12, <2>1 DEF StartCheck, Goto, TypeOK, ReadBack, AllRead
  <2>2. CASE g # h
    BY <1>12, <2>2, <1>g, VerifiedKept DEF StartCheck, Goto, TypeOK
  <2> QED
    BY <2>1, <2>2
<1>13. CASE CheckFails(h)
  <2>1. CASE g = h
    BY <1>13, <2>1 DEF CheckFails, TypeOK, ReadBack, AllRead
  <2>2. CASE g # h
    BY <1>13, <2>2, <1>g, VerifiedKept DEF CheckFails, Goto, TypeOK
  <2> QED
    BY <2>1, <2>2
<1>14. CASE CheckHolds(h)
  <2>1. CASE g = h
    BY <1>14, <2>1, <1>g DEF CheckHolds, Goto, TypeOK, ReadBack, AllRead
  <2>2. CASE g # h
    BY <1>14, <2>2, <1>g, VerifiedKept DEF CheckHolds, Goto, TypeOK
  <2> QED
    BY <2>1, <2>2
<1>15. CASE Finish(h)
  <2>1. CASE g = h
    BY <1>15, <2>1, VerifiedVacuous DEF Finish, End, Goto, TypeOK
  <2>2. CASE g # h
    BY <1>15, <2>2, <1>g, VerifiedKept DEF Finish, End, Goto, TypeOK
  <2> QED
    BY <2>1, <2>2
<1> QED
  BY <1>1, <1>2, <1>3, <1>4, <1>5, <1>6, <1>7, <1>8, <1>9, <1>10, <1>11,
     <1>12, <1>13, <1>14, <1>15 DEF HandlerStep

\* Every step keeps what was read, read.
LEMMA NextVerified == TypeOK /\ Verified /\ [Next]_vars => Verified'
<1> SUFFICES ASSUME TypeOK, Verified, [Next]_vars
             PROVE  Verified'
  OBVIOUS
<1> USE DEF personVars, requestVars
<1>1. ASSUME NEW h \in Handler, HandlerStep(h)
      PROVE  Verified'
  BY <1>1, HandlerVerified
<1>2. ASSUME NEW h \in Handler, Offboard(h) \/ EndMembership(h) \/ Invite(h)
      PROVE  Verified'
  <2> SUFFICES ASSUME NEW g \in Handler
               PROVE  ReadBack(g)' /\ AllRead(g)'
    BY DEF Verified
  <2>1. CASE g = h
    BY <1>2, <2>1, VerifiedVacuous DEF Offboard, EndMembership, Invite, Ask, Goto, TypeOK
  <2>2. CASE g # h
    BY <1>2, <2>2, VerifiedKept DEF Offboard, EndMembership, Invite, Ask, Goto, TypeOK, Verified
  <2> QED
    BY <2>1, <2>2
<1>3. ASSUME NEW h \in Handler, LoseSession(h)
      PROVE  Verified'
  BY <1>3 DEF LoseSession, Verified, ReadBack, AllRead
<1>4. ASSUME NEW r \in Resource, Give(r)
      PROVE  Verified'
  <2> SUFFICES ASSUME NEW g \in Handler
               PROVE  ReadBack(g)' /\ AllRead(g)'
    BY DEF Verified
  <2>1. since'[g] = GivenTo(r)[g] /\ \A q \in Resource : q # r => state'[q] = state[q]
    BY <1>4 DEF Give, TypeOK
  <2> QED
    BY <1>4, <2>1, VerifiedKept, GivenRecorded DEF Give, Verified
<1>5. ASSUME NEW r \in Resource, Take(r)
      PROVE  Verified'
  <2> SUFFICES ASSUME NEW g \in Handler
               PROVE  ReadBack(g)' /\ AllRead(g)'
    BY DEF Verified
  <2>1. \A q \in Resource : state'[q] = "active" => state[q] = "active"
    BY <1>5 DEF Take, TypeOK
  <2> QED
    BY <1>5, <2>1, VerifiedKept DEF Take, Verified
<1>6. CASE LinkEmployee \/ MarkExistingStaff
  BY <1>6 DEF LinkEmployee, MarkExistingStaff, Verified, ReadBack, AllRead
<1>7. CASE UNCHANGED vars
  BY <1>7 DEF vars, Verified, ReadBack, AllRead
<1> QED
  BY <1>1, <1>2, <1>3, <1>4, <1>5, <1>6, <1>7 DEF Next

-----------------------------------------------------------------------------
(* The theorems. *)

\* AccessInv holds in every state.
LEMMA Invariance == Spec => []AccessInv
<1>1. Init => AccessInv
  <2>1. Init => Held /\ Verified
    BY AccessAssumption DEF Init, Held, Verified, ReadBack, AllRead
  <2> QED
    BY <2>1, InitType DEF AccessInv
<1>2. AccessInv /\ [Next]_vars => AccessInv'
  BY NextType, NextHeld, NextVerified DEF AccessInv
<1> QED
  BY <1>1, <1>2, PTL DEF Spec

\* The types are right, and the operation within the table's CHECK, for any
\* applications, requests and bound.
THEOREM AccessTypeCorrect == Spec => []TypeOK
BY Invariance, PTL DEF AccessInv

\* No request that has ended or not begun its offboarding has the lock
\* (withIdentityLock): an offboarding can always be retried.
THEOREM LockGivenUp == Spec => []NoLockLeft
<1>1. AccessInv => NoLockLeft
  BY DEF AccessInv, Held, NoLockLeft
<1> QED
  BY <1>1, Invariance, PTL

\* Who changes the operation: begin and the last update, by the session that has
\* the lock.
LEMMA OperationWriters ==
    ASSUME [Next]_vars, operation' # operation
    PROVE  \E h \in Handler : Begin(h) \/ Finish(h)
<1> USE DEF personVars, requestVars
<1>1. ASSUME NEW h \in Handler, HandlerStep(h)
      PROVE  Begin(h) \/ Finish(h)
  BY <1>1 DEF HandlerStep, Throw, InspectForEnd, EndRow, ReadForInvite, GrantForInvite, TryLock,
     List, ReadResource, RevokeResource, VerifyResource, CheckResource, StartCheck, CheckFails, CheckHolds
<1>2. ASSUME NEW h \in Handler, Offboard(h) \/ EndMembership(h) \/ Invite(h) \/ LoseSession(h)
      PROVE  FALSE
  BY <1>2 DEF Offboard, EndMembership, Invite, Ask, LoseSession
<1>3. ASSUME NEW r \in Resource, Give(r) \/ Take(r)
      PROVE  FALSE
  BY <1>3 DEF Give, Take
<1>4. ~(LinkEmployee \/ MarkExistingStaff \/ UNCHANGED vars)
  BY DEF LinkEmployee, MarkExistingStaff, vars
<1> QED
  BY <1>1, <1>2, <1>3, <1>4 DEF Next

\* offboard: a completed operation changes by the begin of the next only, even
\* with requests under way that lost their session and the lock.
LEMMA CompletedIsLeftAlone ==
    ASSUME AccessInv, [Next]_vars, operation = "COMPLETED", operation' # operation
    PROVE  /\ operation' = "IN_PROGRESS"
           /\ \E h \in Handler : lock = h /\ pc[h] = "begin"
<1>1. PICK h \in Handler : Begin(h) \/ Finish(h)
  BY OperationWriters
<1>2. ~Finish(h)
  BY DEF AccessInv, Held, Finish, CanWrite
<1> QED
  BY <1>1, <1>2 DEF Begin, CanWrite

\* offboard: an operation is completed only after its final verification read
\* everything, and what is active then was given after that began.
LEMMA NothingLeftBehind ==
    ASSUME AccessInv, [Next]_vars, operation # "COMPLETED", operation' = "COMPLETED"
    PROVE  \E h \in Handler :
              /\ pc[h] = "finish"
              /\ \A r \in Resource : state[r] = "active" => r \in since[h]
<1>1. PICK h \in Handler : Finish(h)
  BY OperationWriters DEF Begin
<1>2. pc[h] = "finish" /\ ~failed[h]
  BY <1>1 DEF Finish, Outcome
<1> QED
  BY <1>2 DEF AccessInv, Verified, ReadBack, AllRead

\* An offboarding that says it is completed is: nothing it should have taken is left but what
\* was given after its final verification began, and nobody but the next undoes it.
THEOREM OffboardingCompletes == Spec => CompletedIsSound
<1>1. AccessInv /\ [Next]_vars =>
        [/\ operation # "COMPLETED" /\ operation' = "COMPLETED" =>
              \E h \in Handler :
                 /\ pc[h] = "finish"
                 /\ \A r \in Resource : state[r] = "active" => r \in since[h]
         /\ operation = "COMPLETED" /\ operation' # operation =>
              /\ operation' = "IN_PROGRESS"
              /\ \E h \in Handler : lock = h /\ pc[h] = "begin"]_vars
  BY CompletedIsLeftAlone, NothingLeftBehind
<1> QED
  BY <1>1, Invariance, PTL DEF Spec, CompletedIsSound


-----------------------------------------------------------------------------
(* The sessions and their tokens. *)

\* Whose a session, a token and a request are.
Owned ==
    /\ \A s \in Login : session[s].state # "none" => login[s].pc = "ended" /\ session[s].first \in Existing
    /\ \A s \in Login : session[s].token = NoToken \/ session[s].token.of = s
    /\ \A s \in Login : session[s].state = "none" => sso[s] = 0
    /\ \A l \in Login : login[l].pc = "create" => login[l].token = NoToken \/ login[l].token = [of |-> l, k |-> 0]
    /\ \A c \in AccountCall :
          /\ calls[c].pc # "idle" => calls[c].session \in Existing
          /\ calls[c].pc \in {"refresh", "store"} => calls[c].token.of = calls[c].session

\* With rotation, no session and no request has a token later than Keycloak's
\* latest, and while a request stores that one nobody else has it.
Latest ==
    /\ \A s \in Login : session[s].token # NoToken => session[s].token.k <= sso[s]
    /\ \A c \in AccountCall : calls[c].pc = "refresh" => calls[c].token.k <= sso[calls[c].session]
    /\ \A c \in AccountCall : calls[c].pc = "store" =>
          LET s == calls[c].session
          IN /\ calls[c].token.k = sso[s]
             /\ session[s].token # NoToken => session[s].token.k < sso[s]
             /\ \A d \in AccountCall \ {c} : calls[d].session = s =>
                   /\ calls[d].pc # "store"
                   /\ calls[d].pc = "refresh" => calls[d].token.k < sso[s]

\* Where tokens are used once, the latest of each session is where it can be used.
Rotation == OneUse => Latest

\* The inductive invariant.
SessionsInv == SessionsTypeOK /\ Owned /\ OneSessionPerLogin /\ Rotation /\ TokenKept

\* What a session keeps for as long as it is there.
SameSession(s) ==
    /\ session'[s].state = session[s].state /\ session'[s].who = session[s].who
       /\ session'[s].until = session[s].until
    /\ session'[s].token = session[s].token /\ session'[s].first = session[s].first

\* What the assumption says of the numbers, and the types of what is empty.
LEMMA SessionsConstants ==
    /\ Login \subseteq Nat /\ None \notin Login /\ {MaxAge, Idle, LoginTime, MaxNow, MaxRotations} \subseteq Nat
    /\ OneUse \in BOOLEAN /\ (CHOOSE p \in Person : TRUE) \in Person
    /\ NoToken \in Tokens /\ NoToken.of = None /\ NoSession \in SessionRows /\ NoSession.state = "none"
       /\ NoSession.token = NoToken
    /\ NoCall \in AccountCalls /\ NoCall.pc = "idle" /\ EndedLogin \in LoginRows /\ EndedLogin.pc = "ended"
    /\ NoLogin \in LoginRows /\ NoLogin.pc = "none"
    /\ \A l \in Login : [of |-> l, k |-> 0] \in Tokens /\ [of |-> l, k |-> 0] # NoToken
<1>1. /\ Login \subseteq Nat /\ None \notin Login /\ {MaxAge, Idle, LoginTime, MaxNow, MaxRotations} \subseteq Nat
      /\ OneUse \in BOOLEAN /\ Person # {}
  BY SessionsAssumption DEF None
<1>2. NoToken \in Tokens /\ NoToken.of = None
  BY <1>1 DEF NoToken, Tokens
<1>3. \A l \in Login : [of |-> l, k |-> 0] \in Tokens /\ [of |-> l, k |-> 0] # NoToken
  BY <1>1 DEF NoToken, Tokens
<1>4. NoSession \in SessionRows /\ NoSession.state = "none" /\ NoSession.token = NoToken
  BY <1>2 DEF NoSession, SessionRows
<1>5. NoCall \in AccountCalls /\ NoCall.pc = "idle"
  BY <1>2 DEF NoCall, AccountCalls
<1>6. NoLogin \in LoginRows /\ NoLogin.pc = "none"
  BY <1>2 DEF NoLogin, LoginRows
<1>7. EndedLogin \in LoginRows /\ EndedLogin.pc = "ended"
  BY <1>6 DEF EndedLogin, LoginRows
<1> QED BY <1>1, <1>2, <1>3, <1>4, <1>5, <1>6, <1>7

\* The records of a state, and their fields.
LEMMA SessionsFacts ==
    ASSUME SessionsInv
    PROVE  /\ login \in [Login -> LoginRows] /\ session \in [Login -> SessionRows]
           /\ sso \in [Login -> 0..MaxRotations] /\ calls \in [AccountCall -> AccountCalls]
           /\ clock \in 0..MaxNow /\ clock \in Nat /\ cut \subseteq Login
           /\ \A s \in Login : /\ sso[s] \in Nat /\ session[s].token \in Tokens /\ session[s].token.k \in Nat
                               /\ session[s].until \in Nat /\ session[s].first \in Login \cup {None}
           /\ \A c \in AccountCall : /\ calls[c] \in AccountCalls /\ calls[c].token \in Tokens
                                        /\ calls[c].token.k \in Nat
                                     /\ calls[c].pc # "idle" => calls[c].session \in Login
<1>1. \A t \in Tokens : t.k \in Nat
  BY SessionsConstants DEF Tokens
<1>2. clock \in Nat /\ \A s \in Login : sso[s] \in Nat
  BY SessionsConstants DEF SessionsInv, SessionsTypeOK
<1>3. ASSUME NEW s \in Login
      PROVE  /\ session[s].token \in Tokens /\ session[s].until \in Nat /\ session[s].first \in Login \cup {None}
  BY DEF SessionsInv, SessionsTypeOK, SessionRows
<1>4. ASSUME NEW c \in AccountCall PROVE calls[c] \in AccountCalls /\ calls[c].token \in Tokens
  BY DEF SessionsInv, SessionsTypeOK, AccountCalls
<1>5. \A c \in AccountCall : calls[c].pc # "idle" => calls[c].session \in Login
  BY DEF SessionsInv, Owned, Existing
<1> QED BY <1>1, <1>2, <1>3, <1>4, <1>5 DEF SessionsInv, SessionsTypeOK

\* The sessions that continue one login, as a fact about any two of them.
LEMMA SessionsOfOneLogin ==
    ASSUME SessionsInv, NEW s \in Login, NEW n \in Login, session[s].state # "none", session[n].state # "none",
           session[s].first = session[n].first
    PROVE  /\ session[s].who = session[n].who /\ session[s].until = session[n].until
           /\ session[s].state = "live" /\ session[n].state = "live" => s = n
           /\ session[s].state = "revoked" => session[s].token = NoToken
BY DEF SessionsInv, OneSessionPerLogin, Existing

\* A step that changes no session but the moment it was last seen, no token, and
\* of the requests ends some that store nothing.
LEMMA QuietStep ==
    ASSUME SessionsInv, login' \in [Login -> LoginRows], session' \in [Login -> SessionRows],
        calls' \in [AccountCall -> AccountCalls],
           clock' \in 0..MaxNow, UNCHANGED <<sso, cut>>,
           \A s \in Login : SameSession(s),
           \A s \in Login : session[s].state # "none" => login'[s].pc = "ended",
           \A l \in Login : login'[l].pc = "create" => login'[l].token = NoToken \/ login'[l].token = [of |-> l, k |-> 0],
           \A c \in AccountCall : calls'[c] = calls[c] \/ (calls[c].pc # "store" /\ (calls'[c].pc = "idle"
                \/ (calls'[c].pc = "granted" /\ calls[c].pc # "idle" /\ calls'[c].session = calls[c].session)))
    PROVE  SessionsInv'
<1>1. SessionsTypeOK'
  BY DEF SessionsInv, SessionsTypeOK
<1>2. Existing' = Existing
  BY DEF SameSession, Existing
<1>3. Owned'
  <2>1. \A s \in Login : session'[s].state # "none" => login'[s].pc = "ended" /\ session'[s].first \in Existing'
    BY <1>2 DEF SessionsInv, Owned, SameSession
  <2>2. \A s \in Login : session'[s].token = NoToken \/ session'[s].token.of = s
    BY DEF SessionsInv, Owned, SameSession
  <2>3. \A s \in Login : session'[s].state = "none" => sso'[s] = 0
    BY DEF SessionsInv, Owned, SameSession
  <2>4. \A c \in AccountCall :
          /\ calls'[c].pc # "idle" => calls'[c].session \in Existing'
          /\ calls'[c].pc \in {"refresh", "store"} => calls'[c].token.of = calls'[c].session
    BY <1>2 DEF SessionsInv, Owned
  <2> QED BY <2>1, <2>2, <2>3, <2>4 DEF Owned
<1>4. OneSessionPerLogin'
  BY <1>2 DEF SessionsInv, OneSessionPerLogin, SameSession, Existing
<1>5. Rotation'
  <2>1. SUFFICES ASSUME OneUse PROVE Latest'
    BY DEF Rotation
  <2>2. \A c \in AccountCall : calls'[c].pc \in {"refresh", "store"} => calls'[c] = calls[c]
    OBVIOUS
  <2>3. \A s \in Login : session'[s].token # NoToken => session'[s].token.k <= sso'[s]
    BY <2>1 DEF SessionsInv, Rotation, Latest, SameSession
  <2>4. \A c \in AccountCall : calls'[c].pc = "refresh" => calls'[c].token.k <= sso'[calls'[c].session]
    BY <2>1, <2>2 DEF SessionsInv, Rotation, Latest
  <2>5. ASSUME NEW c \in AccountCall, calls'[c].pc = "store"
        PROVE  LET s == calls'[c].session
               IN /\ calls'[c].token.k = sso'[s]
                  /\ session'[s].token # NoToken => session'[s].token.k < sso'[s]
                  /\ \A d \in AccountCall \ {c} : calls'[d].session = s =>
                        /\ calls'[d].pc # "store"
                        /\ calls'[d].pc = "refresh" => calls'[d].token.k < sso'[s]
    <3>1. calls'[c] = calls[c] /\ calls[c].session \in Login
      BY <2>2, <2>5, SessionsFacts
    <3>2. session'[calls[c].session].token = session[calls[c].session].token
      BY <3>1 DEF SameSession
    <3> QED BY <2>1, <2>2, <2>5, <3>1, <3>2 DEF SessionsInv, Rotation, Latest
  <2> QED BY <2>3, <2>4, <2>5 DEF Latest
<1>6. TokenKept'
  <2>1. ASSUME NEW s \in Existing', session'[s].state = "live", session'[s].token # NoToken
        PROVE  \/ OneUse => session'[s].token.k = sso'[session'[s].token.of]
               \/ s \in cut'
               \/ \E c \in AccountCall : calls'[c].pc = "store" /\ calls'[c].session = s
                                           /\ (OneUse => calls'[c].token.k = sso'[calls'[c].token.of])
    <3>1. s \in Existing /\ s \in Login
      BY <1>2 DEF Existing
    <3>2. SameSession(s)
      BY <3>1
    <3>3. \/ Accepted(session[s].token) \/ s \in cut
          \/ \E c \in AccountCall : calls[c].pc = "store" /\ calls[c].session = s /\ Accepted(calls[c].token)
      BY <2>1, <3>1, <3>2 DEF SessionsInv, TokenKept, SameSession
    <3> QED BY <2>1, <3>2, <3>3 DEF Accepted, SameSession
  <2> QED BY <2>1 DEF TokenKept, Accepted
<1> QED BY <1>1, <1>3, <1>4, <1>5, <1>6 DEF SessionsInv

\* Whoever finds a session alive changes only when it was last seen.
LEMMA TouchedIs ==
    ASSUME SessionsInv, NEW s \in Login, session' = Touched(s)
    PROVE  session' \in [Login -> SessionRows] /\ \A n \in Login : SameSession(n)
<1>1. clock \in Nat /\ session \in [Login -> SessionRows]
  BY SessionsFacts
<1>2. ASSUME NEW n \in Login PROVE session'[n] \in SessionRows /\ SameSession(n)
  <2>1. CASE n = s
    BY <1>1, <2>1 DEF Touched, SameSession, SessionRows
  <2>2. CASE n # s
    BY <1>1, <2>2 DEF Touched, SameSession
  <2> QED BY <2>1, <2>2
<1> QED BY <1>1, <1>2 DEF Touched

\* A step that leaves the sessions alone is such a step.
LEMMA SameIsSame == ASSUME SessionsInv, session' = session PROVE session' \in [Login -> SessionRows]
    /\ \A n \in Login : SameSession(n)
BY SessionsFacts DEF SameSession

\* What a login row may become.
LEMMA LoginBegins ==
    ASSUME SessionsInv, NEW l \in Login, NEW s \in Existing \cup {None}, BeginLogin(l, s)
    PROVE  /\ login' \in [Login -> LoginRows] /\ session' \in [Login -> SessionRows]
              /\ \A n \in Login : SameSession(n)
           /\ \A n \in Login : session[n].state # "none" => login'[n].pc = "ended"
           /\ \A k \in Login : login'[k].pc = "create" => login'[k].token = NoToken \/ login'[k].token = [of |-> k, k |-> 0]
<1>1. session' \in [Login -> SessionRows] /\ \A n \in Login : SameSession(n)
  BY TouchedIs, SameIsSame DEF BeginLogin, Existing
<1>2. login \in [Login -> LoginRows] /\ clock + LoginTime \in Nat /\ s \in Login \cup {None} /\ login[l].pc = "none"
  BY SessionsFacts, SessionsConstants DEF BeginLogin, CreateTransaction, Existing
<1>3. (IF s = None THEN None ELSE session[s].who) \in Person \cup {None}
  <2>1. s # None => session[s] \in SessionRows
    BY <1>2, SessionsFacts
  <2> QED BY <2>1 DEF SessionRows
<1>4. PICK e \in Person \cup {None} : e = (IF s = None THEN None ELSE session[s].who)
  BY <1>3
<1> DEFINE new == [login[l] EXCEPT !.pc = "open", !.until = clock + LoginTime, !.replaces = s, !.expects = e]
<1>5. login' = [login EXCEPT ![l] = new]
  BY <1>4 DEF BeginLogin, CreateTransaction
<1>6. new \in LoginRows /\ new.pc = "open"
  BY <1>2 DEF LoginRows
<1> HIDE DEF new
<1>7. login' \in [Login -> LoginRows] /\ login'[l].pc = "open" /\ \A k \in Login \ {l} : login'[k] = login[k]
  BY <1>2, <1>5, <1>6
<1>8. session[l].state = "none"
  BY <1>2 DEF SessionsInv, Owned
<1> QED BY <1>1, <1>7, <1>8 DEF SessionsInv, Owned

\* Nothing happens to the logins.
LEMMA LoginStays ==
    ASSUME SessionsInv, login' = login
    PROVE  /\ login' \in [Login -> LoginRows]
           /\ \A n \in Login : session[n].state # "none" => login'[n].pc = "ended"
           /\ \A k \in Login : login'[k].pc = "create" => login'[k].token = NoToken \/ login'[k].token = [of |-> k, k |-> 0]
BY SessionsFacts DEF SessionsInv, Owned

\* The logins, up to the session they create.
LEMMA LoginSteps ==
    ASSUME SessionsInv, NEW l \in Login,
           \/ StartLogin(l) \/ CallbackFails(l)
           \/ \E p \in Person : CompleteLogin(l, p)
           \/ \E s \in Existing : StartAction(l, s)
    PROVE  SessionsInv'
<1>0. calls \in [AccountCall -> AccountCalls] /\ clock \in 0..MaxNow /\ login \in [Login -> LoginRows]
  BY SessionsFacts
<1>1. CASE StartLogin(l) \/ (\E s \in Existing : StartAction(l, s))
  <2>1. PICK s \in Existing \cup {None} : BeginLogin(l, s) /\ UNCHANGED <<sso, calls, clock, cut>>
    BY <1>1 DEF StartLogin, StartAction
  <2> QED BY <1>0, <2>1, LoginBegins, QuietStep
<1>2. ASSUME NEW x \in LoginRows, login' = [login EXCEPT ![l] = x], UNCHANGED <<session, sso, calls, clock, cut>>,
             login[l].pc # "ended", x.pc \in {"create", "ended"},
             x.pc = "create" => x.token = NoToken \/ x.token = [of |-> l, k |-> 0]
      PROVE  SessionsInv'
  <2>1. login' \in [Login -> LoginRows] /\ login'[l] = x /\ \A k \in Login \ {l} : login'[k] = login[k]
    BY <1>0, <1>2
  <2>2. session[l].state = "none"
    BY <1>2 DEF SessionsInv, Owned
  <2>3. \A n \in Login : session[n].state # "none" => login'[n].pc = "ended"
    BY <2>1, <2>2 DEF SessionsInv, Owned
  <2>4. \A k \in Login : login'[k].pc = "create" => login'[k].token = NoToken \/ login'[k].token = [of |-> k, k |-> 0]
    BY <1>2, <2>1 DEF SessionsInv, Owned
  <2> QED BY <1>0, <1>2, <2>1, <2>3, <2>4, SameIsSame, QuietStep
<1>3. CASE CallbackFails(l)
  BY <1>2, <1>3, SessionsConstants DEF CallbackFails, EndLogin
<1>4. ASSUME NEW p \in Person, CompleteLogin(l, p) PROVE SessionsInv'
  <2>1. login[l].pc = "open" /\ UNCHANGED <<session, sso, calls, clock, cut>>
    BY <1>4 DEF CompleteLogin, Consumable
  <2>2. CASE SameIdentity(l, p)
    <3>1. PICK t \in RefreshTokens(l) :
             login' = [login EXCEPT ![l].pc = "create", ![l].until = 0, ![l].who = p, ![l].token = t]
      BY <1>4, <2>2 DEF CompleteLogin
    <3>2. t \in Tokens /\ (t = NoToken \/ t = [of |-> l, k |-> 0])
      BY SessionsConstants DEF RefreshTokens
    <3> DEFINE x == [login[l] EXCEPT !.pc = "create", !.until = 0, !.who = p, !.token = t]
    <3>3. x \in LoginRows /\ x.pc = "create" /\ x.token = t
      BY <1>0, <3>2 DEF LoginRows
    <3>4. login' = [login EXCEPT ![l] = x]
      BY <3>1
    <3> HIDE DEF x
    <3> QED BY <1>2, <2>1, <3>2, <3>3, <3>4
  <2>3. CASE ~SameIdentity(l, p)
    BY <1>2, <1>4, <2>1, <2>3, SessionsConstants DEF CompleteLogin, EndLogin
  <2> QED BY <2>2, <2>3
<1> QED BY <1>1, <1>3, <1>4

\* Requests that read, or end without a new token.
LEMMA RequestSteps ==
    ASSUME SessionsInv, NEW c \in AccountCall,
           AccessRefused(c) \/ ShowAccount(c) \/ ChangeAccount(c) \/ (\E l \in Login : BeginAction(c, l))
    PROVE  SessionsInv'
<1>0. calls \in [AccountCall -> AccountCalls] /\ clock \in 0..MaxNow /\ clock \in Nat /\ MaxNow \in Nat
  BY SessionsFacts, SessionsConstants
<1>1. calls' = [calls EXCEPT ![c] = NoCall] /\ calls[c].pc \in {"refresh", "granted"} /\ UNCHANGED <<sso, clock, cut>>
  BY DEF AccessRefused, ShowAccount, ChangeAccount, BeginAction, Closed
<1>2. calls' \in [AccountCall -> AccountCalls] /\ calls'[c].pc = "idle"
    /\ \A d \in AccountCall \ {c} : calls'[d] = calls[d]
  BY <1>0, <1>1, SessionsConstants
<1>3. CASE UNCHANGED <<login, session>>
  BY <1>0, <1>1, <1>2, <1>3, SameIsSame, LoginStays, QuietStep
<1>4. CASE ~UNCHANGED <<login, session>>
  <2>1. PICK l \in Login : BeginLogin(l, calls[c].session)
    BY <1>4 DEF AccessRefused, ShowAccount, ChangeAccount, BeginAction
  <2>2. calls[c].session \in Existing \cup {None}
    BY <1>1 DEF SessionsInv, Owned
  <2> QED BY <1>0, <1>1, <1>2, <2>1, <2>2, LoginBegins, QuietStep
<1> QED BY <1>3, <1>4
\* A session that is revoked, by a logout or by the one that replaces it.
LEMMA RevokedIs ==
    ASSUME NEW x \in SessionRows, SessionsInv
    PROVE  /\ Revoked(x) \in SessionRows /\ Revoked(x).state = "revoked" /\ Revoked(x).token = NoToken
           /\ Revoked(x).who = x.who /\ Revoked(x).until = x.until /\ Revoked(x).first = x.first
BY SessionsConstants DEF Revoked, SessionRows

\* A step that leaves the tokens of requests alone and takes some from sessions.
LEMMA RotationStays ==
    ASSUME SessionsInv, UNCHANGED <<sso, calls>>,
           \A s \in Login : session'[s].token = session[s].token \/ session'[s].token = NoToken
                              \/ (session'[s].token.k = 0 /\ \A c \in AccountCall : calls[c].pc # "idle" => calls[c].session # s)
    PROVE  Rotation'
<1>1. SUFFICES ASSUME OneUse PROVE Latest'
  BY DEF Rotation
<1>2. \A s \in Login : sso[s] \in Nat
  BY SessionsFacts
<1>3. \A s \in Login : session'[s].token # NoToken => session'[s].token.k <= sso'[s]
  BY <1>1, <1>2 DEF SessionsInv, Rotation, Latest
<1>4. \A c \in AccountCall : calls'[c].pc = "refresh" => calls'[c].token.k <= sso'[calls'[c].session]
  BY <1>1 DEF SessionsInv, Rotation, Latest
<1>5. ASSUME NEW c \in AccountCall, calls'[c].pc = "store"
      PROVE  LET s == calls'[c].session
             IN /\ calls'[c].token.k = sso'[s]
                /\ session'[s].token # NoToken => session'[s].token.k < sso'[s]
                /\ \A d \in AccountCall \ {c} : calls'[d].session = s =>
                      /\ calls'[d].pc # "store"
                      /\ calls'[d].pc = "refresh" => calls'[d].token.k < sso'[s]
  <2>1. calls[c].session \in Login /\ calls[c].pc = "store"
    BY <1>5, SessionsFacts
  <2>2. session'[calls[c].session].token \in {session[calls[c].session].token, NoToken}
    BY <2>1
  <2> QED BY <1>1, <1>5, <2>1, <2>2 DEF SessionsInv, Rotation, Latest
<1> QED BY <1>3, <1>4, <1>5 DEF Latest

\* A session is logged out.
LEMMA LogoutStep ==
    ASSUME SessionsInv, NEW s \in Existing, Logout(s) PROVE SessionsInv'
<1>1. /\ s \in Login /\ session \in [Login -> SessionRows] /\ session[s] \in SessionRows
  BY SessionsFacts DEF Existing
<1>2. /\ session[s].state = "live" /\ session' = [session EXCEPT ![s] = Revoked(session[s])]
         /\ UNCHANGED <<login, sso, calls, clock, cut>>
  BY DEF Logout
<1> DEFINE x == Revoked(session[s])
<1>3. /\ x \in SessionRows /\ x.state = "revoked" /\ x.token = NoToken
      /\ x.who = session[s].who /\ x.until = session[s].until /\ x.first = session[s].first
  BY <1>1, RevokedIs
<1>4. session' = [session EXCEPT ![s] = x]
  BY <1>2
<1> HIDE DEF x
<1>5. session' \in [Login -> SessionRows] /\ session'[s] = x /\ \A n \in Login \ {s} : session'[n] = session[n]
  BY <1>1, <1>3, <1>4
<1>6. Existing' = Existing
  BY <1>1, <1>2, <1>3, <1>5 DEF Existing
<1>7. SessionsTypeOK'
  BY <1>2, <1>5 DEF SessionsInv, SessionsTypeOK
<1>8. Owned'
  BY <1>2, <1>3, <1>5, <1>6 DEF SessionsInv, Owned
<1>9. OneSessionPerLogin'
  <2>1. ASSUME NEW a \in Existing, NEW b \in Existing, session'[a].first = session'[b].first
        PROVE  /\ session'[a].who = session'[b].who /\ session'[a].until = session'[b].until
               /\ session'[a].state = "live" /\ session'[b].state = "live" => a = b
               /\ session'[a].state = "revoked" => session'[a].token = NoToken
    <3>1. a \in Login /\ b \in Login /\ session[a].state # "none" /\ session[b].state # "none"
      BY DEF Existing
    <3>2. session[a].first = session[b].first
      BY <1>3, <1>5, <2>1, <3>1
    <3> QED BY <1>3, <1>5, <3>1, <3>2, SessionsOfOneLogin
  <2> QED BY <1>6, <2>1 DEF OneSessionPerLogin
<1>10. Rotation'
  BY <1>2, <1>3, <1>5, RotationStays
<1>11. TokenKept'
  <2>1. ASSUME NEW n \in Existing, session'[n].state = "live", session'[n].token # NoToken
        PROVE  \/ OneUse => session'[n].token.k = sso'[session'[n].token.of]
               \/ n \in cut'
               \/ \E c \in AccountCall : calls'[c].pc = "store" /\ calls'[c].session = n
                                           /\ (OneUse => calls'[c].token.k = sso'[calls'[c].token.of])
    <3>1. session'[n] = session[n]
      BY <1>3, <1>5, <2>1 DEF Existing
    <3> QED BY <1>2, <2>1, <3>1 DEF SessionsInv, TokenKept, Accepted
  <2> QED BY <1>6, <2>1 DEF TokenKept, Accepted
<1> QED BY <1>7, <1>8, <1>9, <1>10, <1>11 DEF SessionsInv

\* The row a completed login makes.
LEMMA NewSessionIs ==
    ASSUME SessionsInv, NEW l \in Login, login[l].pc = "create",
           login[l].replaces # None => Replaceable(l) /\ login[l].replaces \in Login
    PROVE  /\ NewSession(l) \in SessionRows /\ NewSession(l).state = "live"
           /\ NewSession(l).token = NoToken \/ NewSession(l).token = [of |-> l, k |-> 0]
           /\ login[l].replaces = None => NewSession(l).first = l
           /\ login[l].replaces # None => LET s == login[l].replaces
                                          IN /\ NewSession(l).first = session[s].first
                                                /\ NewSession(l).until = session[s].until
                                             /\ NewSession(l).who = session[s].who
<1>1. /\ login[l].replaces \in Login \cup {None} /\ login[l].who \in Person \cup {None} /\ login[l].token \in Tokens
  BY SessionsFacts DEF LoginRows
<1>2. clock \in Nat /\ clock + MaxAge \in Nat
  BY SessionsFacts, SessionsConstants
<1>3. login[l].token = NoToken \/ login[l].token = [of |-> l, k |-> 0]
  BY DEF SessionsInv, Owned
<1>4. CASE login[l].replaces = None
  BY <1>1, <1>2, <1>3, <1>4 DEF NewSession, SessionRows
<1>5. CASE login[l].replaces # None
  <2>1. PICK s \in Login : s = login[l].replaces
    BY <1>5
  <2>2. session[s].until \in Nat /\ session[s].first \in Login \cup {None}
    BY SessionsFacts
  <2>3. session[s].who = login[l].who
    BY <1>5, <2>1 DEF Replaceable
  <2> QED BY <1>1, <1>2, <1>3, <1>5, <2>1, <2>2, <2>3 DEF NewSession, SessionRows
<1> QED BY <1>4, <1>5

\* A login is completed: its session is there, and the one it replaces is not any more.
LEMMA SessionCreated ==
    ASSUME SessionsInv, NEW l \in Login, NEW s \in Login \cup {None}, NEW x \in SessionRows,
           session[l].state = "none", login' = [login EXCEPT ![l] = EndedLogin], UNCHANGED <<sso, calls, clock, cut>>,
           x.state = "live", x.token = NoToken \/ x.token = [of |-> l, k |-> 0],
           session' \in [Login -> SessionRows], session'[l] = x,
           \A n \in Login \ {l, s} : session'[n] = session[n],
           s = None => x.first = l,
           s # None => /\ session[s].state = "live" /\ session'[s] = Revoked(session[s])
                       /\ x.first = session[s].first /\ x.until = session[s].until /\ x.who = session[s].who
    PROVE  SessionsInv'
<1>0. /\ login \in [Login -> LoginRows] /\ session \in [Login -> SessionRows] /\ s # l /\ l # None
      /\ EndedLogin \in LoginRows /\ EndedLogin.pc = "ended"
  BY SessionsFacts, SessionsConstants
<1>1. login' \in [Login -> LoginRows] /\ login'[l].pc = "ended" /\ \A k \in Login \ {l} : login'[k] = login[k]
  BY <1>0
<1>2. s # None => /\ s \in Login /\ session'[s].state = "revoked" /\ session'[s].token = NoToken
                  /\ session'[s].who = session[s].who /\ session'[s].until = session[s].until
                  /\ session'[s].first = session[s].first
  BY <1>0, RevokedIs
<1>a. \A n \in Login : n = l \/ (n = s /\ s # None) \/ session'[n] = session[n]
  BY SessionsConstants
<1>3. Existing' = Existing \cup {l} /\ l \notin Existing
  <2>1. ASSUME NEW n \in Login PROVE session'[n].state # "none" <=> (session[n].state # "none" \/ n = l)
    <3>1. CASE n = l
      BY <3>1
    <3>2. CASE n = s /\ s # None
      BY <1>0, <1>2, <3>2
    <3>3. CASE session'[n] = session[n] /\ n # l
      BY <3>3
    <3> QED BY <1>a, <3>1, <3>2, <3>3
  <2> QED BY <2>1 DEF Existing
<1>4. SessionsTypeOK'
  BY <1>1 DEF SessionsInv, SessionsTypeOK
<1>5. \A n \in Existing : n \in Login /\ n # l /\ session'[n].who = session[n].who
    /\ session'[n].until = session[n].until
                            /\ session'[n].first = session[n].first /\ session[n].first \in Existing
                            /\ (session'[n] = session[n] \/ (n = s /\ session'[n].state = "revoked" /\ session'[n].token = NoToken))
  <2>1. \A n \in Existing : n \in Login /\ n # l /\ session[n].first \in Existing
    BY <1>3 DEF Existing, SessionsInv, Owned
  <2> QED BY <1>2, <1>a, <2>1
<1>6. Owned'
  <2>1. \A n \in Login : session'[n].state # "none" => login'[n].pc = "ended" /\ session'[n].first \in Existing'
    <3>1. x.first \in Existing'
      BY <1>3, <1>5 DEF Existing
    <3> QED BY <1>1, <1>3, <1>5, <3>1 DEF Existing, SessionsInv, Owned
  <2>2. ASSUME NEW n \in Login PROVE session'[n].token = NoToken \/ session'[n].token.of = n
    <3>1. session[n].token = NoToken \/ session[n].token.of = n
      BY DEF SessionsInv, Owned
    <3> QED BY <1>2, <1>a, <3>1
  <2>3. ASSUME NEW n \in Login, session'[n].state = "none" PROVE sso'[n] = 0
    <3>1. session[n].state = "none"
      BY <1>3, <2>3 DEF Existing
    <3> QED BY <3>1 DEF SessionsInv, Owned
  <2>4. \A k \in Login : login'[k].pc = "create" => login'[k].token = NoToken \/ login'[k].token = [of |-> k, k |-> 0]
    BY <1>1 DEF SessionsInv, Owned
  <2>5. \A c \in AccountCall :
          /\ calls'[c].pc # "idle" => calls'[c].session \in Existing'
          /\ calls'[c].pc \in {"refresh", "store"} => calls'[c].token.of = calls'[c].session
    BY <1>3 DEF SessionsInv, Owned
  <2> QED BY <2>1, <2>2, <2>3, <2>4, <2>5 DEF Owned
<1>7. OneSessionPerLogin'
  <2> DEFINE Together(a, b) == /\ session'[a].who = session'[b].who /\ session'[a].until = session'[b].until
                               /\ session'[a].state = "live" /\ session'[b].state = "live" => a = b
                               /\ session'[a].state = "revoked" => session'[a].token = NoToken
  <2>1. ASSUME NEW a \in Existing, NEW b \in Existing, session'[a].first = session'[b].first PROVE Together(a, b)
    <3>1. a \in Login /\ b \in Login /\ session[a].state # "none" /\ session[b].state # "none"
        /\ session[a].first = session[b].first
      BY <1>5, <2>1 DEF Existing
    <3> QED BY <1>5, <3>1, SessionsOfOneLogin
  <2>2. ASSUME NEW a \in Existing, session'[a].first = x.first
        PROVE  /\ s # None /\ session'[a].who = x.who /\ session'[a].until = x.until /\ session'[a].state # "live"
               /\ session'[a].state = "revoked" => session'[a].token = NoToken
    <3>1. a \in Login /\ session[a].state # "none" /\ session[a].first = x.first /\ x.first \in Existing
      BY <1>5, <2>2 DEF Existing
    <3>2. s # None
      BY <1>3, <3>1
    <3>3. /\ session[a].who = session[s].who /\ session[a].until = session[s].until
          /\ session[a].state = "live" => a = s
          /\ session[a].state = "revoked" => session[a].token = NoToken
      BY <1>2, <3>1, <3>2, SessionsOfOneLogin
    <3>4. CASE a = s
      BY <1>2, <3>2, <3>4
    <3>5. CASE a # s
      BY <1>2, <1>5, <3>1, <3>2, <3>3, <3>5 DEF SessionRows
    <3> QED BY <3>4, <3>5
  <2>3. ASSUME NEW a \in Existing', NEW b \in Existing', session'[a].first = session'[b].first PROVE Together(a, b)
    BY <1>3, <2>1, <2>2, <2>3
  <2> QED BY <2>3 DEF OneSessionPerLogin
<1>8. Rotation'
  <2>1. \A c \in AccountCall : calls[c].pc # "idle" => calls[c].session # l
    BY <1>3 DEF SessionsInv, Owned
  <2>2. x.token = NoToken \/ x.token.k = 0
    OBVIOUS
  <2>3. \A n \in Login : session'[n].token = session[n].token \/ session'[n].token = NoToken
                            \/ (session'[n].token.k = 0 /\ \A c \in AccountCall : calls[c].pc # "idle" => calls[c].session # n)
    BY <1>2, <1>a, <2>1, <2>2
  <2> QED BY <2>3, RotationStays
<1>9. TokenKept'
  <2>1. ASSUME NEW n \in Existing', session'[n].state = "live", session'[n].token # NoToken
        PROVE  \/ OneUse => session'[n].token.k = sso'[session'[n].token.of]
               \/ n \in cut'
               \/ \E c \in AccountCall : calls'[c].pc = "store" /\ calls'[c].session = n
                                           /\ (OneUse => calls'[c].token.k = sso'[calls'[c].token.of])
    <3>1. CASE n = l
      BY <2>1, <3>1 DEF SessionsInv, Owned
    <3>2. CASE n # l
      <4>1. n \in Existing /\ session'[n] = session[n]
        BY <1>3, <1>5, <2>1, <3>2
      <4> QED BY <2>1, <4>1 DEF SessionsInv, TokenKept, Accepted
    <3> QED BY <3>1, <3>2
  <2> QED BY <2>1 DEF TokenKept, Accepted
<1> QED BY <1>4, <1>6, <1>7, <1>8, <1>9 DEF SessionsInv

\* A login creates its session, in place of another or not.
LEMMA CreateStep ==
    ASSUME SessionsInv, NEW l \in Login, CreateSession(l) PROVE SessionsInv'
<1>1. /\ login[l].pc = "create" /\ login' = [login EXCEPT ![l] = EndedLogin] /\ UNCHANGED <<sso, calls, clock, cut>>
  BY DEF CreateSession, EndLogin
<1>2. /\ login[l].replaces \in Login \cup {None} /\ session \in [Login -> SessionRows]
         /\ login \in [Login -> LoginRows]
      /\ calls \in [AccountCall -> AccountCalls] /\ clock \in 0..MaxNow
  BY SessionsFacts DEF LoginRows
<1>3. session[l].state = "none"
  BY <1>1 DEF SessionsInv, Owned
<1>4. PICK s \in Login \cup {None} : s = login[l].replaces
  BY <1>2
<1>5. CASE s = None
  <2>1. PICK x \in SessionRows : x = NewSession(l)
    BY <1>1, <1>4, <1>5, NewSessionIs
  <2>2. session' = [session EXCEPT ![l] = x]
    BY <1>4, <1>5, <2>1 DEF CreateSession
  <2>3. x.state = "live" /\ (x.token = NoToken \/ x.token = [of |-> l, k |-> 0]) /\ x.first = l
    BY <1>1, <1>4, <1>5, <2>1, NewSessionIs
  <2>4. session' \in [Login -> SessionRows] /\ session'[l] = x /\ \A n \in Login \ {l, s} : session'[n] = session[n]
    BY <1>2, <2>2
  <2> QED BY <1>1, <1>3, <1>5, <2>3, <2>4, SessionCreated
<1>6. CASE s # None /\ Replaceable(l)
  <2>1. s \in Login /\ session[s].state = "live" /\ s # l
    BY <1>3, <1>4, <1>6 DEF Replaceable
  <2>2. PICK x \in SessionRows : x = NewSession(l)
    BY <1>1, <1>4, <1>6, <2>1, NewSessionIs
  <2>3. /\ x.state = "live" /\ (x.token = NoToken \/ x.token = [of |-> l, k |-> 0])
        /\ x.first = session[s].first /\ x.until = session[s].until /\ x.who = session[s].who
    BY <1>1, <1>4, <1>6, <2>1, <2>2, NewSessionIs
  <2>4. PICK y \in SessionRows : y = Revoked(session[s])
    BY <1>2, <2>1, RevokedIs
  <2>5. session' = [session EXCEPT ![s] = y, ![l] = x]
    BY <1>4, <1>6, <2>2, <2>4 DEF CreateSession
  <2>6. session' \in [Login -> SessionRows] /\ session'[l] = x /\ session'[s] = y
      /\ \A n \in Login \ {l, s} : session'[n] = session[n]
    BY <1>2, <2>1, <2>5
  <2>7. session'[s] = Revoked(session[s])
    BY <2>4, <2>6
  <2> QED BY <1>1, <1>3, <1>6, <2>1, <2>3, <2>6, <2>7, SessionCreated
<1>7. CASE s # None /\ ~Replaceable(l)
  <2>1. session' = session
    BY <1>4, <1>7 DEF CreateSession
  <2>2. login' \in [Login -> LoginRows] /\ login'[l].pc = "ended" /\ \A k \in Login \ {l} : login'[k] = login[k]
    BY <1>1, <1>2, SessionsConstants
  <2>3. \A n \in Login : session[n].state # "none" => login'[n].pc = "ended"
    BY <2>2 DEF SessionsInv, Owned
  <2>4. \A k \in Login : login'[k].pc = "create" => login'[k].token = NoToken \/ login'[k].token = [of |-> k, k |-> 0]
    BY <2>2 DEF SessionsInv, Owned
  <2> QED BY <1>1, <1>2, <2>1, <2>2, <2>3, <2>4, SameIsSame, QuietStep
<1> QED BY <1>5, <1>6, <1>7
\* A step of one request that changes no session's state, person, end or login.
LEMMA RequestMoved ==
    ASSUME SessionsInv, NEW c \in AccountCall, NEW x \in AccountCalls, calls' = [calls EXCEPT ![c] = x],
           UNCHANGED <<login, clock>>, sso' \in [Login -> 0..MaxRotations], cut' \subseteq Login,
           session' \in [Login -> SessionRows],
           \A s \in Login : /\ session'[s].state = session[s].state /\ session'[s].who = session[s].who
                            /\ session'[s].until = session[s].until /\ session'[s].first = session[s].first
                            /\ session'[s].token = NoToken \/ session'[s].token.of = s
                            /\ session[s].state = "revoked" => session'[s].token = session[s].token
                            /\ session[s].state = "none" => sso'[s] = 0,
           x.pc # "idle" => x.session \in Existing,
           x.pc \in {"refresh", "store"} => x.token.of = x.session
    PROVE  SessionsTypeOK' /\ Owned' /\ OneSessionPerLogin'
<1>1. calls' \in [AccountCall -> AccountCalls] /\ calls'[c] = x /\ \A d \in AccountCall \ {c} : calls'[d] = calls[d]
  BY SessionsFacts
<1>2. Existing' = Existing
  BY DEF Existing
<1>3. SessionsTypeOK'
  BY <1>1 DEF SessionsInv, SessionsTypeOK
<1>4. Owned'
  <2>1. \A s \in Login : session'[s].state # "none" => login'[s].pc = "ended" /\ session'[s].first \in Existing'
    BY <1>2 DEF SessionsInv, Owned
  <2>2. \A l \in Login : login'[l].pc = "create" => login'[l].token = NoToken \/ login'[l].token = [of |-> l, k |-> 0]
    BY DEF SessionsInv, Owned
  <2>3. \A d \in AccountCall :
          /\ calls'[d].pc # "idle" => calls'[d].session \in Existing'
          /\ calls'[d].pc \in {"refresh", "store"} => calls'[d].token.of = calls'[d].session
    BY <1>1, <1>2 DEF SessionsInv, Owned
  <2> QED BY <2>1, <2>2, <2>3 DEF Owned
<1>5. OneSessionPerLogin'
  <2>1. ASSUME NEW a \in Existing, NEW b \in Existing, session'[a].first = session'[b].first
        PROVE  /\ session'[a].who = session'[b].who /\ session'[a].until = session'[b].until
               /\ session'[a].state = "live" /\ session'[b].state = "live" => a = b
               /\ session'[a].state = "revoked" => session'[a].token = NoToken
    <3>1. a \in Login /\ b \in Login /\ session[a].state # "none" /\ session[b].state # "none"
        /\ session[a].first = session[b].first
      BY <2>1 DEF Existing
    <3> QED BY <3>1, SessionsOfOneLogin
  <2> QED BY <1>2, <2>1 DEF OneSessionPerLogin
<1> QED BY <1>3, <1>4, <1>5

\* A request takes the session's token along.
LEMMA AskStep ==
    ASSUME SessionsInv, NEW c \in AccountCall, NEW s \in Existing, AskAccount(c, s) PROVE SessionsInv'
<1>0. /\ s \in Login /\ calls[c].pc = "idle" /\ session' = Touched(s) /\ UNCHANGED <<login, sso, clock, cut>>
      /\ session[s].token # NoToken /\ session[s].state = "live"
      /\ calls' = [calls EXCEPT ![c] = [pc |-> "refresh", session |-> s, token |-> session[s].token]]
  BY DEF AskAccount, Alive, Existing
<1>1. session' \in [Login -> SessionRows] /\ \A n \in Login : SameSession(n)
  BY <1>0, TouchedIs
<1>2. PICK t \in Tokens : t = session[s].token
  BY <1>0, SessionsFacts
<1> DEFINE x == [pc |-> "refresh", session |-> s, token |-> t]
<1>3. x \in AccountCalls /\ x.pc = "refresh" /\ x.session = s /\ x.token = t
  BY <1>0 DEF AccountCalls
<1>4. calls' = [calls EXCEPT ![c] = x]
  BY <1>0, <1>2
<1> HIDE DEF x
<1>5. calls'[c] = x /\ \A d \in AccountCall \ {c} : calls'[d] = calls[d]
  BY <1>4, SessionsFacts
<1>6. t.of = s
  BY <1>0, <1>2 DEF SessionsInv, Owned
<1>7. SessionsTypeOK' /\ Owned' /\ OneSessionPerLogin'
  <2>1. \A n \in Login : /\ session'[n].token = NoToken \/ session'[n].token.of = n
                         /\ session[n].state = "none" => sso'[n] = 0
    BY <1>0, <1>1 DEF SessionsInv, Owned, SameSession
  <2>2. sso' \in [Login -> 0..MaxRotations] /\ cut' \subseteq Login
    BY <1>0, SessionsFacts
  <2>3. \A n \in Login : /\ session'[n].state = session[n].state /\ session'[n].who = session[n].who
                         /\ session'[n].until = session[n].until /\ session'[n].first = session[n].first
                         /\ session'[n].token = session[n].token
    BY <1>1 DEF SameSession
  <2>4. \A n \in Login : /\ session'[n].state = session[n].state /\ session'[n].who = session[n].who
                         /\ session'[n].until = session[n].until /\ session'[n].first = session[n].first
                         /\ session'[n].token = NoToken \/ session'[n].token.of = n
                         /\ session[n].state = "revoked" => session'[n].token = session[n].token
                         /\ session[n].state = "none" => sso'[n] = 0
    BY <2>1, <2>3
  <2>5. UNCHANGED <<login, clock>> /\ session' \in [Login -> SessionRows]
    BY <1>0, <1>1
  <2>6. x.session \in Existing /\ x.token.of = x.session
    BY <1>3, <1>6
  <2> QED BY <1>3, <1>4, <2>2, <2>4, <2>5, <2>6, RequestMoved
<1>8. Rotation'
  <2>1. SUFFICES ASSUME OneUse PROVE Latest'
    BY DEF Rotation
  <2>2. t.k <= sso[s] /\ \A d \in AccountCall : calls[d].pc = "store" /\ calls[d].session = s => t.k < sso[s]
    BY <1>0, <1>2, <2>1 DEF SessionsInv, Rotation, Latest
  <2>3. \A n \in Login : session'[n].token # NoToken => session'[n].token.k <= sso'[n]
    BY <1>0, <1>1, <2>1 DEF SessionsInv, Rotation, Latest, SameSession
  <2>4. \A d \in AccountCall : calls'[d].pc = "refresh" => calls'[d].token.k <= sso'[calls'[d].session]
    BY <1>0, <1>3, <1>5, <2>1, <2>2 DEF SessionsInv, Rotation, Latest
  <2>5. ASSUME NEW d \in AccountCall, calls'[d].pc = "store"
        PROVE  LET n == calls'[d].session
               IN /\ calls'[d].token.k = sso'[n]
                  /\ session'[n].token # NoToken => session'[n].token.k < sso'[n]
                  /\ \A e \in AccountCall \ {d} : calls'[e].session = n =>
                        /\ calls'[e].pc # "store"
                        /\ calls'[e].pc = "refresh" => calls'[e].token.k < sso'[n]
    <3>1. d # c /\ calls'[d] = calls[d] /\ calls[d].session \in Login
      BY <1>3, <1>5, <2>5, SessionsFacts
    <3>2. session'[calls[d].session].token = session[calls[d].session].token
      BY <1>1, <3>1 DEF SameSession
    <3>3. /\ calls[d].token.k = sso[calls[d].session]
          /\ session[calls[d].session].token # NoToken => session[calls[d].session].token.k < sso[calls[d].session]
          /\ \A e \in AccountCall \ {d} : calls[e].session = calls[d].session =>
                        /\ calls[e].pc # "store"
                        /\ calls[e].pc = "refresh" => calls[e].token.k < sso[calls[d].session]
      BY <2>1, <2>5, <3>1 DEF SessionsInv, Rotation, Latest
    <3> QED BY <1>0, <1>3, <1>5, <2>2, <2>5, <3>1, <3>2, <3>3
  <2> QED BY <2>3, <2>4, <2>5 DEF Latest
<1>9. TokenKept'
  <2>1. ASSUME NEW n \in Existing', session'[n].state = "live", session'[n].token # NoToken
        PROVE  \/ OneUse => session'[n].token.k = sso'[session'[n].token.of]
               \/ n \in cut'
               \/ \E d \in AccountCall : calls'[d].pc = "store" /\ calls'[d].session = n
                                           /\ (OneUse => calls'[d].token.k = sso'[calls'[d].token.of])
    <3>1. n \in Login /\ SameSession(n)
      BY <1>1 DEF Existing
    <3>2. \/ OneUse => session[n].token.k = sso[session[n].token.of]
          \/ n \in cut
          \/ \E d \in AccountCall : calls[d].pc = "store" /\ calls[d].session = n
             /\ (OneUse => calls[d].token.k = sso[calls[d].token.of])
      BY <2>1, <3>1 DEF SessionsInv, TokenKept, SameSession, Accepted, Existing
    <3>3. \A d \in AccountCall : calls[d].pc = "store" => calls'[d] = calls[d]
      BY <1>0, <1>5
    <3> QED BY <1>0, <3>1, <3>2, <3>3 DEF SameSession
  <2> QED BY <2>1 DEF TokenKept, Accepted
<1> QED BY <1>7, <1>8, <1>9 DEF SessionsInv

\* Keycloak replaces the token of a login: whoever had the latest is the one that asked.
LEMMA RefreshStep ==
    ASSUME SessionsInv, NEW c \in AccountCall, RefreshAccess(c) PROVE SessionsInv'
<1>0. /\ calls[c].pc = "refresh" /\ UNCHANGED <<login, session, clock, cut>>
         /\ calls \in [AccountCall -> AccountCalls]
      /\ calls[c].session \in Login /\ calls[c].session \in Existing /\ calls[c].token.of = calls[c].session
      /\ Accepted(calls[c].token) /\ calls[c] \in AccountCalls /\ calls[c].token \in Tokens
  BY SessionsFacts DEF RefreshAccess, SessionsInv, Owned
<1>1. PICK s \in Login : s = calls[c].session
  BY <1>0
<1>2. sso \in [Login -> 0..MaxRotations] /\ sso[s] \in Nat /\ MaxRotations \in Nat
  BY SessionsFacts, SessionsConstants
<1>3. CASE Granted(c) /\ UNCHANGED sso
  <2> DEFINE x == [calls[c] EXCEPT !.pc = "granted", !.token = NoToken]
  <2>1. calls' = [calls EXCEPT ![c] = x]
    BY <1>3 DEF Granted
  <2>2. x \in AccountCalls /\ x.pc = "granted" /\ x.session = calls[c].session
    BY <1>0, SessionsConstants DEF AccountCalls
  <2> HIDE DEF x
  <2>3. calls' \in [AccountCall -> AccountCalls] /\ calls'[c] = x /\ \A d \in AccountCall \ {c} : calls'[d] = calls[d]
    BY <1>0, <2>1, <2>2
  <2>4. clock' \in 0..MaxNow
    BY <1>0, SessionsFacts
  <2> QED BY <1>0, <1>3, <2>2, <2>3, <2>4, SameIsSame, LoginStays, QuietStep
<1>4. CASE /\ sso[calls[c].token.of] < MaxRotations
           /\ sso' = [sso EXCEPT ![calls[c].token.of] = @ + 1]
           /\ calls' = [calls EXCEPT ![c].pc = "store", ![c].token.k = sso[calls[c].token.of] + 1]
  <2>1. PICK k \in 0..MaxRotations : k = sso[s] + 1
    BY <1>0, <1>1, <1>2, <1>4
  <2>2. sso' = [sso EXCEPT ![s] = k]
    BY <1>0, <1>1, <1>4, <2>1
  <2> DEFINE x == [calls[c] EXCEPT !.pc = "store", !.token.k = k]
  <2>3. calls' = [calls EXCEPT ![c] = x]
    BY <1>0, <1>1, <1>4, <2>1
  <2>4. x \in AccountCalls /\ x.pc = "store" /\ x.session = s /\ x.token.k = k /\ x.token.of = s
    BY <1>0, <1>1 DEF AccountCalls, Tokens
  <2> HIDE DEF x
  <2>5. calls'[c] = x /\ \A d \in AccountCall \ {c} : calls'[d] = calls[d]
    BY <1>0, <2>3
  <2>6. sso' \in [Login -> 0..MaxRotations] /\ sso'[s] = k /\ \A n \in Login \ {s} : sso'[n] = sso[n]
    BY <1>2, <2>1, <2>2
  <2>7. SessionsTypeOK' /\ Owned' /\ OneSessionPerLogin'
    <3>1. \A n \in Login : /\ session'[n].token = NoToken \/ session'[n].token.of = n
                           /\ session[n].state = "none" => sso'[n] = 0
      BY <1>0, <1>1, <2>6 DEF SessionsInv, Owned, Existing
    <3>2. session' \in [Login -> SessionRows] /\ cut' \subseteq Login
      BY <1>0, SessionsFacts
    <3> QED BY <1>0, <1>1, <2>3, <2>4, <2>6, <3>1, <3>2, RequestMoved
  <2>8. ASSUME OneUse PROVE Latest'
    <3>1. calls[c].token.k = sso[s]
      BY <1>0, <1>1, <2>8 DEF Accepted
    <3>2. \A d \in AccountCall : calls[d].session = s => calls[d].pc # "store"
      BY <1>0, <1>1, <2>8, <3>1, <1>2 DEF SessionsInv, Rotation, Latest
    <3>3. \A n \in Login : session[n].token # NoToken => session[n].token.k <= sso[n] /\ session[n].token.k \in Nat
      BY <2>8, SessionsFacts DEF SessionsInv, Rotation, Latest
    <3>4. \A d \in AccountCall : calls[d].pc = "refresh" => calls[d].token.k <= sso[calls[d].session]
        /\ calls[d].token.k \in Nat
                                                              /\ calls[d].session \in Login
      BY <2>8, SessionsFacts DEF SessionsInv, Rotation, Latest
    <3>5. \A n \in Login : session'[n].token # NoToken => session'[n].token.k <= sso'[n]
      BY <1>0, <1>2, <2>1, <2>6, <3>3
    <3>6. \A d \in AccountCall : calls'[d].pc = "refresh" => calls'[d].token.k <= sso'[calls'[d].session]
      <4>1. ASSUME NEW d \in AccountCall, calls'[d].pc = "refresh" PROVE calls'[d].token.k <= sso'[calls'[d].session]
        <5>1. calls'[d] = calls[d]
          BY <2>4, <2>5, <4>1
        <5>2. calls[d].token.k <= sso[calls[d].session] /\ calls[d].token.k \in Nat /\ calls[d].session \in Login
          BY <3>4, <4>1, <5>1
        <5>3. CASE calls[d].session = s
          BY <1>2, <2>1, <2>6, <5>1, <5>2, <5>3
        <5>4. CASE calls[d].session # s
          BY <2>6, <5>1, <5>2, <5>4
        <5> QED BY <5>3, <5>4
      <4> QED BY <4>1
    <3>7. ASSUME NEW d \in AccountCall, calls'[d].pc = "store"
          PROVE  LET n == calls'[d].session
                 IN /\ calls'[d].token.k = sso'[n]
                    /\ session'[n].token # NoToken => session'[n].token.k < sso'[n]
                    /\ \A e \in AccountCall \ {d} : calls'[e].session = n =>
                          /\ calls'[e].pc # "store"
                          /\ calls'[e].pc = "refresh" => calls'[e].token.k < sso'[n]
      <4>1. CASE d = c
        <5>1. session'[s].token # NoToken => session'[s].token.k < k
          BY <1>0, <1>2, <2>1, <3>3
        <5>2. ASSUME NEW e \in AccountCall \ {c}, calls'[e].session = s
              PROVE  calls'[e].pc # "store" /\ (calls'[e].pc = "refresh" => calls'[e].token.k < k)
          BY <1>2, <2>1, <2>5, <3>2, <3>4, <5>2
        <5> QED BY <2>4, <2>5, <2>6, <4>1, <5>1, <5>2
      <4>2. CASE d # c
        <5>1. calls'[d] = calls[d] /\ calls[d].session \in Login /\ calls[d].session # s
          BY <2>5, <3>2, <3>7, <4>2, SessionsFacts
        <5>2. /\ calls[d].token.k = sso[calls[d].session]
              /\ session[calls[d].session].token # NoToken => session[calls[d].session].token.k < sso[calls[d].session]
              /\ \A e \in AccountCall \ {d} : calls[e].session = calls[d].session =>
                            /\ calls[e].pc # "store"
                            /\ calls[e].pc = "refresh" => calls[e].token.k < sso[calls[d].session]
          BY <2>8, <3>7, <5>1 DEF SessionsInv, Rotation, Latest
        <5>3. sso'[calls[d].session] = sso[calls[d].session]
          BY <2>6, <5>1
        <5>4. \A e \in AccountCall : calls'[e] = calls[e] \/ calls'[e].session = s
          BY <2>4, <2>5
        <5> QED BY <1>0, <5>1, <5>2, <5>3, <5>4
      <4> QED BY <4>1, <4>2
    <3> QED BY <3>5, <3>6, <3>7 DEF Latest
  <2>9. TokenKept'
    <3>1. ASSUME NEW n \in Existing', session'[n].state = "live", session'[n].token # NoToken
          PROVE  \/ OneUse => session'[n].token.k = sso'[session'[n].token.of]
                 \/ n \in cut'
                 \/ \E d \in AccountCall : calls'[d].pc = "store" /\ calls'[d].session = n
                                             /\ (OneUse => calls'[d].token.k = sso'[calls'[d].token.of])
      <4>1. CASE n = s
        BY <2>4, <2>5, <2>6, <4>1
      <4>2. CASE n # s
        <5>1. n \in Login /\ n \in Existing /\ session[n].token.of = n
          BY <1>0, <3>1 DEF Existing, SessionsInv, Owned
        <5>2. \/ OneUse => session[n].token.k = sso[session[n].token.of]
              \/ n \in cut
              \/ \E d \in AccountCall : calls[d].pc = "store" /\ calls[d].session = n /\ calls[d].token.of = n
                                          /\ (OneUse => calls[d].token.k = sso[calls[d].token.of])
          BY <1>0, <3>1, <5>1 DEF SessionsInv, TokenKept, Accepted, Owned
        <5>3. \A d \in AccountCall : calls[d].pc = "store" => calls'[d] = calls[d]
          BY <1>0, <2>5
        <5> QED BY <1>0, <2>6, <4>2, <5>1, <5>2, <5>3
      <4> QED BY <4>1, <4>2
    <3> QED BY <3>1 DEF TokenKept, Accepted
  <2> QED BY <2>7, <2>8, <2>9 DEF SessionsInv, Rotation
<1> QED BY <1>3, <1>4 DEF RefreshAccess

\* The new token is stored, or lost: nobody else has it.
LEMMA StoreSteps ==
    ASSUME SessionsInv, NEW c \in AccountCall, StoreToken(c) \/ TokenLost(c) PROVE SessionsInv'
<1>0. /\ calls[c].pc = "store" /\ UNCHANGED <<login, sso, clock>> /\ calls \in [AccountCall -> AccountCalls]
      /\ calls[c].session \in Login /\ calls[c].session \in Existing /\ calls[c].token.of = calls[c].session
      /\ calls[c] \in AccountCalls /\ calls[c].token \in Tokens /\ session \in [Login -> SessionRows]
  BY SessionsFacts DEF StoreToken, TokenLost, SessionsInv, Owned
<1>1. PICK s \in Login : s = calls[c].session
  BY <1>0
<1>2. PICK t \in Tokens : t = calls[c].token
  BY <1>0
<1>3. PICK x \in AccountCalls : calls' = [calls EXCEPT ![c] = x] /\ x.pc \in {"idle", "granted"}
    /\ (x.pc = "granted" => x.session = s)
  <2>1. CASE StoreToken(c)
    <3> DEFINE y == [calls[c] EXCEPT !.pc = "granted", !.token = NoToken]
    <3>1. y \in AccountCalls /\ y.pc = "granted" /\ y.session = s
      BY <1>0, <1>1, SessionsConstants DEF AccountCalls
    <3>2. calls' = [calls EXCEPT ![c] = y]
      BY <2>1 DEF StoreToken, Granted
    <3> HIDE DEF y
    <3> QED BY <3>1, <3>2
  <2>2. CASE TokenLost(c)
    BY <2>2, SessionsConstants DEF TokenLost, Closed
  <2> QED BY <2>1, <2>2
<1>4. /\ calls'[c] = x /\ \A d \in AccountCall \ {c} : calls'[d] = calls[d]
  BY <1>0, <1>3
<1>5. /\ session' \in [Login -> SessionRows]
      /\ \A n \in Login : /\ session'[n].state = session[n].state /\ session'[n].who = session[n].who
                          /\ session'[n].until = session[n].until /\ session'[n].first = session[n].first
      /\ \A n \in Login : session'[n].token = session[n].token
                            \/ (n = s /\ session[s].state = "live" /\ session'[s].token = t)
      /\ s \in cut' \/ session[s].state # "live" \/ session'[s].token = t
      /\ cut \subseteq cut' /\ cut' \subseteq Login
  <2>1. CASE TokenLost(c)
    BY <1>0, <1>1, <2>1, SessionsFacts DEF TokenLost
  <2>2. CASE StoreToken(c) /\ session[s].state # "live"
    BY <1>0, <1>1, <2>2, SessionsFacts DEF StoreToken
  <2>3. CASE StoreToken(c) /\ session[s].state = "live"
    <3> DEFINE y == [session[s] EXCEPT !.token = t]
    <3>1. session' = [session EXCEPT ![s] = y] /\ cut' = cut
      BY <1>1, <1>2, <2>3 DEF StoreToken, NewToken
    <3>2. /\ y \in SessionRows /\ y.state = session[s].state /\ y.who = session[s].who
          /\ y.until = session[s].until /\ y.first = session[s].first /\ y.token = t
      BY <1>0 DEF SessionRows
    <3> HIDE DEF y
    <3>3. session' \in [Login -> SessionRows] /\ session'[s] = y /\ \A n \in Login \ {s} : session'[n] = session[n]
      BY <1>0, <3>1, <3>2
    <3> QED BY <2>3, <3>1, <3>2, <3>3, SessionsFacts
  <2> QED BY <2>1, <2>2, <2>3
<1>6. SessionsTypeOK' /\ Owned' /\ OneSessionPerLogin'
  <2>1. \A n \in Login : /\ session'[n].token = NoToken \/ session'[n].token.of = n
                         /\ session[n].state = "revoked" => session'[n].token = session[n].token
                         /\ session[n].state = "none" => sso'[n] = 0
    BY <1>0, <1>1, <1>2, <1>5 DEF SessionsInv, Owned
  <2>2. sso' \in [Login -> 0..MaxRotations]
    BY <1>0, SessionsFacts
  <2> QED BY <1>0, <1>1, <1>3, <1>5, <2>1, <2>2, RequestMoved
<1>7. ASSUME OneUse PROVE Latest' /\ t.k = sso[s]
  <2>1. t.k = sso[s]
    BY <1>0, <1>1, <1>2, <1>7 DEF SessionsInv, Rotation, Latest
  <2>2. \A d \in AccountCall \ {c} : calls[d].session = s => calls[d].pc # "store"
    BY <1>0, <1>1, <1>7 DEF SessionsInv, Rotation, Latest
  <2>3. \A n \in Login : session'[n].token # NoToken => session'[n].token.k <= sso'[n]
    <3>1. ASSUME NEW n \in Login, session'[n].token # NoToken PROVE session'[n].token.k <= sso'[n]
      <4>1. CASE session'[n].token = session[n].token
        BY <1>0, <1>7, <3>1, <4>1 DEF SessionsInv, Rotation, Latest
      <4>2. CASE n = s /\ session'[s].token = t
        BY <1>0, <2>1, <4>2, SessionsFacts
      <4> QED BY <1>5, <4>1, <4>2
    <3> QED BY <3>1
  <2>4. \A d \in AccountCall : calls'[d].pc = "refresh" => calls'[d].token.k <= sso'[calls'[d].session]
    BY <1>0, <1>3, <1>4, <1>7 DEF SessionsInv, Rotation, Latest
  <2>5. ASSUME NEW d \in AccountCall, calls'[d].pc = "store"
        PROVE  LET n == calls'[d].session
               IN /\ calls'[d].token.k = sso'[n]
                  /\ session'[n].token # NoToken => session'[n].token.k < sso'[n]
                  /\ \A e \in AccountCall \ {d} : calls'[e].session = n =>
                        /\ calls'[e].pc # "store"
                        /\ calls'[e].pc = "refresh" => calls'[e].token.k < sso'[n]
    <3>1. d # c /\ calls'[d] = calls[d] /\ calls[d].session \in Login /\ calls[d].session # s
      BY <1>3, <1>4, <2>2, <2>5, SessionsFacts
    <3>2. session'[calls[d].session].token = session[calls[d].session].token
      BY <1>5, <3>1
    <3>3. /\ calls[d].token.k = sso[calls[d].session]
          /\ session[calls[d].session].token # NoToken => session[calls[d].session].token.k < sso[calls[d].session]
          /\ \A e \in AccountCall \ {d} : calls[e].session = calls[d].session =>
                        /\ calls[e].pc # "store"
                        /\ calls[e].pc = "refresh" => calls[e].token.k < sso[calls[d].session]
      BY <1>7, <2>5, <3>1 DEF SessionsInv, Rotation, Latest
    <3>4. \A e \in AccountCall : calls'[e] = calls[e] \/ calls'[e].pc \in {"idle", "granted"}
      BY <1>3, <1>4
    <3> QED BY <1>0, <3>1, <3>2, <3>3, <3>4
  <2> QED BY <2>1, <2>3, <2>4, <2>5 DEF Latest
<1>8. TokenKept'
  <2>1. ASSUME NEW n \in Existing', session'[n].state = "live", session'[n].token # NoToken
        PROVE  \/ OneUse => session'[n].token.k = sso'[session'[n].token.of]
               \/ n \in cut'
               \/ \E d \in AccountCall : calls'[d].pc = "store" /\ calls'[d].session = n
                                           /\ (OneUse => calls'[d].token.k = sso'[calls'[d].token.of])
    <3>1. n \in Login /\ n \in Existing /\ session[n].state = "live"
      BY <1>5, <2>1 DEF Existing
    <3>2. CASE n = s
      BY <1>0, <1>1, <1>2, <1>5, <1>7, <3>1, <3>2
    <3>3. CASE n # s
      <4>1. session'[n].token = session[n].token
        BY <1>5, <3>1, <3>3
      <4>2. \/ OneUse => session[n].token.k = sso[session[n].token.of]
            \/ n \in cut
            \/ \E d \in AccountCall : calls[d].pc = "store" /\ calls[d].session = n
                                        /\ (OneUse => calls[d].token.k = sso[calls[d].token.of])
        BY <2>1, <3>1, <4>1 DEF SessionsInv, TokenKept, Accepted
      <4> QED BY <1>0, <1>1, <1>4, <1>5, <3>3, <4>1, <4>2
    <3> QED BY <3>2, <3>3
  <2> QED BY <2>1 DEF TokenKept, Accepted
<1> QED BY <1>6, <1>7, <1>8 DEF SessionsInv, Rotation

\* The inductive invariant holds at the start.
LEMMA SessionsStart == SessionsInit => SessionsInv
<1> SUFFICES ASSUME SessionsInit PROVE SessionsInv
  OBVIOUS
<1>1. First \in Login => [state |-> "live", who |-> CHOOSE p \in Person : TRUE, until |-> MaxAge, seen |-> 0,
                          first |-> First, token |-> [of |-> First, k |-> 0]] \in SessionRows
  BY SessionsConstants DEF SessionRows
<1>2. \A l \in Login : /\ session[l] \in SessionRows /\ sso[l] = 0
                       /\ l # First => session[l] = NoSession
                       /\ l = First => /\ session[l].state = "live" /\ session[l].token = [of |-> l, k |-> 0]
                                       /\ session[l].first = l /\ login[l] = EndedLogin
                       /\ login[l] \in {EndedLogin, NoLogin}
  BY <1>1, SessionsConstants DEF SessionsInit
<1>3. SessionsTypeOK
  <2>1. login \in [Login -> LoginRows] /\ session \in [Login -> SessionRows]
      /\ calls \in [AccountCall -> AccountCalls]
    BY <1>2, SessionsConstants DEF SessionsInit
  <2>2. sso \in [Login -> 0..MaxRotations] /\ clock \in 0..MaxNow /\ cut \subseteq Login
    BY SessionsConstants DEF SessionsInit
  <2> QED BY <2>1, <2>2 DEF SessionsTypeOK
<1>4. \A s \in Login : session[s].state # "none" => s = First
  BY <1>2, SessionsConstants
<1>9. ASSUME NEW s \in Login PROVE session[s].token = NoToken \/ (session[s].token.of = s /\ session[s].token.k = 0)
  <2>1. CASE s = First
    <3>1. session[s].token = [of |-> s, k |-> 0]
      BY <1>2, <2>1
    <3> QED BY <3>1
  <2>2. CASE s # First
    <3>1. session[s] = NoSession /\ NoSession.token = NoToken
      BY <1>2, <2>2, SessionsConstants
    <3> QED BY <3>1
  <2> QED BY <2>1, <2>2
<1>5. Owned
  <2>1. \A c \in AccountCall : calls[c].pc = "idle"
    BY SessionsConstants DEF SessionsInit
  <2>2. ASSUME NEW s \in Login, session[s].state # "none" PROVE login[s].pc = "ended" /\ session[s].first \in Existing
    BY <1>2, <1>4, <2>2, SessionsConstants DEF Existing
  <2>3. ASSUME NEW s \in Login PROVE session[s].token = NoToken \/ session[s].token.of = s
    BY <1>9
  <2>4. ASSUME NEW l \in Login PROVE login[l].pc # "create"
    BY <1>2, SessionsConstants
  <2> QED BY <1>2, <2>1, <2>2, <2>3, <2>4 DEF Owned
<1>6. OneSessionPerLogin
  BY <1>2, <1>4 DEF OneSessionPerLogin, Existing
<1>7. Rotation
  <2>1. \A c \in AccountCall : calls[c].pc = "idle"
    BY SessionsConstants DEF SessionsInit
  <2>2. ASSUME NEW s \in Login, session[s].token # NoToken PROVE session[s].token.k <= sso[s]
    <3>1. session[s].token.k = 0 /\ sso[s] = 0
      BY <1>2, <1>9, <2>2
    <3> QED BY <3>1
  <2> QED BY <2>1, <2>2 DEF Rotation, Latest
<1>8. TokenKept
  <2>1. ASSUME NEW s \in Login, session[s].token # NoToken PROVE session[s].token.k = sso[session[s].token.of]
    BY <1>2, <1>9, <2>1
  <2> QED BY <2>1 DEF TokenKept, Accepted, Existing
<1> QED BY <1>3, <1>5, <1>6, <1>7, <1>8 DEF SessionsInv

\* Every step keeps it.
LEMMA SessionsStep == SessionsInv /\ [SessionsNext]_sessionsVars => SessionsInv'
<1> SUFFICES ASSUME SessionsInv, [SessionsNext]_sessionsVars PROVE SessionsInv'
  OBVIOUS
<1>1. CASE \E l \in Login : StartLogin(l) \/ CallbackFails(l) \/ CreateSession(l) \/ (\E p \in Person : CompleteLogin(l, p))
                              \/ (\E s \in Existing : StartAction(l, s))
  BY <1>1, LoginSteps, CreateStep
<1>2. CASE (\E s \in Existing : Logout(s)) \/ TimePasses \/ (\E s \in Existing : ShowWorkspace(s))
  <2>1. CASE \E s \in Existing : Logout(s)
    BY <2>1, LogoutStep
  <2>2. CASE TimePasses \/ (\E s \in Existing : ShowWorkspace(s))
    <3>1. clock \in 0..MaxNow /\ clock \in Nat /\ MaxNow \in Nat /\ calls \in [AccountCall -> AccountCalls]
      BY SessionsFacts, SessionsConstants
    <3>2. CASE TimePasses
      <4>1. clock' \in 0..MaxNow /\ UNCHANGED <<login, session, sso, calls, cut>>
        BY <3>1, <3>2 DEF TimePasses
      <4> QED BY <3>1, <4>1, SameIsSame, LoginStays, QuietStep
    <3>3. CASE \E s \in Existing : ShowWorkspace(s)
      <4>1. PICK s \in Existing : ShowWorkspace(s)
        BY <3>3
      <4>2. s \in Login /\ session' = Touched(s) /\ UNCHANGED <<login, sso, calls, clock, cut>>
        BY <4>1 DEF ShowWorkspace, Existing
      <4> QED BY <3>1, <4>2, TouchedIs, LoginStays, QuietStep
    <3> QED BY <2>2, <3>2, <3>3
  <2> QED BY <1>2, <2>1, <2>2
<1>3. CASE \E c \in AccountCall :
              \/ \E s \in Existing : AskAccount(c, s)
              \/ AccessRefused(c) \/ RefreshAccess(c) \/ StoreToken(c) \/ TokenLost(c) \/ ShowAccount(c) \/ ChangeAccount(c)
              \/ \E l \in Login : BeginAction(c, l)
  BY <1>3, AskStep, RequestSteps, RefreshStep, StoreSteps
<1>4. CASE UNCHANGED sessionsVars
  <2>1. UNCHANGED <<login, session, sso, calls, clock, cut>>
    BY <1>4 DEF sessionsVars
  <2>2. calls' \in [AccountCall -> AccountCalls] /\ clock' \in 0..MaxNow
    BY <2>1, SessionsFacts
  <2> QED BY <2>1, <2>2, SameIsSame, LoginStays, QuietStep
<1> QED BY <1>1, <1>2, <1>3, <1>4 DEF SessionsNext

\* The inductive invariant of the sessions holds throughout.
THEOREM SessionsInvariant == SessionsSpec => []SessionsInv
BY SessionsStart, SessionsStep, PTL DEF SessionsSpec

\* Every variable of the sessions has its type.
THEOREM SessionsTyped == SessionsSpec => []SessionsTypeOK
<1>1. SessionsInv => SessionsTypeOK
  BY DEF SessionsInv
<1> QED BY <1>1, SessionsInvariant, PTL

\* However often a login is continued for a confirmation, it has one live session, of one person and
\* of one end, and a session that was revoked keeps no token.
THEOREM LoginHasOneSession == SessionsSpec => []OneSessionPerLogin
<1>1. SessionsInv => OneSessionPerLogin
  BY DEF SessionsInv
<1> QED BY <1>1, SessionsInvariant, PTL

\* Where a refreshed token replaces the one before, a live session keeps one that can be used, or a
\* request is about to store it, unless a request stopped or lost a race in between.
THEOREM LatestTokenKept == SessionsSpec => []TokenKept
<1>1. SessionsInv => TokenKept
  BY DEF SessionsInv
<1> QED BY <1>1, SessionsInvariant, PTL

-----------------------------------------------------------------------------
(* The limit of the codes of an account. *)

\* What the assumption says of each number.
LEMMA OtpConstants ==
    /\ CodesPerHour \in Nat /\ CodeWindow \in Nat /\ MaxTick \in Nat /\ MaxWrong \in Nat
    /\ Number \cap {"kk", "email", "account", "none"} = {}
  BY OtpAssumption

\* A set of natural numbers has a least one.
LEMMA EarliestOf ==
  ASSUME NEW S, S \subseteq Nat, S # {}
  PROVE  \E x \in S : \A y \in S : x <= y
<1>1. PICK x \in S : \A y \in S : <<y, x>> \notin OpToRel(<, Nat)
  BY NatLessThanWellFounded, WFMin
<1>2. \A y \in S : ~(y < x)
  BY <1>1 DEF OpToRel
<1>. QED  BY <1>2

\* What is pruned is old, and the first that stays is not.
LEMMA PrunedIs ==
  ASSUME tick \in Nat, NEW s \in Seq(Nat)
  PROVE  /\ Pruned(s) \in 0..Len(s)
         /\ \A i \in 1..Pruned(s) : s[i] <= Cutoff
         /\ Pruned(s) = Len(s) \/ s[Pruned(s) + 1] > Cutoff
<1>. DEFINE S == {n \in 0..Len(s) : n = Len(s) \/ s[n + 1] > Cutoff}
<1>1. Cutoff \in Int /\ Len(s) \in Nat /\ \A i \in 1..Len(s) : s[i] \in Nat
  BY OtpConstants DEF Cutoff
<1>2. S \subseteq Nat /\ Len(s) \in S
  BY <1>1
<1>3. PICK n \in S : \A m \in S : n <= m
  BY <1>2, EarliestOf
<1>4. ASSUME NEW i \in 1..n PROVE s[i] <= Cutoff
  <2>1. n \in 0..Len(s)
    BY <1>3
  <2>2. i - 1 \in 0..Len(s) /\ i - 1 # Len(s) /\ (i - 1) + 1 = i /\ ~(n <= i - 1)
    BY <1>1, <2>1
  <2>3. i - 1 \notin S
    BY <1>3, <2>2
  <2>. QED  BY <1>1, <2>1, <2>2, <2>3
<1>. DEFINE P(m) == (\A i \in 1..m : s[i] <= Cutoff) /\ (m = Len(s) \/ s[m + 1] > Cutoff)
<1>5. \E m \in 0..Len(s) : P(m)
  BY <1>3, <1>4
<1>6. Pruned(s) = CHOOSE m \in 0..Len(s) : P(m)
  BY DEF Pruned
<1>. HIDE DEF P
<1>7. Pruned(s) \in 0..Len(s) /\ P(Pruned(s))
  BY <1>5, <1>6, Zenon
<1>. QED  BY <1>7 DEF P

\* What stays is the end of the log; counted from the end, nothing moves.
LEMMA RecentIs ==
  ASSUME tick \in Nat, NEW s \in Seq(Nat)
  PROVE  LET r == Recent(s)
         IN /\ r \in Seq(Nat) /\ Len(r) \in 0..Len(s)
            /\ \A j \in 0..(Len(r) - 1) : r[Len(r) - j] = s[Len(s) - j]
            /\ \A j \in Len(r)..(Len(s) - 1) : s[Len(s) - j] <= Cutoff
            /\ Len(r) > 0 => r[1] > Cutoff
<1>. DEFINE n == Pruned(s)
            r == Recent(s)
<1>1. /\ n \in 0..Len(s) /\ \A i \in 1..n : s[i] <= Cutoff
      /\ n = Len(s) \/ s[n + 1] > Cutoff
  BY PrunedIs
<1>2. Len(s) \in Nat /\ \A i \in 1..Len(s) : s[i] \in Nat
  OBVIOUS
<1>. HIDE DEF n
<1>3. r = SubSeq(s, n + 1, Len(s))
  BY DEF Recent, n
<1>. HIDE DEF r
<1>4. /\ r \in Seq(Nat) /\ Len(r) = Len(s) - n
      /\ \A i \in 1..Len(r) : r[i] = s[n + i]
  BY <1>1, <1>2, <1>3
<1>5. \A j \in 0..(Len(r) - 1) : r[Len(r) - j] = s[Len(s) - j]
  <2>. TAKE j \in 0..(Len(r) - 1)
  <2>1. Len(r) - j \in 1..Len(r) /\ n + (Len(r) - j) = Len(s) - j
    BY <1>1, <1>2, <1>4
  <2>. QED  BY <1>4, <2>1
<1>6. \A j \in Len(r)..(Len(s) - 1) : Len(s) - j \in 1..n
  BY <1>1, <1>2, <1>4
<1>7. Len(r) > 0 => r[1] > Cutoff
  BY <1>1, <1>2, <1>4
<1>8. Len(r) \in 0..Len(s)
  BY <1>1, <1>2, <1>4
<1>. QED  BY <1>1, <1>4, <1>5, <1>6, <1>7, <1>8 DEF r

\* The codes counted for the account.
Account == counted["account"]

\* A log of moments that have been, in their order.
Log(s) ==
    /\ s \in Seq(Nat)
    /\ \A i \in DOMAIN s : s[i] <= tick
    /\ \A i, j \in DOMAIN s : i <= j => s[i] <= s[j]

\* Of the codes counted for the account all but the last CodesPerHour are old.
Bounded == \A j \in CodesPerHour..(Len(Account) - 1) : Account[Len(Account) - j] <= Cutoff

\* The codes that left, counted from the end, are no later than those counted, as
\* far as they are of the window.
Covered ==
    \A j \in 0..(Len(resets) - 1) :
        resets[Len(resets) - j] > Cutoff =>
            j < Len(Account) /\ resets[Len(resets) - j] <= Account[Len(Account) - j]

\* The inductive invariant of the limiter.
LimitInv == tick \in Nat /\ Log(Account) /\ Log(resets) /\ Bounded /\ Covered

\* A pruned log is a log, and so is one to which this moment is added.
LEMMA LogsStay ==
  ASSUME tick \in Nat, NEW s, Log(s)
  PROVE  /\ Log(Recent(s)) /\ Log(Append(Recent(s), tick))
         /\ Len(Append(Recent(s), tick)) = Len(Recent(s)) + 1
<1>. DEFINE r == Recent(s)
            a == Append(r, tick)
<1>1. s \in Seq(Nat) /\ Len(s) \in Nat /\ DOMAIN s = 1..Len(s) /\ \A i \in DOMAIN s : s[i] \in Nat
  BY DEF Log
<1>2. /\ r \in Seq(Nat) /\ Len(r) \in 0..Len(s)
      /\ \A j \in 0..(Len(r) - 1) : r[Len(r) - j] = s[Len(s) - j]
  BY <1>1, RecentIs
<1>. HIDE DEF r
<1>3. DOMAIN r = 1..Len(r) /\ Len(r) \in Nat /\ \A i \in DOMAIN r : r[i] \in Nat
  BY <1>2
<1>4. \A i \in DOMAIN r : r[i] = s[i + (Len(s) - Len(r))] /\ i + (Len(s) - Len(r)) \in DOMAIN s
  <2>. TAKE i \in DOMAIN r
  <2>1. Len(r) - i \in 0..(Len(r) - 1) /\ Len(r) - (Len(r) - i) = i
        /\ Len(s) - (Len(r) - i) = i + (Len(s) - Len(r))
    BY <1>1, <1>3
  <2>2. i + (Len(s) - Len(r)) \in DOMAIN s
    BY <1>1, <1>2, <1>3
  <2>. QED  BY <1>2, <2>1, <2>2
<1>5. \A i, j \in DOMAIN r : i <= j => r[i] <= r[j]
  <2>. TAKE i, j \in DOMAIN r
  <2>. HAVE i <= j
  <2>. DEFINE d == Len(s) - Len(r)
  <2>1. d \in Int /\ i \in Int /\ j \in Int
    BY <1>1, <1>3
  <2>2. r[i] = s[i + d] /\ r[j] = s[j + d] /\ i + d \in DOMAIN s /\ j + d \in DOMAIN s
    BY <1>4
  <2>. HIDE DEF d
  <2>3. i + d <= j + d
    BY <2>1
  <2>. QED  BY <2>2, <2>3 DEF Log
<1>6. \A i \in DOMAIN r : r[i] <= tick
  BY <1>4 DEF Log
<1>7. Log(r)
  BY <1>2, <1>5, <1>6 DEF Log
<1>8. /\ a \in Seq(Nat) /\ Len(a) = Len(r) + 1
      /\ \A i \in DOMAIN a : (i \in DOMAIN r /\ a[i] = r[i]) \/ (i = Len(r) + 1 /\ a[i] = tick)
  <2>1. a \in Seq(Nat) /\ Len(a) = Len(r) + 1
    BY <1>2
  <2>2. DOMAIN a = 1..(Len(r) + 1)
    BY <2>1
  <2>3. \A i \in 1..(Len(r) + 1) : a[i] = IF i <= Len(r) THEN r[i] ELSE tick
    BY <1>2
  <2>4. \A i \in 1..(Len(r) + 1) : i \in 1..Len(r) \/ (i = Len(r) + 1 /\ ~(i <= Len(r)))
    BY <1>3
  <2>. QED  BY <1>3, <2>1, <2>2, <2>3, <2>4
<1>. HIDE DEF a
<1>9. Log(a)
  <2>1. \A i \in DOMAIN a : a[i] <= tick
    BY <1>6, <1>8
  <2>2. \A i, j \in DOMAIN a : i <= j => a[i] <= a[j]
    <3>. TAKE i, j \in DOMAIN a
    <3>. HAVE i <= j
    <3>1. CASE j = Len(r) + 1
      <4>1. a[j] = tick
        BY <1>3, <1>8, <3>1
      <4>. QED  BY <2>1, <4>1
    <3>2. CASE j \in DOMAIN r
      <4>1. i \in DOMAIN r
        BY <1>3, <1>8, <3>2
      <4>2. i # Len(r) + 1 /\ j # Len(r) + 1
        BY <1>3, <3>2, <4>1
      <4>3. a[i] = r[i] /\ a[j] = r[j]
        BY <1>8, <4>2
      <4>. QED  BY <1>5, <3>2, <4>1, <4>3
    <3>. QED  BY <1>8, <3>1, <3>2
  <2>. QED  BY <1>8, <2>1, <2>2 DEF Log
<1>. QED  BY <1>7, <1>8, <1>9 DEF r, a

\* What is taken from the limiter for the account: nothing, or this moment where there is room.
LEMMA TakenFrom ==
  ASSUME NEW keys, DOMAIN keys \subseteq Nat \ {0}, counted' = TakeFrom(keys)
  PROVE  /\ \/ Account' = Recent(Account)
            \/ RoomFor("account") /\ Account' = Append(Recent(Account), tick)
         /\ \A i \in DOMAIN keys :
               keys[i] = "account" /\ Allowed(keys) /\ i \in 1..i /\ (\A j \in 1..i : j \in DOMAIN keys) =>
                   RoomFor("account") /\ Account' = Append(Recent(Account), tick)
<1>. DEFINE got == {i \in DOMAIN keys : \A j \in 1..i : RoomFor(keys[j])}
<1>1. Account' = IF \E i \in got : keys[i] = "account" THEN Append(Recent(Account), tick) ELSE Recent(Account)
  BY DEF TakeFrom, Account, Key
<1>2. ASSUME NEW i \in got, keys[i] = "account", i \in 1..i PROVE RoomFor("account")
  BY <1>2
<1>3. ASSUME NEW i \in got, keys[i] = "account" PROVE Account' = Append(Recent(Account), tick)
  BY <1>1, <1>3
<1>4. ASSUME NEW i \in DOMAIN keys, Allowed(keys), \A j \in 1..i : j \in DOMAIN keys PROVE i \in got
  BY <1>4 DEF Allowed
<1>5. (~ \E i \in got : keys[i] = "account") => Account' = Recent(Account)
  BY <1>1
<1>6. \A i \in got : i \in 1..i
  OBVIOUS
<1>. HIDE DEF got
<1>. QED  BY <1>2, <1>3, <1>4, <1>5, <1>6

\* Counted from its end, a log to which this moment is added.
LEMMA AddedIs ==
  ASSUME tick \in Nat, NEW s \in Seq(Nat)
  PROVE  LET b == Append(s, tick)
         IN /\ Len(b) = Len(s) + 1 /\ b[Len(b) - 0] = tick
            /\ \A j \in 1..(Len(b) - 1) : /\ b[Len(b) - j] = s[Len(s) - (j - 1)]
                                          /\ j - 1 \in 0..(Len(s) - 1)
<1>. DEFINE b == Append(s, tick)
<1>1. Len(s) \in Nat /\ Len(b) = Len(s) + 1
  OBVIOUS
<1>2. \A i \in 1..(Len(s) + 1) : b[i] = IF i <= Len(s) THEN s[i] ELSE tick
  OBVIOUS
<1>. HIDE DEF b
<1>3. ASSUME NEW j \in 1..(Len(b) - 1)
      PROVE  b[Len(b) - j] = s[Len(s) - (j - 1)] /\ j - 1 \in 0..(Len(s) - 1)
  <2>1. /\ Len(b) - j \in 1..(Len(s) + 1) /\ Len(b) - j <= Len(s) /\ Len(b) - j = Len(s) - (j - 1)
        /\ j - 1 \in 0..(Len(s) - 1)
    BY <1>1
  <2>. QED  BY <1>2, <2>1
<1>. QED  BY <1>1, <1>2, <1>3 DEF b

\* The limiter moves: it is pruned, and a code that leaves is counted for the account.
LEMMA LimitMoves ==
  ASSUME LimitInv, tick' = tick,
         \/ Account' = Recent(Account)
         \/ RoomFor("account") /\ Account' = Append(Recent(Account), tick),
         \/ resets' = resets
         \/ resets' = Recent(resets)
         \/ /\ RoomFor("account") /\ Account' = Append(Recent(Account), tick)
            /\ resets' = Append(Recent(resets), tick)
  PROVE  LimitInv'
<1>. DEFINE A == Account
            R == resets
            a == Recent(A)
            r == Recent(R)
<1>1. tick \in Nat /\ Log(A) /\ Log(R)
  BY DEF LimitInv
<1>2. A \in Seq(Nat) /\ R \in Seq(Nat)
  BY <1>1 DEF Log
<1>3. /\ a \in Seq(Nat) /\ Len(a) \in 0..Len(A)
      /\ \A j \in 0..(Len(a) - 1) : a[Len(a) - j] = A[Len(A) - j]
      /\ \A j \in Len(a)..(Len(A) - 1) : A[Len(A) - j] <= Cutoff
  BY <1>1, <1>2, RecentIs
<1>4. /\ r \in Seq(Nat) /\ Len(r) \in 0..Len(R)
      /\ \A j \in 0..(Len(r) - 1) : r[Len(r) - j] = R[Len(R) - j]
  BY <1>1, <1>2, RecentIs
<1>5. Log(a) /\ Log(r) /\ Log(Append(a, tick)) /\ Log(Append(r, tick))
  BY <1>1, LogsStay
<1>6. /\ \A j \in CodesPerHour..(Len(A) - 1) : A[Len(A) - j] <= Cutoff
      /\ \A j \in 0..(Len(R) - 1) : R[Len(R) - j] > Cutoff => j < Len(A) /\ R[Len(R) - j] <= A[Len(A) - j]
  BY DEF LimitInv, Bounded, Covered
<1>7. Cutoff' = Cutoff /\ Cutoff \in Int
  BY <1>1, OtpConstants DEF Cutoff
<1>8. RoomFor("account") <=> Len(a) < CodesPerHour
  BY DEF RoomFor, Account
<1>9. resets' \in {R, r, Append(r, tick)} /\ Account' \in {a, Append(a, tick)}
  OBVIOUS
<1>. HIDE DEF A, R, a, r
<1>10. Log(Account)' /\ Log(resets)'
  <2>1. \A s : Log(s) /\ tick' = tick => Log(s)'
    BY DEF Log
  <2>. QED  BY <1>1, <1>5, <1>9 DEF Log
<1>. DEFINE A1 == Account'
            R1 == resets'
            Seen == \A j \in 0..(Len(R1) - 1) :
                       R1[Len(R1) - j] > Cutoff => j < Len(A1) /\ R1[Len(R1) - j] <= A1[Len(A1) - j]
            Full == \A j \in CodesPerHour..(Len(A1) - 1) : A1[Len(A1) - j] <= Cutoff
<1>. HIDE DEF A1, R1
<1>11. /\ Len(a) \in Nat /\ Len(r) \in Nat /\ Len(A) \in Nat /\ Len(R) \in Nat
       /\ \A j \in 0..(Len(A) - 1) : Len(A) - j \in DOMAIN A
       /\ \A j \in 0..(Len(R) - 1) : Len(R) - j \in DOMAIN R
  BY <1>2, <1>3, <1>4
<1>size. Len(a) \in Nat /\ Len(r) \in Nat /\ Len(A) \in Nat /\ Len(R) \in Nat
  BY <1>11
<1>12. /\ \A j \in 0..(Len(A) - 1) : A[Len(A) - j] \in Nat /\ A[Len(A) - j] <= tick
       /\ \A j \in 0..(Len(R) - 1) : R[Len(R) - j] \in Nat /\ R[Len(R) - j] <= tick
  <2>1. \A i \in DOMAIN A : A[i] \in Nat /\ A[i] <= tick
    BY <1>1, <1>2 DEF Log
  <2>2. \A i \in DOMAIN R : R[i] \in Nat /\ R[i] <= tick
    BY <1>1, <1>2 DEF Log
  <2>. QED  BY <1>11, <2>1, <2>2
<1>13. \A j \in 1..(Len(A) - 1) : A[Len(A) - j] <= A[Len(A) - (j - 1)]
  <2>. TAKE j \in 1..(Len(A) - 1)
  <2>1. j \in 0..(Len(A) - 1) /\ j - 1 \in 0..(Len(A) - 1) /\ Len(A) - j <= Len(A) - (j - 1)
    BY <1>11
  <2>. QED  BY <1>1, <1>11, <2>1 DEF Log
\* A code counted that is of the window stays.
<1>14. \A j \in 0..(Len(A) - 1) : A[Len(A) - j] > Cutoff => j \in 0..(Len(a) - 1)
  <2>. TAKE j \in 0..(Len(A) - 1)
  <2>1. j \in 0..(Len(a) - 1) \/ j \in Len(a)..(Len(A) - 1)
    BY <1>11
  <2>. QED  BY <1>3, <1>7, <1>12, <2>1
<1>15. \A j \in 0..(Len(R) - 1) : R[Len(R) - j] > Cutoff =>
          /\ j \in 0..(Len(a) - 1) /\ j \in 0..(Len(A) - 1)
          /\ R[Len(R) - j] <= A[Len(A) - j] /\ a[Len(a) - j] = A[Len(A) - j]
  <2>. SUFFICES ASSUME NEW j \in 0..(Len(R) - 1), R[Len(R) - j] > Cutoff
                PROVE  /\ j \in 0..(Len(a) - 1) /\ j \in 0..(Len(A) - 1)
                       /\ R[Len(R) - j] <= A[Len(A) - j] /\ a[Len(a) - j] = A[Len(A) - j]
    OBVIOUS
  <2>0. j < Len(A) /\ R[Len(R) - j] <= A[Len(A) - j]
    BY <1>6
  <2>1. j \in 0..(Len(A) - 1) /\ R[Len(R) - j] <= A[Len(A) - j]
    BY <1>size, <2>0
  <2>2. A[Len(A) - j] > Cutoff
    BY <1>7, <1>12, <2>1
  <2>. QED  BY <1>3, <1>14, <2>1, <2>2
\* The codes that left are those of before, whether pruned or not.
<1>16. ASSUME R1 \in {R, r}
       PROVE  \A j \in 0..(Len(R1) - 1) : j \in 0..(Len(R) - 1) /\ R1[Len(R1) - j] = R[Len(R) - j]
  BY <1>4, <1>11, <1>16
<1>17. /\ A1 = a \/ (A1 = Append(a, tick) /\ Len(a) < CodesPerHour)
       /\ \/ R1 \in {R, r}
          \/ R1 = Append(r, tick) /\ Len(a) < CodesPerHour /\ A1 = Append(a, tick)
  BY <1>8 DEF A1, R1, A, R, a, r
<1>18. ASSUME A1 = a PROVE Full /\ Seen
  <2>1. Full
    <3>. TAKE j \in CodesPerHour..(Len(A1) - 1)
    <3>1. j \in CodesPerHour..(Len(A) - 1) /\ j \in 0..(Len(a) - 1)
      BY <1>3, <1>18, <1>size, OtpConstants
    <3>2. a[Len(a) - j] = A[Len(A) - j] /\ A[Len(A) - j] <= Cutoff
      BY <1>3, <1>6, <3>1
    <3>. QED  BY <1>18, <3>2
  <2>2. ASSUME R1 \in {R, r} PROVE Seen
    <3>. SUFFICES ASSUME NEW j \in 0..(Len(R1) - 1), R1[Len(R1) - j] > Cutoff
                  PROVE  j < Len(A1) /\ R1[Len(R1) - j] <= A1[Len(A1) - j]
      OBVIOUS
    <3>1. j \in 0..(Len(R) - 1) /\ R1[Len(R1) - j] = R[Len(R) - j]
      BY <1>16, <2>2
    <3>. QED  BY <1>11, <1>15, <1>18, <3>1
  <2>3. ASSUME R1 = Append(r, tick), Len(a) < CodesPerHour, A1 = Append(a, tick) PROVE FALSE
    <3>1. Len(A1) = Len(a) + 1
      BY <1>1, <1>3, <2>3
    <3>. QED  BY <1>11, <1>18, <3>1
  <2>. QED  BY <1>17, <2>1, <2>2, <2>3
<1>19. ASSUME A1 = Append(a, tick), Len(a) < CodesPerHour PROVE Full /\ Seen
  <2>1. /\ Len(A1) = Len(a) + 1 /\ A1[Len(A1) - 0] = tick
        /\ \A j \in 1..(Len(A1) - 1) : A1[Len(A1) - j] = a[Len(a) - (j - 1)] /\ j - 1 \in 0..(Len(a) - 1)
    BY <1>1, <1>3, <1>19, AddedIs
  <2>2. Full
    BY <1>11, <1>19, <2>1, OtpConstants
  <2>3. ASSUME R1 \in {R, r} PROVE Seen
    <3>. SUFFICES ASSUME NEW j \in 0..(Len(R1) - 1), R1[Len(R1) - j] > Cutoff
                  PROVE  j < Len(A1) /\ R1[Len(R1) - j] <= A1[Len(A1) - j]
      OBVIOUS
    <3>1. /\ j \in 0..(Len(R) - 1) /\ R1[Len(R1) - j] = R[Len(R) - j]
          /\ j \in 0..(Len(a) - 1) /\ j \in 0..(Len(A) - 1) /\ R[Len(R) - j] <= A[Len(A) - j]
      BY <1>15, <1>16, <2>3
    <3>2. CASE j = 0
      <4>1. R1[Len(R1) - j] <= tick
        BY <1>12, <3>1
      <4>2. A1[Len(A1) - j] = tick
        BY <2>1, <3>2
      <4>3. 0 < Len(A1)
        BY <1>11, <2>1
      <4>. QED  BY <3>2, <4>1, <4>2, <4>3
    <3>3. CASE j > 0
      <4>0. j \in 0..(Len(a) - 1) /\ j \in 0..(Len(A) - 1) /\ Len(A1) = Len(a) + 1
        BY <2>1, <3>1
      <4>1. j \in 1..(Len(A1) - 1) /\ j - 1 \in 0..(Len(a) - 1) /\ j \in 1..(Len(A) - 1) /\ j - 1 \in 0..(Len(A) - 1)
        BY <1>size, <3>3, <4>0
      <4>2. A1[Len(A1) - j] = A[Len(A) - (j - 1)] /\ A[Len(A) - j] <= A[Len(A) - (j - 1)]
        BY <1>3, <1>13, <2>1, <4>1
      <4>3. R[Len(R) - j] \in Nat /\ A[Len(A) - j] \in Nat /\ A[Len(A) - (j - 1)] \in Nat
        BY <1>12, <3>1, <4>1
      <4>4. j < Len(A1)
        BY <1>11, <2>1, <4>1
      <4>5. R[Len(R) - j] <= A[Len(A) - (j - 1)]
        <5>1. R[Len(R) - j] <= A[Len(A) - j] /\ A[Len(A) - j] <= A[Len(A) - (j - 1)]
          BY <3>1, <4>2
        <5>2. \A x, y, z \in Nat : x <= y /\ y <= z => x <= z
          OBVIOUS
        <5>. QED  BY <4>3, <5>1, <5>2
      <4>6. R1[Len(R1) - j] <= A1[Len(A1) - j]
        BY <3>1, <4>2, <4>5
      <4>. QED  BY <4>4, <4>6
    <3>. QED  BY <3>1, <3>2, <3>3
  <2>4. ASSUME R1 = Append(r, tick) PROVE Seen
    <3>. SUFFICES ASSUME NEW j \in 0..(Len(R1) - 1), R1[Len(R1) - j] > Cutoff
                  PROVE  j < Len(A1) /\ R1[Len(R1) - j] <= A1[Len(A1) - j]
      OBVIOUS
    <3>1. /\ Len(R1) = Len(r) + 1 /\ R1[Len(R1) - 0] = tick
          /\ \A k \in 1..(Len(R1) - 1) : R1[Len(R1) - k] = r[Len(r) - (k - 1)] /\ k - 1 \in 0..(Len(r) - 1)
      BY <1>1, <1>4, <2>4, AddedIs
    <3>2. CASE j = 0
      BY <1>1, <1>11, <2>1, <3>1, <3>2
    <3>3. CASE j > 0
      <4>1. j \in 1..(Len(R1) - 1) /\ j - 1 \in 0..(Len(r) - 1) /\ j - 1 \in 0..(Len(R) - 1)
        BY <1>4, <1>11, <3>1, <3>3
      <4>2. R1[Len(R1) - j] = R[Len(R) - (j - 1)]
        BY <1>4, <3>1, <4>1
      <4>3. /\ j - 1 \in 0..(Len(a) - 1) /\ R[Len(R) - (j - 1)] <= A[Len(A) - (j - 1)]
            /\ a[Len(a) - (j - 1)] = A[Len(A) - (j - 1)]
        BY <1>15, <4>1, <4>2
      <4>4. j \in 1..(Len(A1) - 1) /\ j < Len(A1)
        BY <1>11, <2>1, <4>1, <4>3
      <4>. QED  BY <2>1, <4>2, <4>3, <4>4
    <3>. QED  BY <3>2, <3>3, <1>4, <1>11
  <2>. QED  BY <1>17, <2>2, <2>3, <2>4
<1>20. Full /\ Seen
  BY <1>18, <1>19, <1>17
<1>. QED  BY <1>1, <1>7, <1>10, <1>20 DEF LimitInv, Bounded, Covered, A1, R1

\* What the invariant says of the codes that left.
LEMMA LimitHolds == LimitInv => FiveCodesAnHour
<1>. SUFFICES ASSUME LimitInv PROVE FiveCodesAnHour
  OBVIOUS
<1>. DEFINE A == Account
            R == resets
            r == Recent(R)
<1>1. tick \in Nat /\ R \in Seq(Nat) /\ Len(R) \in Nat /\ \A i \in 1..Len(R) : R[i] \in Nat
  BY DEF LimitInv, Log
<1>2. A \in Seq(Nat) /\ Len(A) \in Nat /\ \A i \in 1..Len(A) : A[i] \in Nat
  BY DEF LimitInv, Log
<1>3. /\ Len(r) \in 0..Len(R) /\ (Len(r) > 0 => r[1] > Cutoff)
      /\ \A j \in 0..(Len(r) - 1) : r[Len(r) - j] = R[Len(R) - j]
  BY <1>1, RecentIs
<1>4. /\ \A j \in CodesPerHour..(Len(A) - 1) : A[Len(A) - j] <= Cutoff
      /\ \A j \in 0..(Len(R) - 1) : R[Len(R) - j] > Cutoff => j < Len(A) /\ R[Len(R) - j] <= A[Len(A) - j]
  BY DEF LimitInv, Bounded, Covered
<1>5. Cutoff \in Int
  BY <1>1, OtpConstants DEF Cutoff
<1>. HIDE DEF A, R, r
<1>6. ASSUME Len(r) > CodesPerHour PROVE FALSE
  <2>. DEFINE j == Len(r) - 1
  <2>1. j \in 0..(Len(r) - 1) /\ j \in 0..(Len(R) - 1) /\ Len(r) - j = 1 /\ j >= CodesPerHour /\ Len(r) > 0
    BY <1>1, <1>3, <1>6, OtpConstants
  <2>2. R[Len(R) - j] = r[1] /\ r[1] > Cutoff
    BY <1>3, <2>1
  <2>3. j < Len(A) /\ R[Len(R) - j] <= A[Len(A) - j]
    BY <1>4, <2>1, <2>2
  <2>4. j \in CodesPerHour..(Len(A) - 1) /\ Len(R) - j \in 1..Len(R) /\ Len(A) - j \in 1..Len(A)
    BY <1>1, <1>2, <1>3, <2>1, <2>3, OtpConstants
  <2>5. A[Len(A) - j] <= Cutoff
    BY <1>4, <2>4
  <2>6. R[Len(R) - j] \in Nat /\ A[Len(A) - j] \in Nat
    BY <1>1, <1>2, <2>4
  <2>. HIDE DEF j
  <2>. QED  BY <1>5, <2>2, <2>3, <2>5, <2>6
<1>7. ~(Len(r) > CodesPerHour) => Len(r) <= CodesPerHour
  BY <1>1, <1>3, OtpConstants
<1>8. FiveCodesAnHour <=> Len(r) <= CodesPerHour
  BY DEF FiveCodesAnHour, r, R
<1>. QED  BY <1>6, <1>7, <1>8

\* The limiter is left alone, and time may pass.
LEMMA LimitStays ==
  ASSUME LimitInv, UNCHANGED <<counted, resets>>, tick' = tick \/ tick' = tick + 1
  PROVE  LimitInv'
<1>. DEFINE A == Account
            R == resets
<1>1. tick \in Nat /\ Log(A) /\ Log(R) /\ A' = A /\ R' = R
  BY DEF LimitInv, Account
<1>2. tick' \in Nat /\ tick <= tick' /\ Cutoff \in Int /\ Cutoff' \in Int /\ Cutoff <= Cutoff'
  BY <1>1, OtpConstants DEF Cutoff
<1>3. ASSUME NEW s, Log(s) PROVE s \in Seq(Nat) /\ (\A i \in DOMAIN s : s[i] <= tick')
                                /\ \A i, j \in DOMAIN s : i <= j => s[i] <= s[j]
  BY <1>1, <1>2, <1>3 DEF Log
<1>4. Log(A)' /\ Log(R)'
  BY <1>1, <1>3 DEF Log
<1>5. /\ A \in Seq(Nat) /\ \A i \in DOMAIN A : A[i] \in Nat
      /\ R \in Seq(Nat) /\ \A i \in DOMAIN R : R[i] \in Nat
  BY <1>1 DEF Log
<1>6. /\ \A j \in CodesPerHour..(Len(A) - 1) : A[Len(A) - j] <= Cutoff /\ Len(A) - j \in DOMAIN A
      /\ \A j \in 0..(Len(R) - 1) : /\ R[Len(R) - j] > Cutoff => j < Len(A) /\ R[Len(R) - j] <= A[Len(A) - j]
                                    /\ Len(R) - j \in DOMAIN R
  BY <1>5, OtpConstants DEF LimitInv, Bounded, Covered
<1>. HIDE DEF A, R
<1>7. /\ \A j \in CodesPerHour..(Len(A) - 1) : A[Len(A) - j] <= Cutoff'
      /\ \A j \in 0..(Len(R) - 1) : R[Len(R) - j] > Cutoff' => j < Len(A) /\ R[Len(R) - j] <= A[Len(A) - j]
  <2>1. ASSUME NEW j \in CodesPerHour..(Len(A) - 1) PROVE A[Len(A) - j] <= Cutoff'
    <3>1. A[Len(A) - j] \in Nat /\ A[Len(A) - j] <= Cutoff
      BY <1>5, <1>6
    <3>. QED  BY <1>2, <3>1
  <2>2. ASSUME NEW j \in 0..(Len(R) - 1), R[Len(R) - j] > Cutoff'
        PROVE  j < Len(A) /\ R[Len(R) - j] <= A[Len(A) - j]
    <3>1. R[Len(R) - j] \in Nat
      BY <1>5, <1>6
    <3>2. R[Len(R) - j] > Cutoff
      BY <1>2, <2>2, <3>1
    <3>. QED  BY <1>6, <3>2
  <2>. QED  BY <2>1, <2>2
<1>8. Bounded' /\ Covered'
  BY <1>1, <1>7 DEF Bounded, Covered, A, R
<1>. QED  BY <1>1, <1>2, <1>4, <1>8 DEF LimitInv, A, R

\* Taking from the limiter keeps the invariant.
LEMMA LimitTaken ==
  ASSUME LimitInv, tick' = tick, NEW keys, DOMAIN keys \subseteq Nat \ {0}, counted' = TakeFrom(keys),
         \/ resets' = resets
         \/ resets' = Recent(resets)
         \/ (\E k : keys = <<k, "account">>) /\ Allowed(keys) /\ resets' = Append(Recent(resets), tick)
  PROVE  LimitInv'
<1>1. \/ Account' = Recent(Account)
      \/ RoomFor("account") /\ Account' = Append(Recent(Account), tick)
  BY TakenFrom
<1>2. ASSUME NEW k, keys = <<k, "account">>, Allowed(keys)
      PROVE  RoomFor("account") /\ Account' = Append(Recent(Account), tick)
  <2>1. /\ 2 \in DOMAIN keys /\ keys[2] = "account" /\ 2 \in 1..2
        /\ \A j \in 1..2 : j \in DOMAIN keys
    BY <1>2
  <2>. QED  BY <1>2, <2>1, TakenFrom
<1>. QED  BY <1>1, <1>2, LimitMoves

\* A code to reset the password leaves, or does not.
LEMMA ResetSent ==
  ASSUME LimitInv, tick' = tick, NEW t \in Tab, NEW channel, NEW next, NEW back, SendReset(t, channel, next, back)
  PROVE  LimitInv'
<1>1. /\ counted' = TakeFrom(ResetKeys(t))
      /\ \/ resets' = Recent(resets)
         \/ Allowed(ResetKeys(t)) /\ resets' = Append(Recent(resets), tick)
  BY DEF SendReset, Send
<1>2. \E k : ResetKeys(t) = <<k, "account">>
  BY DEF ResetKeys
<1>3. DOMAIN ResetKeys(t) \subseteq Nat \ {0}
  BY DEF ResetKeys
<1>. QED  BY <1>1, <1>2, <1>3, LimitTaken

\* A decoy is counted under what was typed.
LEMMA DecoyCounted ==
  ASSUME LimitInv, tick' = tick, NEW t \in Tab, NEW typed, StartDecoy(t, typed)
  PROVE  LimitInv'
<1>1. counted' = TakeFrom(<<typed>>) /\ resets' = resets /\ DOMAIN <<typed>> \subseteq Nat \ {0}
  BY DEF StartDecoy
<1>. QED  BY <1>1, LimitTaken

\* A code to verify a number is counted under the KK.
LEMMA VerifyCounted ==
  ASSUME LimitInv, tick' = tick, resets' = resets, NEW t \in Tab, NEW number, NEW from, SendVerify(t, number, from)
  PROVE  LimitInv'
<1>1. counted' = TakeFrom(<<"kk">>) /\ DOMAIN <<"kk">> \subseteq Nat \ {0}
  BY DEF SendVerify, Send
<1>. QED  BY <1>1, LimitTaken

-----------------------------------------------------------------------------
(* The codes of the tabs. *)

\* The pages of a tab.
Step == {"identifier", "channel", "code", "verify"}

\* A code: its channel and what it went to are whatever they are.
IsCode(c) == c \in [channel : {c.channel}, to : {c.to}, issued : Nat, wrong : Nat, moved : BOOLEAN]
\* The notes of a tab.
IsNote(n) ==
    /\ n \in [step : Step, typed : Typed, only : {n.only}, decoy : BOOLEAN, code : {n.code}, hash : BOOLEAN]
    /\ IsCode(n.code)

\* The notes of every tab.
Notes(f) == f \in [Tab -> {f[t] : t \in Tab}] /\ \A t \in Tab : IsNote(f[t])

\* A code that is out went where a right answer now marks a number, unless the numbers
\* of the account have changed since, or nothing is left to mark by it, or, at sign-in,
\* the number it went to is already marked.
Meant(n) ==
    n.hash => /\ n.step # "identifier"
              /\ \/ n.code.moved
                 \/ /\ n.step = "verify" => n.code.to = NumberToVerify \/ n.code.to \in verified
                    /\ n.step = "code" /\ n.code.channel \in DOMAIN AvailableChannels =>
                          \/ n.code.to = AvailableChannels[n.code.channel]
                          \/ AvailableChannels[n.code.channel] \in verified

\* The places of the numbers.
Places == DOMAIN numbers \subseteq Nat

\* What is known of the codes.
NotesInv == Notes(tab) /\ \A t \in Tab : Meant(tab[t])

\* While the account stays as it is, so does what is behind its channels.
LEMMA AccountSame ==
  ASSUME UNCHANGED <<numbers, verified>>
  PROVE  AvailableChannels' = AvailableChannels /\ NumberToVerify' = NumberToVerify
<1>1. ResetNumbers' = ResetNumbers
  BY DEF ResetNumbers
<1>. QED  BY <1>1 DEF AvailableChannels, NumberToVerify

\* The channels of the account, and those offered to a tab.
LEMMA ChannelsAre ==
  /\ NoChannel \notin DOMAIN AvailableChannels
  /\ \A t : /\ DOMAIN Channels(t) \subseteq DOMAIN AvailableChannels
            /\ \A id \in DOMAIN Channels(t) : Channels(t)[id] = AvailableChannels[id]
<1>1. NoChannel \notin DOMAIN AvailableChannels
  <2>1. NoChannel # Email /\ \A i : NoChannel # WhatsApp(i)
    BY DEF NoChannel, Email, WhatsApp
  <2>. QED  BY <2>1 DEF AvailableChannels
<1>2. \A t : /\ DOMAIN Channels(t) \subseteq DOMAIN AvailableChannels
             /\ \A id \in DOMAIN Channels(t) : Channels(t)[id] = AvailableChannels[id]
  BY DEF Channels
<1>. QED  BY <1>1, <1>2

\* There is a first of some places.
LEMMA FirstPlace ==
  ASSUME NEW S, S \subseteq Nat, S # {}
  PROVE  Min(S) \in S /\ (\A y \in S : Min(S) <= y) /\ \A x \in S : (\A y \in S : x <= y) => x = Min(S)
<1>1. Min(S) \in S /\ \A y \in S : Min(S) <= y
  BY EarliestOf DEF Min
<1>2. PICK m : m = Min(S)
  OBVIOUS
<1>3. m \in S /\ \A y \in S : m <= y
  BY <1>1, <1>2
<1>4. \A x \in S : (\A y \in S : x <= y) => x = m
  BY <1>3
<1>. QED  BY <1>2, <1>3, <1>4

\* When more is verified the number to verify is the same, or is verified.
LEMMA FirstStays ==
  ASSUME Places, NEW done, NEW more, done \subseteq more
  PROVE  \/ FirstUnproved(numbers, more) = FirstUnproved(numbers, done)
         \/ FirstUnproved(numbers, done) \in more
<1>. DEFINE P == {k \in DOMAIN numbers : numbers[k] \notin done}
            Q == {k \in DOMAIN numbers : numbers[k] \notin more}
<1>1. Q \subseteq P /\ P \subseteq Nat
  BY DEF Places
<1>2. FirstUnproved(numbers, done) = IF P = {} THEN "none" ELSE numbers[Min(P)]
  BY DEF FirstUnproved
<1>3. FirstUnproved(numbers, more) = IF Q = {} THEN "none" ELSE numbers[Min(Q)]
  BY DEF FirstUnproved
<1>4. P # {} => Min(P) \in P /\ \A y \in P : Min(P) <= y
  BY <1>1, FirstPlace
<1>5. Min(P) \in P => numbers[Min(P)] \in more \/ Min(P) \in Q
  OBVIOUS
<1>. HIDE DEF P, Q
<1>6. ASSUME P # {}, Min(P) \in Q PROVE Min(Q) = Min(P)
  <2>1. Q \subseteq Nat /\ Q # {} /\ \A y \in Q : Min(P) <= y
    BY <1>1, <1>4, <1>6
  <2>. QED  BY <1>6, <2>1, FirstPlace
<1>7. P = {} => Q = {}
  BY <1>1
<1>. QED  BY <1>2, <1>3, <1>4, <1>5, <1>6, <1>7

\* The number to verify is one of the account's.
LEMMA FirstIsOne ==
  ASSUME Places, NumberToVerify # "none"
  PROVE  \E k \in DOMAIN numbers : numbers[k] = NumberToVerify
<1>. DEFINE P == {k \in DOMAIN numbers : numbers[k] \notin verified}
<1>1. P \subseteq Nat /\ P # {} /\ NumberToVerify = numbers[Min(P)]
  BY DEF Places, NumberToVerify, FirstUnproved
<1>2. Min(P) \in P
  BY <1>1, FirstPlace
<1>. QED  BY <1>1, <1>2

\* What is behind a channel is one of the reset numbers, or the email.
LEMMA BehindIs ==
  ASSUME NEW id \in DOMAIN AvailableChannels, id # Email
  PROVE  \E k \in ResetNumbers : k \in DOMAIN numbers /\ AvailableChannels[id] = numbers[k]
<1>1. PICK k \in ResetNumbers : id = WhatsApp(Place(k, ResetNumbers))
  BY DEF AvailableChannels
<1>2. AvailableChannels[id] = numbers[CHOOSE j \in ResetNumbers : id = WhatsApp(Place(j, ResetNumbers))]
  BY DEF AvailableChannels
<1>3. ResetNumbers \subseteq DOMAIN numbers
  BY DEF ResetNumbers
<1>. QED  BY <1>1, <1>2, <1>3

\* The fields of a note.
LEMMA NoteIs ==
  ASSUME NEW n, IsNote(n)
  PROVE  /\ n.step \in Step /\ n.typed \in Typed /\ n.decoy \in BOOLEAN
         /\ IsCode(n.code) /\ n.hash \in BOOLEAN
  BY DEF IsNote

\* A code just sent.
LEMMA IssuedIs ==
  ASSUME NEW channel, NEW to, tick \in Nat
  PROVE  /\ IsCode(Issued(channel, to)) /\ Issued(channel, to).channel = channel
         /\ Issued(channel, to).to = to
  BY DEF IsCode, Issued

\* A browser tab that has begun nothing.
LEMMA NoTabIs == IsCode(NoCode) /\ IsNote(NoTab) /\ ~NoTab.hash /\ NoTab.step = "identifier"
<1>1. IsCode(NoCode)
  BY DEF IsCode, NoCode
<1>2. NoTab.code = NoCode /\ NoTab.hash = FALSE /\ NoTab.step = "identifier"
  BY DEF NoTab
<1>. DEFINE c == NoCode
            m == [step |-> "identifier", typed |-> "kk", only |-> AnyChannel, decoy |-> FALSE, code |-> c, hash |-> FALSE]
<1>. HIDE DEF c
<1>3. m \in [step : Step, typed : Typed, only : {AnyChannel}, decoy : BOOLEAN, code : {c}, hash : BOOLEAN]
  BY DEF Step, Typed
<1>4. NoTab = m
  BY DEF NoTab, c
<1>. HIDE DEF m
<1>. QED  BY <1>1, <1>2, <1>3, <1>4 DEF IsNote, c

\* m keeps the code of n, and is a note at step s.
Kept(m, n, s) == IsNote(m) /\ m.code = n.code /\ (m.hash <=> n.hash) /\ m.step = s

\* m has another code than n, which is out, or is not.
Given(m, n, c) == IsNote(m) /\ m.code = c /\ m.step = n.step /\ (m.hash <=> n.hash)

\* The types of the fields make a note.
LEMMA NoteMade ==
  ASSUME NEW m, NEW d, NEW o, IsCode(d),
         m \in [step : Step, typed : Typed, only : {o}, decoy : BOOLEAN, code : {d}, hash : BOOLEAN]
  PROVE  IsNote(m)
<1>1. m.code = d /\ m.only = o
  OBVIOUS
<1>. QED  BY <1>1 DEF IsNote

\* Another step, another identifier, another channel, the decoy.
LEMMA NoteSet ==
  ASSUME NEW n, IsNote(n), NEW s \in Step, NEW y \in Typed, NEW o
  PROVE  /\ Kept([n EXCEPT !.step = s], n, s)
         /\ Kept([n EXCEPT !.typed = y], n, n.step)
         /\ Kept([n EXCEPT !.only = o], n, n.step)
         /\ Kept([n EXCEPT !.decoy = TRUE], n, n.step)
<1>. DEFINE N(x) == [step : Step, typed : Typed, only : {x}, decoy : BOOLEAN, code : {n.code}, hash : BOOLEAN]
            a == [n EXCEPT !.step = s]
            b == [n EXCEPT !.typed = y]
            c == [n EXCEPT !.only = o]
            d == [n EXCEPT !.decoy = TRUE]
<1>1. n \in N(n.only) /\ IsCode(n.code)
  BY DEF IsNote
<1>2. a \in N(n.only) /\ a.code = n.code /\ (a.hash <=> n.hash) /\ a.step = s
  BY <1>1
<1>3. b \in N(n.only) /\ b.code = n.code /\ (b.hash <=> n.hash) /\ b.step = n.step
  BY <1>1
<1>4. c \in N(o) /\ c.code = n.code /\ (c.hash <=> n.hash) /\ c.step = n.step
  BY <1>1
<1>5. d \in N(n.only) /\ d.code = n.code /\ (d.hash <=> n.hash) /\ d.step = n.step
  BY <1>1
<1>. HIDE DEF a, b, c, d
<1>6. IsNote(a) /\ IsNote(b) /\ IsNote(c) /\ IsNote(d)
  BY <1>1, <1>2, <1>3, <1>4, <1>5, NoteMade
<1>7. Kept(a, n, s) /\ Kept(b, n, n.step) /\ Kept(c, n, n.step) /\ Kept(d, n, n.step)
  BY <1>2, <1>3, <1>4, <1>5, <1>6 DEF Kept
<1>. QED  BY <1>7 DEF a, b, c, d

\* Another code, and whether it is out.
LEMMA CodeSet ==
  ASSUME NEW n, IsNote(n), NEW c, IsCode(c)
  PROVE  /\ Given([n EXCEPT !.code = c], n, c)
         /\ IsNote([n EXCEPT !.hash = TRUE]) /\ IsNote([n EXCEPT !.hash = FALSE])
         /\ [n EXCEPT !.hash = TRUE].code = n.code /\ [n EXCEPT !.hash = FALSE].code = n.code
         /\ [n EXCEPT !.hash = TRUE].step = n.step /\ [n EXCEPT !.hash = FALSE].step = n.step
         /\ [n EXCEPT !.hash = TRUE].hash = TRUE /\ [n EXCEPT !.hash = FALSE].hash = FALSE
<1>. DEFINE N(d) == [step : Step, typed : Typed, only : {n.only}, decoy : BOOLEAN, code : {d}, hash : BOOLEAN]
            a == [n EXCEPT !.code = c]
            b == [n EXCEPT !.hash = TRUE]
            e == [n EXCEPT !.hash = FALSE]
<1>1. n \in N(n.code) /\ IsCode(n.code)
  BY DEF IsNote
<1>2. a \in N(c) /\ a.code = c /\ (a.hash <=> n.hash) /\ a.step = n.step
  BY <1>1
<1>3. b \in N(n.code) /\ b.code = n.code /\ b.hash = TRUE /\ b.step = n.step
  BY <1>1
<1>4. e \in N(n.code) /\ e.code = n.code /\ e.hash = FALSE /\ e.step = n.step
  BY <1>1
<1>. HIDE DEF a, b, e
<1>5. IsNote(a) /\ IsNote(b) /\ IsNote(e)
  BY <1>1, <1>2, <1>3, <1>4, NoteMade
<1>6. Given(a, n, c)
  BY <1>2, <1>5 DEF Given
<1>. QED  BY <1>3, <1>4, <1>5, <1>6 DEF a, b, e

\* g is f but for the notes of t.
Beside(g, f, t) == Notes(g) /\ \A u \in Tab \ {t} : g[u] = f[u]
\* n is put for t.
Puts(g, f, t, n) == Beside(g, f, t) /\ g[t] = n
\* The code c is put out for t.
HasCode(g, f, t, c) == Beside(g, f, t) /\ g[t].code = c /\ g[t].step = f[t].step /\ g[t].hash
\* The code of t is taken back.
HasNone(g, f, t) == Beside(g, f, t) /\ g[t].step = f[t].step /\ ~g[t].hash
\* t keeps its code and goes to the step s.
KeepsCode(g, f, t, s) == Beside(g, f, t) /\ g[t].code = f[t].code /\ (g[t].hash <=> f[t].hash) /\ g[t].step = s

\* A note is put in place of another.
LEMMA PutIs ==
  ASSUME NEW f, Notes(f), NEW t \in Tab, NEW n, IsNote(n)
  PROVE  Puts([f EXCEPT ![t] = n], f, t, n)
<1>. DEFINE g == [f EXCEPT ![t] = n]
<1>1. DOMAIN f = Tab /\ \A u \in Tab : IsNote(f[u])
  BY DEF Notes
<1>2. g = [u \in Tab |-> g[u]] /\ g[t] = n /\ \A u \in Tab \ {t} : g[u] = f[u]
  BY <1>1
<1>. HIDE DEF g
<1>3. \A u \in Tab : IsNote(g[u])
  BY <1>1, <1>2
<1>4. g \in [Tab -> {g[u] : u \in Tab}]
  BY <1>2
<1>5. Puts(g, f, t, n)
  BY <1>2, <1>3, <1>4 DEF Notes, Puts, Beside
<1>. QED  BY <1>5 DEF g

\* A code is put into a note, or taken from it.
LEMMA WithIs ==
  ASSUME NEW f, Notes(f), NEW t \in Tab, NEW c, IsCode(c)
  PROVE  HasCode(With(f, t, c), f, t, c) /\ HasNone(Emptied(f, t, c), f, t)
<1>. DEFINE n == f[t]
            m == [n EXCEPT !.code = c]
            k == [m EXCEPT !.hash = TRUE]
            l == [m EXCEPT !.hash = FALSE]
<1>1. IsNote(n) /\ DOMAIN f = Tab
  BY DEF Notes
<1>2. IsNote(m) /\ m.code = c /\ m.step = n.step
  <2>1. Given(m, n, c)
    BY <1>1, CodeSet, Zenon
  <2>. QED  BY <2>1 DEF Given
<1>3. IsNote(k) /\ IsNote(l)
  BY <1>2, CodeSet, Zenon
<1>4. k.code = c /\ k.step = n.step /\ k.hash = TRUE /\ l.code = c /\ l.step = n.step /\ l.hash = FALSE
  <2>. HIDE DEF m
  <2>1. /\ k.code = m.code /\ l.code = m.code /\ k.step = m.step /\ l.step = m.step
        /\ k.hash = TRUE /\ l.hash = FALSE
    BY <1>2, CodeSet, Zenon
  <2>. QED  BY <1>2, <2>1
<1>5. With(f, t, c) = [f EXCEPT ![t] = k] /\ Emptied(f, t, c) = [f EXCEPT ![t] = l]
  BY <1>1, <1>2 DEF With, Emptied, IsNote
<1>. HIDE DEF k, l, m
<1>6. Puts([f EXCEPT ![t] = k], f, t, k)
  BY <1>3, PutIs, Zenon
<1>7. Puts([f EXCEPT ![t] = l], f, t, l)
  BY <1>3, PutIs, Zenon
<1>8. Puts(With(f, t, c), f, t, k) /\ Puts(Emptied(f, t, c), f, t, l)
  BY <1>5, <1>6, <1>7
<1>. QED  BY <1>4, <1>8 DEF Puts, HasCode, HasNone

\* The notes while the account stays as it is: those of one tab change.
LEMMA OneTab ==
  ASSUME NotesInv, UNCHANGED <<numbers, verified>>, NEW t \in Tab,
         Notes(tab'), \A u \in Tab \ {t} : tab'[u] = tab[u], Meant(tab'[t])
  PROVE  NotesInv'
<1>1. \A u \in Tab : Meant(tab'[u])
  BY DEF NotesInv
<1>2. \A u \in Tab : Meant(tab[u])'
  BY <1>1, AccountSame DEF Meant
<1>3. Notes(tab)'
  BY DEF Notes
<1>. QED  BY <1>2, <1>3 DEF NotesInv

\* A code still is what it was meant for when a number of the account is verified.
LEMMA StillMeant ==
  ASSUME Places, numbers' = numbers, NEW j \in DOMAIN numbers, verified' = verified \cup {numbers[j]},
         NEW n, Meant(n)
  PROVE  Meant(n)'
<1>1. NumberToVerify' = NumberToVerify \/ NumberToVerify \in verified'
  <2>1. verified \subseteq verified'
    OBVIOUS
  <2>2. \/ FirstUnproved(numbers, verified') = FirstUnproved(numbers, verified)
        \/ FirstUnproved(numbers, verified) \in verified'
    BY <2>1, FirstStays
  <2>. QED  BY <2>2 DEF NumberToVerify
<1>2. ASSUME NEW id \in DOMAIN AvailableChannels', id # Email PROVE AvailableChannels'[id] \in verified'
  <2>1. \A k \in ResetNumbers' : numbers'[k] \in verified'
    BY DEF ResetNumbers
  <2>2. \E k \in ResetNumbers' : id = WhatsApp(Place(k, ResetNumbers'))
    BY <1>2 DEF AvailableChannels
  <2>3. AvailableChannels'[id] = numbers'[CHOOSE k \in ResetNumbers' : id = WhatsApp(Place(k, ResetNumbers'))]
    BY <1>2 DEF AvailableChannels
  <2>. QED  BY <2>1, <2>2, <2>3
<1>3. Email \in DOMAIN AvailableChannels' => Email \in DOMAIN AvailableChannels /\ AvailableChannels'[Email] = AvailableChannels[Email]
  <2>1. \A i : Email # WhatsApp(i)
    BY DEF Email, WhatsApp
  <2>. QED  BY <2>1 DEF AvailableChannels
<1>4. ASSUME NEW id \in DOMAIN AvailableChannels'
      PROVE  \/ AvailableChannels'[id] \in verified'
             \/ id \in DOMAIN AvailableChannels /\ AvailableChannels'[id] = AvailableChannels[id]
  BY <1>2, <1>3
<1>. QED  BY <1>1, <1>4 DEF Meant

\* The notes when the account changes: every code that is out was sent before.
LEMMA AllMoved ==
  ASSUME Notes(tab'), \A u \in Tab : tab'[u].hash => tab'[u].code.moved /\ tab'[u].step # "identifier"
  PROVE  NotesInv'
<1>1. Notes(tab)'
  BY DEF Notes
<1>2. \A u \in Tab : Meant(tab[u])'
  BY DEF Meant
<1>. QED  BY <1>1, <1>2 DEF NotesInv

\* What the change of the account leaves in the notes.
HasMoved(g, f) ==
    /\ Notes(g)
    /\ \A u \in Tab : /\ f[u].hash => g[u].code.moved /\ g[u].step = f[u].step
                      /\ ~f[u].hash => g[u] = f[u]

\* Every code that is out is marked.
LEMMA MovedIs ==
  ASSUME NEW f, Notes(f)
  PROVE  HasMoved(Moved(f), f)
<1>. DEFINE g == Moved(f)
            C(u) == [f[u].code EXCEPT !.moved = TRUE]
            N(u) == [f[u] EXCEPT !.code = C(u)]
<1>1. \A u \in Tab : IsNote(f[u])
  BY DEF Notes
<1>2. ASSUME NEW u \in Tab PROVE IsCode(C(u)) /\ C(u).moved
  <2>1. IsCode(f[u].code)
    BY <1>1, NoteIs
  <2>. DEFINE c == f[u].code
              d == [c EXCEPT !.moved = TRUE]
  <2>2. c \in [channel : {c.channel}, to : {c.to}, issued : Nat, wrong : Nat, moved : BOOLEAN]
    BY <2>1 DEF IsCode
  <2>. HIDE DEF c
  <2>3. /\ d.to = c.to /\ d.moved = TRUE
        /\ d \in [channel : {c.channel}, to : {c.to}, issued : Nat, wrong : Nat, moved : BOOLEAN]
    BY <2>2
  <2>. HIDE DEF d
  <2>4. IsCode(d) /\ d.moved
    BY <2>3 DEF IsCode
  <2>. QED  BY <2>4 DEF c, d
<1>. HIDE DEF C
<1>3. ASSUME NEW u \in Tab PROVE IsNote(N(u)) /\ N(u).code = C(u) /\ N(u).step = f[u].step
  <2>1. Given(N(u), f[u], C(u))
    BY <1>1, <1>2, CodeSet, Zenon
  <2>. QED  BY <2>1 DEF Given
<1>4. \A u \in Tab : g[u] = IF f[u].hash THEN N(u) ELSE f[u]
  BY <1>1 DEF Moved, IsNote, C
<1>5. g = [u \in Tab |-> g[u]]
  BY DEF Moved
<1>. HIDE DEF g, N
<1>6. \A u \in Tab : IsNote(g[u])
  BY <1>1, <1>3, <1>4
<1>7. Notes(g)
  BY <1>5, <1>6 DEF Notes
<1>. QED  BY <1>2, <1>3, <1>4, <1>7 DEF g, HasMoved

\* A code has left for `to`, has not, or is used up without another.
HasSent(g, t, channel, to, next, back) ==
    \/ g = back
    \/ \E c : IsCode(c) /\ c.channel = channel /\ c.to = to /\ HasCode(g, next, t, c)
    \/ HasNone(g, back, t)

\* A code leaves, or none does.
LEMMA SentIs ==
  ASSUME tick \in Nat, NEW t \in Tab, NEW channel, NEW to, NEW keys,
         NEW next, Notes(next), NEW back, Notes(back), Send(t, channel, to, keys, next, back)
  PROVE  HasSent(tab', t, channel, to, next, back)
<1>. DEFINE c == Issued(channel, to)
<1>1. IsCode(c) /\ c.channel = channel /\ c.to = to
  BY IssuedIs
<1>2. IsCode(NoCode)
  BY NoTabIs
<1>3. tab' = back \/ tab' = With(next, t, c) \/ tab' = Emptied(back, t, NoCode)
  BY DEF Send
<1>. HIDE DEF c
<1>4. HasCode(With(next, t, c), next, t, c) /\ HasNone(Emptied(back, t, NoCode), back, t)
  BY <1>1, <1>2, WithIs
<1>. QED  BY <1>1, <1>3, <1>4 DEF HasSent

\* Notes whose account has changed.
LEMMA MovedNotes ==
  ASSUME NEW f, Notes(f), \A u \in Tab : f[u].hash => f[u].step # "identifier", tab' = Moved(f)
  PROVE  NotesInv'
<1>1. HasMoved(tab', f)
  BY MovedIs
<1>2. \A u \in Tab : tab'[u].hash => tab'[u].code.moved /\ tab'[u].step # "identifier"
  BY <1>1 DEF HasMoved
<1>. QED  BY <1>1, <1>2, AllMoved DEF HasMoved

\* What the invariant says of one tab.
LEMMA TabIs ==
  ASSUME NotesInv, NEW t \in Tab
  PROVE  Notes(tab) /\ IsNote(tab[t]) /\ Meant(tab[t]) /\ DOMAIN tab = Tab
  BY DEF NotesInv, Notes

\* A note that keeps its code and takes another step, identifier or channel.
LEMMA StepTaken ==
  ASSUME NotesInv, NEW t \in Tab, NEW s \in Step, NEW y \in Typed, NEW o,
         NEW g, \/ g = [tab EXCEPT ![t].step = s]
                \/ g = [tab EXCEPT ![t].typed = y, ![t].only = o] /\ s = tab[t].step
                \/ g = [tab EXCEPT ![t].step = s, ![t].typed = y]
                \/ g = [tab EXCEPT ![t].typed = y, ![t].only = o, ![t].step = s]
  PROVE  KeepsCode(g, tab, t, s)
<1>. DEFINE n == tab[t]
            a == [n EXCEPT !.typed = y]
            b == [a EXCEPT !.only = o]
            c == [n EXCEPT !.step = s]
            d == [c EXCEPT !.typed = y]
            e == [b EXCEPT !.step = s]
<1>1. IsNote(n) /\ Notes(tab) /\ DOMAIN tab = Tab
  BY TabIs
<1>2. Kept(a, n, n.step) /\ Kept(c, n, s)
  BY <1>1, NoteSet, Zenon
<1>3. [tab EXCEPT ![t].step = s] = [tab EXCEPT ![t] = c]
  BY <1>1
<1>4. [tab EXCEPT ![t].typed = y, ![t].only = o] = [tab EXCEPT ![t] = b]
  BY <1>1
<1>5. [tab EXCEPT ![t].step = s, ![t].typed = y] = [tab EXCEPT ![t] = d]
  BY <1>1
<1>6. [tab EXCEPT ![t].typed = y, ![t].only = o, ![t].step = s] = [tab EXCEPT ![t] = e]
  BY <1>1
<1>. HIDE DEF a, c
<1>7. Kept(b, n, n.step) /\ Kept(d, n, s)
  <2>1. IsNote(a) /\ IsNote(c)
    BY <1>2 DEF Kept
  <2>2. Kept(b, a, a.step) /\ Kept(d, c, c.step)
    BY <2>1, NoteSet, Zenon
  <2>. QED  BY <1>2, <2>2 DEF Kept
<1>. HIDE DEF b, d
<1>8. Kept(e, n, s)
  <2>1. IsNote(b)
    BY <1>7 DEF Kept
  <2>2. Kept(e, b, s)
    BY <2>1, NoteSet, Zenon
  <2>. QED  BY <1>7, <2>2 DEF Kept
<1>. HIDE DEF e
<1>9. ASSUME NEW x, Kept(x, n, s), g = [tab EXCEPT ![t] = x]
      PROVE  KeepsCode(g, tab, t, s)
  <2>1. IsNote(x)
    BY <1>9 DEF Kept
  <2>2. Puts([tab EXCEPT ![t] = x], tab, t, x)
    BY <1>1, <2>1, PutIs, Zenon
  <2>. QED  BY <1>9, <2>2 DEF Kept, Puts, KeepsCode
<1>10. \/ g = [tab EXCEPT ![t] = c] \/ g = [tab EXCEPT ![t] = d] \/ g = [tab EXCEPT ![t] = e]
       \/ g = [tab EXCEPT ![t] = b] /\ s = n.step
  BY <1>3, <1>4, <1>5, <1>6
<1>. HIDE DEF n
<1>. QED  BY <1>2, <1>7, <1>8, <1>9, <1>10

\* A decoy: its code is behind no channel.
LEMMA DecoyNotes ==
  ASSUME NotesInv, UNCHANGED <<numbers, verified>>, tick \in Nat, NEW t \in Tab, NEW typed \in Typed,
         tab[t].step \in {"identifier", "code"}, StartDecoy(t, typed)
  PROVE  NotesInv'
<1>. DEFINE n == tab[t]
            a == [n EXCEPT !.step = "code"]
            b == [a EXCEPT !.typed = typed]
            c == [b EXCEPT !.only = AnyChannel]
            d == [c EXCEPT !.decoy = TRUE]
            decoy == [tab EXCEPT ![t] = d]
            sent == Issued(NoChannel, "none")
<1>1. IsNote(n) /\ Notes(tab) /\ DOMAIN tab = Tab /\ Meant(n) /\ "code" \in Step
  BY TabIs DEF Step
<1>2. IsNote(a) /\ Kept(a, n, "code")
  <2>1. Kept(a, n, "code")
    BY <1>1, NoteSet, Zenon
  <2>. QED  BY <2>1 DEF Kept
<1>. HIDE DEF a
<1>3. IsNote(b) /\ Kept(b, a, a.step)
  <2>1. Kept(b, a, a.step)
    BY <1>1, <1>2, NoteSet, Zenon
  <2>. QED  BY <2>1 DEF Kept
<1>. HIDE DEF b
<1>4. IsNote(c) /\ Kept(c, b, b.step)
  <2>1. Kept(c, b, b.step)
    BY <1>1, <1>3, NoteSet, Zenon
  <2>. QED  BY <2>1 DEF Kept
<1>. HIDE DEF c
<1>5. IsNote(d) /\ d.step = "code" /\ d.code = n.code /\ (d.hash <=> n.hash)
  <2>1. Kept(d, c, c.step)
    BY <1>1, <1>4, NoteSet, Zenon
  <2>. QED  BY <1>2, <1>3, <1>4, <2>1 DEF Kept
<1>6. [tab EXCEPT ![t] = [@ EXCEPT !.step = "code", !.typed = typed, !.only = AnyChannel, !.decoy = TRUE]] = decoy
  BY <1>1 DEF a, b, c
<1>. HIDE DEF d, n
<1>7. Puts(decoy, tab, t, d)
  BY <1>1, <1>5, PutIs, Zenon
<1>8. IsCode(sent) /\ sent.channel = NoChannel
  BY IssuedIs
<1>. HIDE DEF decoy, sent
<1>9. tab' = decoy \/ tab' = With(decoy, t, sent)
  BY <1>6 DEF StartDecoy, sent
<1>10. CASE tab' = decoy
  <2>1. Meant(tab'[t])
    BY <1>1, <1>5, <1>7, <1>10 DEF Meant, n, Puts
  <2>. QED  BY <1>7, <1>10, <2>1, OneTab DEF Puts, Beside
<1>11. CASE tab' = With(decoy, t, sent)
  <2>1. HasCode(tab', decoy, t, sent)
    BY <1>7, <1>8, <1>11, WithIs DEF Puts, Beside
  <2>2. Meant(tab'[t])
    BY <1>5, <1>7, <1>8, <2>1, ChannelsAre DEF Meant, Puts, HasCode
  <2>. QED  BY <1>7, <2>1, <2>2, OneTab DEF Puts, HasCode, Beside
<1>. QED  BY <1>9, <1>10, <1>11

\* A code to reset the password goes to what is behind its channel now.
LEMMA ResetNotes ==
  ASSUME NotesInv, UNCHANGED <<numbers, verified>>, tick \in Nat, NEW t \in Tab, NEW id \in DOMAIN Channels(t),
         NEW next, next = [tab EXCEPT ![t].step = "code"] \/ (next = tab /\ tab[t].step = "code"),
         SendReset(t, id, next, tab)
  PROVE  NotesInv'
<1>1. Notes(tab) /\ IsNote(tab[t]) /\ Meant(tab[t]) /\ "code" \in Step /\ tab[t].typed \in Typed
  BY TabIs, NoteIs DEF Step
<1>2. KeepsCode(next, tab, t, "code")
  <2>1. CASE next = [tab EXCEPT ![t].step = "code"]
    BY <1>1, <2>1, StepTaken, Zenon
  <2>. QED  BY <1>1, <2>1 DEF KeepsCode, Beside
<1>3. id \in DOMAIN AvailableChannels /\ Channels(t)[id] = AvailableChannels[id]
  BY ChannelsAre
<1>4. Send(t, id, Channels(t)[id], ResetKeys(t), next, tab)
  BY DEF SendReset
<1>5. HasSent(tab', t, id, Channels(t)[id], next, tab)
  <2>1. Notes(next)
    BY <1>2 DEF KeepsCode, Beside
  <2>. QED  BY <1>1, <1>3, <1>4, <2>1, SentIs
<1>6. Meant(tab'[t]) /\ Beside(tab', tab, t)
  <2>1. CASE tab' = tab
    BY <1>1, <2>1 DEF Beside
  <2>2. ASSUME NEW c, IsCode(c), c.channel = id, c.to = Channels(t)[id], HasCode(tab', next, t, c)
        PROVE  Meant(tab'[t]) /\ Beside(tab', tab, t)
    BY <1>2, <1>3, <2>2 DEF HasCode, KeepsCode, Beside, Meant
  <2>3. CASE HasNone(tab', tab, t)
    BY <2>3 DEF HasNone, Meant
  <2>. QED  BY <1>5, <2>1, <2>2, <2>3 DEF HasSent
<1>. QED  BY <1>6, OneTab DEF Beside

\* A code to verify goes to the number that is to be verified now.
LEMMA VerifyNotes ==
  ASSUME NotesInv, UNCHANGED <<numbers, verified>>, tick \in Nat, NEW t \in Tab,
         NEW from, Beside(from, tab, t), from[t].step = "verify", Meant(from[t]),
         SendVerify(t, NumberToVerify, from)
  PROVE  NotesInv'
<1>1. Send(t, WhatsApp(1), NumberToVerify, <<"kk">>, from, from)
  BY DEF SendVerify
<1>2. HasSent(tab', t, WhatsApp(1), NumberToVerify, from, from)
  <2>1. Notes(from)
    BY DEF Beside
  <2>. QED  BY <1>1, <2>1, SentIs
<1>3. Meant(tab'[t]) /\ Beside(tab', tab, t)
  <2>1. CASE tab' = from
    BY <2>1
  <2>2. ASSUME NEW c, IsCode(c), c.to = NumberToVerify, HasCode(tab', from, t, c)
        PROVE  Meant(tab'[t]) /\ Beside(tab', tab, t)
    BY <2>2 DEF HasCode, Beside, Meant
  <2>3. CASE HasNone(tab', from, t)
    BY <2>3 DEF HasNone, Beside, Meant
  <2>. QED  BY <1>2, <2>1, <2>2, <2>3 DEF HasSent
<1>. QED  BY <1>3, OneTab DEF Beside

\* A code that is not right leaves the notes, or counts one more wrong answer.
LEMMA RefusedNotes ==
  ASSUME NotesInv, UNCHANGED <<numbers, verified>>, NEW t \in Tab, NEW check, tab' = AfterRefusal(t, check)
  PROVE  NotesInv'
<1>. DEFINE n == tab[t]
            c == n.code
            w == [c EXCEPT !.wrong = @ + 1]
            x == [n EXCEPT !.code = w]
            e == [NoCode EXCEPT !.channel = c.channel, !.issued = c.issued]
<1>1. IsNote(n) /\ Notes(tab) /\ DOMAIN tab = Tab /\ IsCode(c) /\ Meant(n)
  BY TabIs, NoteIs
<1>2. IsCode(w) /\ w.to = c.to /\ w.channel = c.channel /\ (w.moved <=> c.moved)
  <2>. HIDE DEF n, c
  <2>1. c \in [channel : {c.channel}, to : {c.to}, issued : Nat, wrong : Nat, moved : BOOLEAN]
    BY <1>1 DEF IsCode
  <2>2. /\ w \in [channel : {c.channel}, to : {c.to}, issued : Nat, wrong : Nat, moved : BOOLEAN]
        /\ w.to = c.to /\ w.channel = c.channel /\ (w.moved <=> c.moved)
    BY <2>1
  <2>. HIDE DEF w
  <2>. QED  BY <2>2 DEF IsCode
<1>3. IsCode(e)
  <2>. HIDE DEF n, c
  <2>1. c.issued \in Nat
    BY <1>1 DEF IsCode
  <2>. QED  BY <2>1 DEF IsCode, NoCode
<1>. HIDE DEF w
<1>4. IsNote(x) /\ x.code = w /\ x.step = n.step /\ (x.hash <=> n.hash)
  <2>1. Given(x, n, w)
    BY <1>1, <1>2, CodeSet, Zenon
  <2>. QED  BY <2>1 DEF Given
<1>. HIDE DEF x, e
<1>5. tab' = [tab EXCEPT ![t] = x] \/ tab' = Emptied(tab, t, e)
  BY <1>1 DEF AfterRefusal, AfterWrong, Without, x, w, e, IsNote, IsCode
<1>6. CASE tab' = [tab EXCEPT ![t] = x]
  <2>0. Puts([tab EXCEPT ![t] = x], tab, t, x)
    BY <1>1, <1>4, PutIs, Zenon
  <2>1. Puts(tab', tab, t, x)
    BY <1>6, <2>0
  <2>2. Meant(x)
    BY <1>1, <1>2, <1>4 DEF Meant
  <2>. QED  BY <2>1, <2>2, OneTab DEF Puts, Beside
<1>7. CASE tab' = Emptied(tab, t, e)
  <2>1. HasNone(tab', tab, t)
    BY <1>1, <1>3, <1>7, WithIs
  <2>2. Meant(tab'[t])
    BY <2>1 DEF Meant, HasNone
  <2>. QED  BY <2>1, <2>2, OneTab DEF HasNone, Beside
<1>. QED  BY <1>5, <1>6, <1>7

\* A tab whose flow ends has no code.
LEMMA EndedIs ==
  ASSUME NotesInv, NEW t \in Tab
  PROVE  /\ Puts(Ended(t), tab, t, NoTab) /\ Meant(NoTab)
         /\ \A u \in Tab : Ended(t)[u].hash => Ended(t)[u].step # "identifier"
<1>1. Notes(tab) /\ IsNote(NoTab) /\ ~NoTab.hash
  BY TabIs, NoTabIs
<1>2. Ended(t) = [tab EXCEPT ![t] = NoTab]
  BY DEF Ended
<1>3. Puts(Ended(t), tab, t, NoTab)
  BY <1>1, <1>2, PutIs, Zenon
<1>. QED  BY <1>1, <1>3 DEF NotesInv, Meant, Puts, Beside
\* An identifier is entered: a code goes at once to the contact that was typed.
LEMMA EnterIdentifierSteps ==
  ASSUME LimitInv, NotesInv, NEW t \in Tab, NEW typed \in Typed, EnterIdentifier(t, typed)
  PROVE  LimitInv' /\ NotesInv'
<1>. DEFINE behind == {id \in DOMAIN AvailableChannels : AvailableChannels[id] = typed}
            asked == [tab EXCEPT ![t].typed = typed, ![t].only = AnyChannel]
            id == CHOOSE i \in behind : TRUE
            only == [asked EXCEPT ![t].only = id, ![t].step = "code"]
            keys == <<typed, "account">>
<1>1. /\ tab[t].step = "identifier" /\ UNCHANGED <<numbers, verified>> /\ tick' = tick
      /\ \/ tab' = asked /\ UNCHANGED <<counted, resets>>
         \/ tab' = [asked EXCEPT ![t].step = "channel"] /\ UNCHANGED <<counted, resets>>
         \/ StartDecoy(t, typed)
         \/ /\ behind # {} /\ Send(t, id, typed, keys, only, asked)
            /\ resets' = IF tab'[t].step = "code" THEN Append(Recent(resets), tick) ELSE Recent(resets)
  BY DEF EnterIdentifier
<1>2. Notes(tab) /\ IsNote(tab[t]) /\ Meant(tab[t]) /\ DOMAIN tab = Tab /\ ~tab[t].hash /\ tick \in Nat
  BY <1>1, TabIs DEF Meant, LimitInv
<1>3. KeepsCode(asked, tab, t, "identifier")
  <2>1. "identifier" \in Step /\ "identifier" = tab[t].step
    BY <1>1 DEF Step
  <2>. QED  BY <2>1, StepTaken, Zenon
<1>. DEFINE offered == [asked EXCEPT ![t].step = "channel"]
<1>4. KeepsCode(offered, tab, t, "channel")
  <2>. DEFINE o == [tab EXCEPT ![t].typed = typed, ![t].only = AnyChannel, ![t].step = "channel"]
  <2>1. "channel" \in Step
    BY DEF Step
  <2>2. KeepsCode(o, tab, t, "channel")
    BY <2>1, StepTaken, Zenon
  <2>3. offered = o
    BY <1>2
  <2>. QED  BY <2>2, <2>3
<1>5. ASSUME behind # {}
      PROVE  /\ id \in DOMAIN AvailableChannels /\ AvailableChannels[id] = typed
             /\ KeepsCode(only, tab, t, "code")
  <2>1. id \in behind
    BY <1>5
  <2>2. id \in DOMAIN AvailableChannels /\ AvailableChannels[id] = typed
    BY <2>1, ChannelsAre
  <2>. HIDE DEF id
  <2>. DEFINE o == [tab EXCEPT ![t].typed = typed, ![t].only = id, ![t].step = "code"]
  <2>3. "code" \in Step
    BY <2>2 DEF Step
  <2>4. KeepsCode(o, tab, t, "code")
    BY <2>3, StepTaken, Zenon
  <2>5. only = o
    BY <1>2
  <2>. QED  BY <2>2, <2>4, <2>5
<1>. HIDE DEF asked, only, offered, behind, id
<1>6. CASE tab' = asked /\ UNCHANGED <<counted, resets>>
  <2>1. Notes(tab') /\ (\A u \in Tab \ {t} : tab'[u] = tab[u]) /\ Meant(tab'[t])
    BY <1>2, <1>3, <1>6 DEF KeepsCode, Beside, Meant
  <2>. QED  BY <1>1, <1>6, <2>1, OneTab, LimitStays
<1>7. CASE tab' = offered /\ UNCHANGED <<counted, resets>>
  <2>1. Notes(tab') /\ (\A u \in Tab \ {t} : tab'[u] = tab[u]) /\ Meant(tab'[t])
    BY <1>2, <1>4, <1>7 DEF KeepsCode, Beside, Meant
  <2>. QED  BY <1>1, <1>7, <2>1, OneTab, LimitStays
<1>8. CASE StartDecoy(t, typed)
  BY <1>1, <1>2, <1>8, DecoyNotes, DecoyCounted
<1>9. CASE /\ behind # {} /\ Send(t, id, typed, keys, only, asked)
           /\ resets' = IF tab'[t].step = "code" THEN Append(Recent(resets), tick) ELSE Recent(resets)
  <2>1. HasSent(tab', t, id, typed, only, asked)
    BY <1>2, <1>3, <1>5, <1>9, SentIs DEF KeepsCode, Beside
  <2>2. Notes(tab') /\ (\A u \in Tab \ {t} : tab'[u] = tab[u]) /\ Meant(tab'[t])
    <3>1. CASE tab' = asked
      BY <1>2, <1>3, <3>1 DEF KeepsCode, Beside, Meant
    <3>2. ASSUME NEW c, IsCode(c), c.channel = id, c.to = typed, HasCode(tab', only, t, c)
          PROVE  Notes(tab') /\ (\A u \in Tab \ {t} : tab'[u] = tab[u]) /\ Meant(tab'[t])
      BY <1>5, <1>9, <3>2 DEF HasCode, KeepsCode, Beside, Meant
    <3>3. CASE HasNone(tab', asked, t)
      BY <1>3, <3>3 DEF HasNone, KeepsCode, Beside, Meant
    <3>. QED  BY <2>1, <3>1, <3>2, <3>3 DEF HasSent
  <2>3. LimitInv'
    <3>1. counted' = TakeFrom(keys) /\ (~Allowed(keys) => tab' = asked)
      BY <1>9 DEF Send
    <3>2. resets' = Recent(resets) \/ (Allowed(keys) /\ resets' = Append(Recent(resets), tick))
      BY <1>3, <1>9, <3>1 DEF KeepsCode
    <3>3. DOMAIN keys \subseteq Nat \ {0} /\ (\E k : keys = <<k, "account">>)
      OBVIOUS
    <3>. HIDE DEF keys
    <3>. QED  BY <1>1, <3>1, <3>2, <3>3, LimitTaken
  <2>. QED  BY <1>1, <2>2, <2>3, OneTab
<1>. QED  BY <1>1, <1>6, <1>7, <1>8, <1>9 DEF offered

\* A code is sent to a channel, or sent once more.
LEMMA ResetSteps ==
  ASSUME LimitInv, NotesInv, NEW t \in Tab, NEW id,
         ChooseChannel(t, id) \/ Resend(t)
  PROVE  LimitInv' /\ NotesInv'
<1>1. tick \in Nat /\ IsNote(tab[t])
  BY TabIs DEF LimitInv
<1>2. CASE ChooseChannel(t, id)
  <2>. DEFINE next == [tab EXCEPT ![t].step = "code"]
  <2>1. id \in DOMAIN Channels(t) /\ SendReset(t, id, next, tab) /\ UNCHANGED <<numbers, verified>> /\ tick' = tick
    BY <1>2 DEF ChooseChannel
  <2>2. next = [tab EXCEPT ![t].step = "code"]
    OBVIOUS
  <2>. HIDE DEF next
  <2>. QED  BY <1>1, <2>1, <2>2, ResetNotes, ResetSent
<1>3. CASE Resend(t)
  <2>. DEFINE i == tab[t].code.channel
  <2>1. /\ tab[t].step = "code" /\ UNCHANGED <<numbers, verified>> /\ tick' = tick
        /\ StartDecoy(t, tab[t].typed) \/ (i \in DOMAIN Channels(t) /\ SendReset(t, i, tab, tab))
    BY <1>3 DEF Resend
  <2>2. CASE StartDecoy(t, tab[t].typed)
    BY <1>1, <2>1, <2>2, NoteIs, DecoyNotes, DecoyCounted
  <2>3. CASE i \in DOMAIN Channels(t) /\ SendReset(t, i, tab, tab)
    <3>. HIDE DEF i
    <3>. QED  BY <1>1, <2>1, <2>3, ResetNotes, ResetSent
  <2>. QED  BY <2>1, <2>2, <2>3
<1>. QED  BY <1>2, <1>3

\* The flow begins again, ends, or goes back to the channels.
LEMMA FlowSteps ==
  ASSUME LimitInv, NotesInv, NEW t \in Tab, OpenReset(t) \/ ChangeChannel(t) \/ NothingToVerify(t)
  PROVE  LimitInv' /\ NotesInv'
<1>1. UNCHANGED <<numbers, verified, counted, resets, tick>>
  BY DEF OpenReset, ChangeChannel, NothingToVerify
<1>2. LimitInv'
  BY <1>1, LimitStays
<1>3. CASE OpenReset(t) \/ NothingToVerify(t)
  <2>1. tab' = Ended(t)
    BY <1>3 DEF OpenReset, NothingToVerify, Ended
  <2>. QED  BY <1>1, <1>2, <2>1, EndedIs, OneTab DEF Puts, Beside
<1>4. CASE ChangeChannel(t)
  <2>1. tab' = [tab EXCEPT ![t].step = "channel"] /\ tab[t].step = "code"
    BY <1>4 DEF ChangeChannel
  <2>2. "channel" \in Step /\ tab[t].typed \in Typed
    BY TabIs, NoteIs DEF Step
  <2>3. KeepsCode(tab', tab, t, "channel")
    BY <2>1, <2>2, StepTaken, Zenon
  <2>4. Meant(tab'[t])
    BY <2>3, TabIs DEF KeepsCode, Meant
  <2>. QED  BY <1>1, <1>2, <2>3, <2>4, OneTab DEF KeepsCode, Beside
<1>. QED  BY <1>3, <1>4

\* The page of the number to verify opens, or its code is asked for once more.
LEMMA VerifySteps ==
  ASSUME LimitInv, NotesInv, NEW t \in Tab, OpenVerify(t) \/ VerifyResend(t)
  PROVE  LimitInv' /\ NotesInv'
<1>1. UNCHANGED <<numbers, verified, resets, tick>> /\ tick \in Nat /\ Meant(tab[t]) /\ Notes(tab)
  BY TabIs DEF OpenVerify, VerifyResend, LimitInv
<1>2. CASE OpenVerify(t)
  <2>. DEFINE opened == [tab EXCEPT ![t].step = "verify", ![t].typed = "kk"]
  <2>1. /\ tab[t].step \in {"identifier", "verify"}
        /\ \/ tab[t].hash /\ tab' = opened /\ UNCHANGED counted
           \/ SendVerify(t, NumberToVerify, opened)
    BY <1>2 DEF OpenVerify
  <2>2. "verify" \in Step /\ "kk" \in Typed
    BY DEF Step, Typed
  <2>3. KeepsCode(opened, tab, t, "verify")
    BY <2>2, StepTaken, Zenon
  <2>. HIDE DEF opened
  <2>4. Meant(opened[t]) /\ Beside(opened, tab, t) /\ opened[t].step = "verify"
    BY <1>1, <2>1, <2>3 DEF KeepsCode, Meant
  <2>5. CASE tab' = opened /\ UNCHANGED counted
    BY <1>1, <2>4, <2>5, OneTab, LimitStays DEF Beside
  <2>6. CASE SendVerify(t, NumberToVerify, opened)
    BY <1>1, <2>4, <2>6, VerifyNotes, VerifyCounted
  <2>. QED  BY <2>1, <2>5, <2>6
<1>3. CASE VerifyResend(t)
  <2>1. tab[t].step = "verify" /\ SendVerify(t, NumberToVerify, tab)
    BY <1>3 DEF VerifyResend
  <2>2. Beside(tab, tab, t)
    BY <1>1 DEF Beside
  <2>. QED  BY <1>1, <2>1, <2>2, VerifyNotes, VerifyCounted
<1>. QED  BY <1>2, <1>3

\* A right code ends the flow of its tab, and marks a number of the account if one is to be.
LEMMA RightCode ==
  ASSUME Places, NotesInv, numbers' = numbers, NEW t \in Tab, tab' = Ended(t), NEW found,
         verified' = verified \cup found,
         found \subseteq verified \/ \E j \in DOMAIN numbers : found = {numbers[j]}
  PROVE  NotesInv'
<1>1. Puts(tab', tab, t, NoTab) /\ Notes(tab') /\ (\A u \in Tab \ {t} : tab'[u] = tab[u]) /\ Meant(tab'[t])
  BY EndedIs DEF Puts, Beside
<1>2. CASE found \subseteq verified
  BY <1>1, <1>2, OneTab
<1>3. ASSUME NEW j \in DOMAIN numbers, found = {numbers[j]} PROVE NotesInv'
  <2>1. \A u \in Tab : Meant(tab'[u])
    BY <1>1 DEF NotesInv
  <2>2. \A u \in Tab : Meant(tab[u])'
    <3>1. ASSUME NEW n, Meant(n) PROVE Meant(n)'
      BY <1>3, <3>1, StillMeant
    <3>2. PICK f : f = tab'
      OBVIOUS
    <3>3. \A u \in Tab : Meant(f[u])'
      BY <2>1, <3>1, <3>2
    <3>. QED  BY <3>2, <3>3 DEF Meant
  <2>. QED  BY <1>1, <2>2 DEF NotesInv
<1>. QED  BY <1>2, <1>3

\* A code is answered.
LEMMA AnswerSteps ==
  ASSUME Places, LimitInv, NotesInv, NEW t \in Tab, NEW right \in BOOLEAN, EnterCode(t, right) \/ VerifyCode(t, right)
  PROVE  LimitInv' /\ NotesInv'
<1>1. UNCHANGED <<numbers, counted, resets, tick>>
  BY DEF EnterCode, VerifyCode
<1>2. LimitInv'
  BY <1>1, LimitStays
<1>3. ASSUME verified' = verified, NEW check, tab' = AfterRefusal(t, check) PROVE NotesInv'
  BY <1>1, <1>3, RefusedNotes
<1>4. CASE EnterCode(t, right)
  <2>. DEFINE id == tab[t].code.channel
              found == IF id \in DOMAIN Channels(t) /\ id # Email THEN {Channels(t)[id]} ELSE {}
  <2>1. \/ tab' = Ended(t) /\ verified' = verified \cup found
        \/ verified' = verified /\ \E check : tab' = AfterRefusal(t, check)
    BY <1>4 DEF EnterCode
  <2>2. found \subseteq verified \/ \E j \in DOMAIN numbers : found = {numbers[j]}
    <3>1. CASE id \in DOMAIN Channels(t) /\ id # Email
      <4>1. id \in DOMAIN AvailableChannels /\ Channels(t)[id] = AvailableChannels[id]
        BY <3>1, ChannelsAre
      <4>2. \E j \in DOMAIN numbers : AvailableChannels[id] = numbers[j]
        BY <3>1, <4>1, BehindIs
      <4>. QED  BY <3>1, <4>1, <4>2
    <3>. QED  BY <3>1
  <2>. HIDE DEF found
  <2>. QED  BY <1>1, <1>2, <1>3, <2>1, <2>2, RightCode
<1>5. CASE VerifyCode(t, right)
  <2>1. /\ NumberToVerify # "none"
        /\ \/ tab' = Ended(t) /\ verified' = verified \cup {NumberToVerify}
           \/ verified' = verified /\ \E check : tab' = AfterRefusal(t, check)
    BY <1>5 DEF VerifyCode
  <2>2. \E j \in DOMAIN numbers : {NumberToVerify} = {numbers[j]}
    BY <2>1, FirstIsOne
  <2>. QED  BY <1>1, <1>2, <1>3, <2>1, <2>2, RightCode
<1>. QED  BY <1>4, <1>5

\* The numbers stay a list.
LEMMA PlacesStay == Places /\ [OtpNext]_otpVars => Places'
<1>. SUFFICES ASSUME Places, [OtpNext]_otpVars PROVE Places'
  OBVIOUS
<1>1. CASE numbers' = numbers
  BY <1>1 DEF Places
<1>2. ASSUME NEW t \in Tab, NEW n \in Number, ChangeNumber(t, n) PROVE Places'
  <2>1. numbers' = Replaced(NumberToVerify, n)
    BY <1>2 DEF ChangeNumber
  <2>2. PICK c : DOMAIN numbers' = 1..c
    BY <2>1 DEF Replaced
  <2>. QED  BY <2>2 DEF Places
<1>3. CASE AppChangesNumbers
  <2>1. numbers' \in SeqOf(Number, 2)
    BY <1>3 DEF AppChangesNumbers
  <2>2. PICK c \in 0..2 : numbers' \in [1..c -> Number]
    BY <2>1 DEF SeqOf
  <2>. QED  BY <2>2 DEF Places
<1>4. ASSUME NEW t \in Tab
      PROVE  /\ OpenReset(t) \/ ChangeChannel(t) \/ Resend(t) \/ OpenVerify(t) \/ NothingToVerify(t) \/ VerifyResend(t)
                  => numbers' = numbers
             /\ \A typed, id, right : EnterIdentifier(t, typed) \/ ChooseChannel(t, id) \/ EnterCode(t, right) \/ VerifyCode(t, right)
                  => numbers' = numbers
  <2>1. OpenReset(t) \/ ChangeChannel(t) \/ Resend(t) \/ OpenVerify(t) \/ NothingToVerify(t) \/ VerifyResend(t)
          => numbers' = numbers
    BY DEF OpenReset, ChangeChannel, Resend, OpenVerify, NothingToVerify, VerifyResend
  <2>2. ASSUME NEW typed, EnterIdentifier(t, typed) PROVE numbers' = numbers
    BY <2>2 DEF EnterIdentifier
  <2>3. ASSUME NEW id, ChooseChannel(t, id) PROVE numbers' = numbers
    BY <2>3 DEF ChooseChannel
  <2>4. ASSUME NEW right, EnterCode(t, right) \/ VerifyCode(t, right) PROVE numbers' = numbers
    BY <2>4 DEF EnterCode, VerifyCode
  <2>. QED  BY <2>1, <2>2, <2>3, <2>4
<1>5. TickPasses \/ UNCHANGED otpVars => numbers' = numbers
  BY DEF TickPasses, otpVars
<1>. QED  BY <1>1, <1>2, <1>3, <1>4, <1>5 DEF OtpNext

\* The account changes from one tab, whose code goes to the number to verify then.
LEMMA OthersMoved ==
  ASSUME Notes(tab'), NEW t \in Tab,
         \A u \in Tab \ {t} : tab'[u].hash => tab'[u].code.moved /\ tab'[u].step # "identifier",
         tab'[t].hash => tab'[t].step = "verify" /\ tab'[t].code.to = NumberToVerify'
  PROVE  NotesInv'
<1>1. Notes(tab)'
  BY DEF Notes
<1>2. \A u \in Tab : Meant(tab[u])'
  BY DEF Meant
<1>. QED  BY <1>1, <1>2 DEF NotesInv

\* Another number takes the place of the one to be verified.
LEMMA ChangeNumberSteps ==
  ASSUME LimitInv, NotesInv, NEW t \in Tab, NEW new \in Number, ChangeNumber(t, new)
  PROVE  LimitInv' /\ NotesInv'
<1>. DEFINE next == FirstUnproved(numbers', verified)
            n == tab[t]
            m == [n EXCEPT !.hash = FALSE]
            silent == [tab EXCEPT ![t] = m]
            others == Moved(silent)
            again == [others EXCEPT ![t] = n]
            changed == Emptied(again, t, NoCode)
            IsSent(g) == \A u \in Tab \ {t} : g[u].hash => g[u].code.moved /\ g[u].step # "identifier"
<1>1. tick \in Nat /\ Notes(tab) /\ IsNote(n) /\ DOMAIN tab = Tab /\ n.step = "verify" /\ IsCode(NoCode)
  BY TabIs, NoTabIs DEF LimitInv, ChangeNumber
<1>2. /\ verified' = verified /\ resets' = resets /\ tick' = tick
      /\ \/ next = "none" /\ tab' = [changed EXCEPT ![t] = NoTab] /\ UNCHANGED counted
         \/ next # "none" /\ SendVerify(t, next, changed)
  <2>1. [tab EXCEPT ![t].hash = FALSE] = silent
    BY <1>1
  <2>. QED  BY <2>1 DEF ChangeNumber, CodeForgotten
<1>3. next = NumberToVerify'
  BY <1>2 DEF NumberToVerify
<1>4. IsNote(m) /\ m.step = n.step /\ m.hash = FALSE
  BY <1>1, CodeSet, Zenon
<1>. HIDE DEF next, m
<1>5. Puts(silent, tab, t, m)
  BY <1>1, <1>4, PutIs, Zenon
<1>. HIDE DEF silent
<1>6. HasMoved(others, silent) /\ IsSent(others)
  <2>1. HasMoved(others, silent)
    BY <1>5, MovedIs DEF Puts, Beside
  <2>2. \A u \in Tab : Meant(tab[u])
    BY DEF NotesInv
  <2>. QED  BY <1>5, <2>1, <2>2 DEF HasMoved, Puts, Beside, Meant
<1>. HIDE DEF others, n
<1>7. Puts(again, others, t, n)
  <2>1. Notes(others)
    BY <1>6 DEF HasMoved
  <2>. QED  BY <1>1, <2>1, PutIs, Zenon
<1>. HIDE DEF again
<1>8. HasNone(changed, again, t)
  <2>1. Notes(again)
    BY <1>7 DEF Puts, Beside
  <2>. QED  BY <1>1, <2>1, WithIs
<1>. HIDE DEF changed
<1>9. Notes(changed) /\ IsSent(changed) /\ changed[t].step = "verify" /\ ~changed[t].hash
  BY <1>1, <1>6, <1>7, <1>8 DEF HasNone, Puts, Beside
<1>10. CASE tab' = [changed EXCEPT ![t] = NoTab] /\ UNCHANGED counted
  <2>1. Puts(tab', changed, t, NoTab) /\ ~NoTab.hash
    BY <1>9, <1>10, NoTabIs, PutIs
  <2>2. NotesInv'
    BY <1>9, <2>1, OthersMoved DEF Puts, Beside
  <2>. QED  BY <1>2, <1>10, <2>2, LimitStays
<1>11. CASE SendVerify(t, next, changed)
  <2>1. Send(t, WhatsApp(1), next, <<"kk">>, changed, changed)
    BY <1>11 DEF SendVerify
  <2>2. HasSent(tab', t, WhatsApp(1), next, changed, changed)
    BY <1>1, <1>9, <2>1, SentIs
  <2>3. Beside(tab', changed, t) /\ (tab'[t].hash => tab'[t].step = "verify" /\ tab'[t].code.to = next)
    <3>1. CASE tab' = changed
      BY <1>9, <3>1 DEF Beside
    <3>2. ASSUME NEW c, IsCode(c), c.to = next, HasCode(tab', changed, t, c)
          PROVE  Beside(tab', changed, t) /\ (tab'[t].hash => tab'[t].step = "verify" /\ tab'[t].code.to = next)
      BY <1>9, <3>2 DEF HasCode
    <3>3. CASE HasNone(tab', changed, t)
      BY <3>3 DEF HasNone
    <3>. QED  BY <2>2, <3>1, <3>2, <3>3 DEF HasSent
  <2>4. NotesInv'
    BY <1>3, <1>9, <2>3, OthersMoved DEF Beside
  <2>. QED  BY <1>2, <1>11, <2>4, VerifyCounted
<1>. QED  BY <1>2, <1>10, <1>11

\* Keluarga SQ changes the numbers, or time passes.
LEMMA ElsewhereSteps ==
  ASSUME LimitInv, NotesInv, AppChangesNumbers \/ TickPasses
  PROVE  LimitInv' /\ NotesInv'
<1>1. CASE AppChangesNumbers
  <2>1. tab' = Moved(tab) /\ UNCHANGED <<counted, resets, tick>>
    BY <1>1 DEF AppChangesNumbers
  <2>2. Notes(tab) /\ \A u \in Tab : tab[u].hash => tab[u].step # "identifier"
    BY DEF NotesInv, Meant
  <2>. QED  BY <2>1, <2>2, MovedNotes, LimitStays
<1>2. CASE TickPasses
  <2>1. UNCHANGED <<numbers, verified, tab, counted, resets>> /\ tick' = tick + 1
    BY <1>2 DEF TickPasses
  <2>2. LimitInv'
    BY <2>1, LimitStays
  <2>3. Notes(tab)' /\ \A u \in Tab : Meant(tab[u])'
    <3>1. Notes(tab') /\ \A u \in Tab : Meant(tab'[u])
      BY <2>1 DEF NotesInv
    <3>2. \A u \in Tab : Meant(tab[u])'
      BY <2>1, <3>1, AccountSame DEF Meant
    <3>. QED  BY <3>1, <3>2 DEF Notes
  <2>. QED  BY <2>2, <2>3 DEF NotesInv
<1>. QED  BY <1>1, <1>2

-----------------------------------------------------------------------------
(* The theorems. *)

\* The inductive invariant of the codes.
OtpInv == LimitInv /\ NotesInv /\ Places

\* The account begins with no code out.
LEMMA OtpStart == OtpInit => OtpInv
<1>. SUFFICES ASSUME OtpInit PROVE OtpInv
  OBVIOUS
<1>1. tick = 0 /\ Account = <<>> /\ resets = <<>> /\ tab = [t \in Tab |-> NoTab]
  BY DEF OtpInit, Account, Key
<1>2. Log(<<>>) /\ tick \in Nat
  BY <1>1 DEF Log
<1>3. Bounded /\ Covered
  BY <1>1, OtpConstants DEF Bounded, Covered
<1>4. IsNote(NoTab) /\ ~NoTab.hash
  BY NoTabIs
<1>5. \A t \in Tab : tab[t] = NoTab
  BY <1>1
<1>6. tab \in [Tab -> {tab[t] : t \in Tab}]
  BY <1>1
<1>7. NotesInv
  BY <1>4, <1>5, <1>6 DEF NotesInv, Notes, Meant
<1>8. Places
  BY OtpAssumption DEF OtpInit, Places
<1>. QED  BY <1>1, <1>2, <1>3, <1>7, <1>8 DEF OtpInv, LimitInv

\* Every step keeps it.
LEMMA OtpStep == OtpInv /\ [OtpNext]_otpVars => OtpInv'
<1>. SUFFICES ASSUME LimitInv, NotesInv, Places, [OtpNext]_otpVars PROVE LimitInv' /\ NotesInv'
  BY PlacesStay DEF OtpInv
<1>1. CASE UNCHANGED otpVars
  <2>1. UNCHANGED <<numbers, verified, tab, counted, resets, tick>>
    BY <1>1 DEF otpVars
  <2>2. LimitInv'
    BY <2>1, LimitStays
  <2>3. \A u \in Tab : Meant(tab[u])'
    BY <2>1, AccountSame DEF NotesInv, Meant
  <2>4. Notes(tab)'
    BY <2>1 DEF NotesInv, Notes
  <2>. QED  BY <2>2, <2>3, <2>4 DEF NotesInv
<1>2. ASSUME NEW t \in Tab, OpenReset(t) \/ ChangeChannel(t) \/ NothingToVerify(t) PROVE LimitInv' /\ NotesInv'
  BY <1>2, FlowSteps
<1>3. ASSUME NEW t \in Tab, NEW id, Resend(t) \/ ChooseChannel(t, id) PROVE LimitInv' /\ NotesInv'
  BY <1>3, ResetSteps
<1>4. ASSUME NEW t \in Tab, OpenVerify(t) \/ VerifyResend(t) PROVE LimitInv' /\ NotesInv'
  BY <1>4, VerifySteps
<1>5. ASSUME NEW t \in Tab, NEW typed \in Typed, EnterIdentifier(t, typed) PROVE LimitInv' /\ NotesInv'
  BY <1>5, EnterIdentifierSteps
<1>6. ASSUME NEW t \in Tab, NEW right \in BOOLEAN, EnterCode(t, right) \/ VerifyCode(t, right)
      PROVE  LimitInv' /\ NotesInv'
  BY <1>6, AnswerSteps
<1>7. ASSUME NEW t \in Tab, NEW n \in Number, ChangeNumber(t, n) PROVE LimitInv' /\ NotesInv'
  BY <1>7, ChangeNumberSteps
<1>8. CASE AppChangesNumbers \/ TickPasses
  BY <1>8, ElsewhereSteps
<1>. QED  BY <1>1, <1>2, <1>3, <1>4, <1>5, <1>6, <1>7, <1>8 DEF OtpNext

\* Which codes mark a number.
LEMMA MarkedByItsCode ==
  ASSUME OtpInv, [OtpNext]_otpVars, NEW n \in verified' \ verified
  PROVE  \E t \in Tab :
            /\ MarkedBy(t, n)
            /\ \/ tab[t].code.to = n
               \/ tab[t].code.moved
               \/ tab[t].step = "verify" /\ tab[t].code.to \in verified
<1>1. PICK t \in Tab, right \in BOOLEAN : EnterCode(t, right) \/ VerifyCode(t, right)
  <2>1. verified' # verified /\ ~(verified' \subseteq verified)
    OBVIOUS
  <2>2. ASSUME NEW t \in Tab
        PROVE  ~OpenReset(t) /\ ~ChangeChannel(t) /\ ~NothingToVerify(t) /\ ~Resend(t)
    BY <2>1 DEF OpenReset, ChangeChannel, NothingToVerify, Resend
  <2>3. ASSUME NEW t \in Tab, NEW typed, NEW id
        PROVE  ~EnterIdentifier(t, typed) /\ ~ChooseChannel(t, id)
    <3>1. EnterIdentifier(t, typed) => verified' = verified
      BY DEF EnterIdentifier
    <3>2. ChooseChannel(t, id) => verified' = verified
      BY DEF ChooseChannel
    <3>. QED  BY <2>1, <3>1, <3>2
  <2>4. ASSUME NEW t \in Tab, NEW k PROVE ~OpenVerify(t) /\ ~VerifyResend(t) /\ ~ChangeNumber(t, k)
    <3>1. OpenVerify(t) \/ VerifyResend(t) => verified' = verified
      BY DEF OpenVerify, VerifyResend
    <3>2. ChangeNumber(t, k) => verified' = verified
      BY DEF ChangeNumber
    <3>. QED  BY <2>1, <3>1, <3>2
  <2>5. ~AppChangesNumbers /\ ~TickPasses /\ ~UNCHANGED otpVars
    BY <2>1 DEF AppChangesNumbers, TickPasses, otpVars
  <2>. QED  BY <2>2, <2>3, <2>4, <2>5 DEF OtpNext
<1>2. Meant(tab[t]) /\ Notes(tab) /\ IsNote(NoTab) /\ ~NoTab.hash
  BY TabIs, NoTabIs DEF OtpInv
<1>3. ~Ended(t)[t].hash
  BY <1>2, EndedIs DEF OtpInv, Puts
<1>4. tab[t].hash /\ tab' = Ended(t) => MarkedBy(t, n)
  BY <1>3 DEF MarkedBy
<1>5. \A r : Check(t, r) = "valid" => tab[t].hash
  BY DEF Check
<1>6. CASE VerifyCode(t, right)
  <2>1. tab[t].step = "verify" /\ Check(t, right) = "valid" /\ n = NumberToVerify /\ tab' = Ended(t)
    BY <1>6 DEF VerifyCode
  <2>. QED  BY <1>2, <1>4, <1>5, <2>1 DEF Meant
<1>7. CASE EnterCode(t, right)
  <2>. DEFINE id == tab[t].code.channel
  <2>1. /\ tab[t].step = "code" /\ Check(t, right) = "valid" /\ id \in DOMAIN Channels(t) /\ n = Channels(t)[id]
        /\ tab' = Ended(t)
    BY <1>7 DEF EnterCode
  <2>2. id \in DOMAIN AvailableChannels /\ Channels(t)[id] = AvailableChannels[id]
    BY <2>1, ChannelsAre
  <2>. QED  BY <1>2, <1>4, <1>5, <2>1, <2>2 DEF Meant
<1>. QED  BY <1>1, <1>6, <1>7

\* The inductive invariant holds in every state.
THEOREM CodesInvariant == OtpSpec => []OtpInv
<1>. QED  BY OtpStart, OtpStep, PTL DEF OtpSpec

\* However the tabs, the identifiers and Keluarga SQ interleave, no more than CodesPerHour codes
\* to reset the password leave for one account within a window.
THEOREM FiveCodesPerHour == OtpSpec => []FiveCodesAnHour
<1>1. OtpInv => FiveCodesAnHour
  BY LimitHolds DEF OtpInv
<1>. QED  BY <1>1, CodesInvariant, PTL

\* A number is marked as verified by the code that went to it, unless the numbers of the
\* account have changed since that code was sent, or, at sign-in, the number that had the
\* code was verified in another tab meanwhile.
THEOREM NumbersAreProved == OtpSpec => NumberProved
<1>1. OtpInv /\ [OtpNext]_otpVars =>
        [\A n \in verified' \ verified :
            \E t \in Tab :
               /\ MarkedBy(t, n)
               /\ \/ tab[t].code.to = n
                  \/ tab[t].code.moved
                  \/ tab[t].step = "verify" /\ tab[t].code.to \in verified]_otpVars
  BY MarkedByItsCode
<1>. QED  BY <1>1, CodesInvariant, PTL DEF OtpSpec, NumberProved

-----------------------------------------------------------------------------
(* The devices that skip the OTP. *)

\* A password and the second factor, as far as they have changed.
Credentials == [password : Int, otp : Int]

\* What a device has is a proof of the credentials it entered an OTP with, from the day it was
\* last trusted.
ProofIs(d) ==
    /\ visit[d].secret \in Credentials
    /\ earned[d] \in [secret : Credentials, day : Nat]
    /\ proof[d] # NoRecord => /\ proof[d].print = Fingerprint(earned[d].secret)
                              /\ proof[d].expires = earned[d].day + Lifetime

\* The inductive invariant: the attribute, which requests overwrite, has no part in it.
TrustInv ==
    /\ secret \in Credentials /\ date \in Nat
    /\ visit = [d \in Device |-> visit[d]] /\ proof = [d \in Device |-> proof[d]]
    /\ earned = [d \in Device |-> earned[d]]
    /\ \A d \in Device : ProofIs(d)

\* What the assumption says of the numbers, and the types of what is empty.
LEMMA TrustConstants ==
    /\ Lifetime \in Nat /\ MaxReplaced \in Nat
    /\ NoVisit.secret \in Credentials /\ Unearned \in [secret : Credentials, day : Nat]
BY TrustAssumption DEF TrustAssumption, NoVisit, Unearned, Credentials

\* Only what device d has changes, and rightly.
LEMMA DeviceStep ==
    ASSUME TrustInv, NEW d \in Device, NEW v, NEW p, NEW e,
           visit' = [visit EXCEPT ![d] = v], proof' = [proof EXCEPT ![d] = p], earned' = [earned EXCEPT ![d] = e],
           UNCHANGED <<secret, date>>,
           v.secret \in Credentials, e \in [secret : Credentials, day : Nat],
           p # NoRecord => p.print = Fingerprint(e.secret) /\ p.expires = e.day + Lifetime
    PROVE  TrustInv'
<1>1. /\ visit'[d] = v /\ proof'[d] = p /\ earned'[d] = e
      /\ \A x \in Device \ {d} : visit'[x] = visit[x] /\ proof'[x] = proof[x] /\ earned'[x] = earned[x]
      /\ visit' = [x \in Device |-> visit'[x]] /\ proof' = [x \in Device |-> proof'[x]]
      /\ earned' = [x \in Device |-> earned'[x]]
  BY DEF TrustInv
<1>2. ASSUME NEW x \in Device PROVE ProofIs(x)'
  <2>1. CASE x = d
    BY <2>1, <1>1 DEF ProofIs, Fingerprint
  <2>2. CASE x # d
    BY <2>2, <1>1 DEF TrustInv, ProofIs, Fingerprint
  <2> QED BY <2>1, <2>2
<1> QED BY <1>1, <1>2 DEF TrustInv

\* Every step of a request keeps the invariant.
LEMMA DeviceRequestSteps ==
    ASSUME TrustInv, NEW d \in Device,
           \/ BeginAuthenticate(d) \/ EnterOtp(d) \/ Disabled(d) \/ Trusted(d) \/ AskOtp(d) \/ LeavePage(d)
           \/ \E ticked \in BOOLEAN : PassOtp(d, ticked)
    PROVE  TrustInv'
<1>1. /\ secret \in Credentials /\ date \in Nat /\ ProofIs(d)
      /\ visit = [x \in Device |-> visit[x]] /\ proof = [x \in Device |-> proof[x]]
      /\ earned = [x \in Device |-> earned[x]]
  BY DEF TrustInv
<1>2. proof = [proof EXCEPT ![d] = proof[d]] /\ earned = [earned EXCEPT ![d] = earned[d]]
  BY <1>1
<1>3. ASSUME NEW goal, visit' = [visit EXCEPT ![d] = [NoVisit EXCEPT !.pc = goal]], UNCHANGED <<secret, date>>,
             NEW p, NEW e, proof' = [proof EXCEPT ![d] = p], earned' = [earned EXCEPT ![d] = e],
             e \in [secret : Credentials, day : Nat],
             p # NoRecord => p.print = Fingerprint(e.secret) /\ p.expires = e.day + Lifetime
      PROVE  TrustInv'
  <2>1. [NoVisit EXCEPT !.pc = goal].secret = NoVisit.secret
    BY DEF NoVisit
  <2> QED BY <1>3, <2>1, DeviceStep, TrustConstants
<1>4. ASSUME NEW goal, Read(d, goal), UNCHANGED <<secret, proof, earned, date>> PROVE TrustInv'
  <2> DEFINE v == [pc |-> goal, secret |-> secret, records |-> records]
  <2>1. visit' = [visit EXCEPT ![d] = v] /\ v.secret = secret
    BY <1>4 DEF Read
  <2> HIDE DEF v
  <2> QED BY <1>1, <1>2, <1>4, <2>1, DeviceStep DEF ProofIs
<1>5. CASE BeginAuthenticate(d) \/ EnterOtp(d)
  BY <1>4, <1>5 DEF BeginAuthenticate, EnterOtp
<1>6. CASE LeavePage(d)
  BY <1>1, <1>2, <1>3, <1>6 DEF LeavePage, NextVisit, ProofIs
<1>7. CASE Disabled(d)
  BY <1>1, <1>2, <1>3, <1>7 DEF Disabled, NextVisit, ProofIs
<1>8. CASE AskOtp(d)
  BY <1>1, <1>2, <1>3, <1>8 DEF AskOtp, NextVisit, ProofIs
\* A new record is of the credentials and of today.
<1>9. ASSUME NEW print PROVE NewRecord(print).print = print /\ NewRecord(print).expires = date + Lifetime
  BY DEF NewRecord
<1>10. CASE Trusted(d)
  <2> DEFINE new == NewRecord(ReadPrint(d))
             e == [earned[d] EXCEPT !.day = date]
  <2>1. /\ visit' = [visit EXCEPT ![d] = [NoVisit EXCEPT !.pc = "idle"]] /\ proof' = [proof EXCEPT ![d] = new]
        /\ earned' = [earned EXCEPT ![d].day = date] /\ UNCHANGED <<secret, date>>
        /\ proof[d] # NoRecord /\ proof[d].print = ReadPrint(d)
    BY <1>10 DEF Trusted, NextVisit, Valid
  <2>2. e \in [secret : Credentials, day : Nat] /\ e.secret = earned[d].secret /\ e.day = date
    BY <1>1 DEF ProofIs
  <2>3. earned' = [earned EXCEPT ![d] = e]
    BY <1>1, <2>1
  <2>4. new.print = Fingerprint(e.secret) /\ new.expires = e.day + Lifetime
    BY <1>1, <1>9, <2>1, <2>2 DEF ProofIs
  <2> HIDE DEF new, e
  <2> QED BY <1>3, <2>1, <2>2, <2>3, <2>4
<1>11. ASSUME NEW ticked \in BOOLEAN, PassOtp(d, ticked) PROVE TrustInv'
  <2>1. CASE ticked
    <3> DEFINE new == NewRecord(ReadPrint(d))
               e == [secret |-> visit[d].secret, day |-> date]
    <3>1. /\ visit' = [visit EXCEPT ![d] = [NoVisit EXCEPT !.pc = "idle"]] /\ proof' = [proof EXCEPT ![d] = new]
          /\ earned' = [earned EXCEPT ![d] = e] /\ UNCHANGED <<secret, date>>
      BY <1>11, <2>1 DEF PassOtp, NextVisit
    <3>2. e \in [secret : Credentials, day : Nat] /\ e.secret = visit[d].secret /\ e.day = date
      BY <1>1 DEF ProofIs
    <3>3. new.print = Fingerprint(e.secret) /\ new.expires = e.day + Lifetime
      BY <1>9, <3>2 DEF ReadPrint
    <3> HIDE DEF new, e
    <3> QED BY <1>3, <3>1, <3>2, <3>3
  <2>2. CASE ~ticked
    BY <1>1, <1>2, <1>3, <1>11, <2>2 DEF PassOtp, NextVisit, ProofIs
  <2> QED BY <2>1, <2>2
<1> QED BY <1>5, <1>6, <1>7, <1>8, <1>10, <1>11

\* The inductive invariant of the trusted devices holds throughout.
THEOREM TrustInvariant == TrustSpec => []TrustInv
<1>1. TrustInit => TrustInv
  <2> SUFFICES ASSUME TrustInit PROVE TrustInv
    OBVIOUS
  <2>1. secret \in Credentials /\ date \in Nat
    BY DEF TrustInit, Credentials
  <2> QED BY <2>1, TrustConstants DEF TrustInit, TrustInv, ProofIs
<1>2. TrustInv /\ [TrustNext]_trustVars => TrustInv'
  <2> SUFFICES ASSUME TrustInv, [TrustNext]_trustVars PROVE TrustInv'
    OBVIOUS
  <2>1. ASSUME UNCHANGED <<proof, visit, earned>>, secret' \in Credentials, date' \in Nat PROVE TrustInv'
    BY <2>1 DEF TrustInv, ProofIs, Fingerprint
  <2>2. ASSUME NEW which \in {"password", "otp"}, Replace(which) PROVE TrustInv'
    <3>1. secret' = [secret EXCEPT ![which] = @ + 1] /\ UNCHANGED <<proof, visit, earned, date>>
      BY <2>2 DEF Replace
    <3>2. secret' \in Credentials /\ date' \in Nat
      BY <3>1 DEF TrustInv, Credentials
    <3> QED BY <2>1, <3>1, <3>2
  <2>3. CASE DayPasses
    BY <2>1, <2>3 DEF DayPasses, TrustInv
  <2>4. CASE UNCHANGED trustVars
    BY <2>1, <2>4 DEF trustVars, TrustInv
  <2> QED BY <2>2, <2>3, <2>4, DeviceRequestSteps DEF TrustNext
<1> QED BY <1>1, <1>2, PTL DEF TrustSpec

\* A device skips the OTP only when an OTP was entered on it, box ticked, with the very
\* credentials the request found, and it was used within the lifetime, whatever other
\* requests wrote to the one attribute.
THEOREM TrustHasBeenEarned == TrustSpec => []TrustIsEarned
<1>1. TrustInv => TrustIsEarned
  <2> SUFFICES ASSUME TrustInv, NEW d \in Device, Valid(d)
               PROVE  earned[d].secret = visit[d].secret /\ date < earned[d].day + Lifetime
    BY DEF TrustIsEarned
  <2>1. /\ proof[d].print = Fingerprint(earned[d].secret) /\ proof[d].expires = earned[d].day + Lifetime
        /\ proof[d].print = Fingerprint(visit[d].secret) /\ proof[d].expires > date
        /\ earned[d].secret \in Credentials /\ visit[d].secret \in Credentials
    BY DEF TrustInv, ProofIs, Valid, Current, ReadPrint
  <2>2. /\ earned[d].secret.password = visit[d].secret.password
        /\ earned[d].secret.otp = visit[d].secret.otp
    BY <2>1 DEF Fingerprint
  <2> QED BY <2>1, <2>2 DEF Credentials
<1> QED BY <1>1, TrustInvariant, PTL
=============================================================================
