---------------------------- MODULE StaffAccess ----------------------------
(***************************************************************************)
(* What one person may use, and the offboarding that takes it all away     *)
(* (HUB-IMPL-013): application access, the Platform Administrator role,    *)
(* the organ membership and the Akun SQ itself.  The steps of an           *)
(* offboarding each read, revoke and read back one of these, then all are  *)
(* read once more; other administrators, HCIS and the person's own         *)
(* promotion to employee go on meanwhile.                                  *)
(*                                                                         *)
(* An advisory lock of a database session keeps offboardings of one person *)
(* apart; the session may be lost while its request goes on.  MaxGrants    *)
(* bounds what others give the person.                                     *)
(***************************************************************************)
EXTENDS Integers

CONSTANTS
    App,          \* application keys
    Hcis,         \* HCIS_APPLICATION_KEY
    Order,        \* the order of the steps
    Handler,      \* requests under way at a time
    MaxGrants,
    NoHandler

Resource == App \cup {"admin", "organ", "identity"}

ASSUME AccessAssumption ==
    /\ Hcis \in App
    /\ App \cap {"admin", "organ", "identity"} = {}
    /\ NoHandler \notin Handler
    /\ MaxGrants \in Nat

\* Applications first, the identity last (HUB-IMPL-013).
ASSUME OrderAssumption ==
    /\ Order \in [Resource -> Nat]
    /\ \A r, q \in Resource : Order[r] = Order[q] => r = q
    /\ \A a \in App : Order[a] < Order["admin"]
    /\ Order["admin"] < Order["organ"]
    /\ Order["organ"] < Order["identity"]

VARIABLES
    origin,       \* who made the Akun SQ: provision, for a NIP ("staff"), or Path B ("organ")
    state,        \* of each resource; "revoked" is ended or disabled, too
    employee,     \* Keycloak's hcisEmployeeId
    term,         \* the number of the latest organ membership
    path,         \* its provisioning_path
    operation,    \* staff_lifecycle_operations.status
    lock,         \* holder of the advisory lock
    grants,       \* what others gave so far
    (* one request: its step, the organ membership it has read, the resources it
       has yet to go through, and whether a step failed *)
    pc, row, todo, failed,
    since         \* history: what was given since the final verification began

personVars == <<origin, state, employee, term, path, grants>>
requestVars == <<pc, row, todo, failed>>
vars == <<personVars, operation, lock, requestVars, since>>

State == {"none", "active", "revoked"}
Path == {"existing_staff", "organ_identity"}
Running == {"begin", "list", "read", "revoke", "verify", "check", "finish"}
Pc == Running \cup {"idle", "lock", "end", "inspect", "invite", "grant"}

Init ==
    /\ origin \in {"staff", "organ"}
    /\ state \in [Resource -> {"none", "active"}]
    \* Who has never been an administrator is like one revoked.
    /\ state["admin"] = "active"
    /\ state["identity"] = "active"
    /\ term = 0
    /\ employee = (origin = "staff")
    /\ path = IF origin = "staff" THEN "existing_staff" ELSE "organ_identity"
    /\ operation = "none"
    /\ lock = NoHandler
    /\ grants = 0
    /\ pc = [h \in Handler |-> "idle"]
    /\ row = [h \in Handler |-> 0]
    /\ todo = [h \in Handler |-> {}]
    /\ failed = [h \in Handler |-> FALSE]
    /\ since = [h \in Handler |-> {}]

-----------------------------------------------------------------------------
(* Requests. *)

Goto(h, step) == pc' = [pc EXCEPT ![h] = step]

End(h) ==
    /\ Goto(h, "idle")
    /\ todo' = [todo EXCEPT ![h] = {}]
    /\ failed' = [failed EXCEPT ![h] = FALSE]
    /\ row' = [row EXCEPT ![h] = 0]
    /\ since' = [since EXCEPT ![h] = {}]

\* The lock without h.
Unlocked(h) == IF lock = h THEN NoHandler ELSE lock

\* An error leaves the request, or its process stops: either gives up the lock.
Throw(h) ==
    /\ pc[h] # "idle"
    /\ End(h)
    /\ lock' = Unlocked(h)
    /\ UNCHANGED <<personVars, operation>>

Ask(h, step) ==
    /\ pc[h] = "idle"
    /\ Goto(h, step)
    /\ UNCHANGED <<personVars, operation, lock, todo, failed, since>>

Offboard(h) == Ask(h, "lock") /\ UNCHANGED row

\* end, of the latest membership: a path of existing staff leaves the Akun SQ alone.
EndMembership(h) ==
    /\ state["organ"] # "none"
    /\ Ask(h, IF path = "organ_identity" THEN "inspect" ELSE "end")
    /\ row' = [row EXCEPT ![h] = term]

\* isPathB: who has become an employee since is staff.
InspectForEnd(h) ==
    /\ pc[h] = "inspect"
    /\ \/ employee /\ Goto(h, "end") /\ UNCHANGED row
       \/ ~employee /\ Goto(h, "lock") /\ row' = [row EXCEPT ![h] = 0]
    /\ UNCHANGED <<personVars, operation, lock, todo, failed, since>>

\* end and endForOffboarding end the membership that was read, whatever came after it.
Ends(h, r) == r = "organ" => row[h] = term

EndRow(h) ==
    /\ pc[h] = "end"
    /\ state' = IF Ends(h, "organ") THEN [state EXCEPT !["organ"] = "revoked"] ELSE state
    /\ End(h)
    /\ UNCHANGED <<origin, employee, term, path, grants, operation, lock>>

\* inviteFromHcis refuses who is disabled, and whose Akun SQ a NIP did not make.
Invite(h) ==
    /\ origin = "staff"
    /\ state["identity"] = "active"
    /\ Ask(h, "invite")
    /\ UNCHANGED row

\* Only where there is no record: a revoked grant stays revoked.
ReadForInvite(h) ==
    /\ pc[h] = "invite"
    /\ \/ /\ state[Hcis] = "none"
          /\ Goto(h, "grant")
          /\ UNCHANGED <<personVars, operation, lock, row, todo, failed, since>>
       \/ state[Hcis] # "none" /\ End(h) /\ UNCHANGED <<personVars, operation, lock>>

-----------------------------------------------------------------------------
(* What is given and taken beside the offboarding. *)

\* The final verifications under way that r is given after.
GivenTo(r) == [h \in Handler |-> IF pc[h] \in {"check", "finish"} THEN since[h] \cup {r} ELSE since[h]]

GrantForInvite(h) ==
    /\ pc[h] = "grant"
    /\ grants < MaxGrants
    /\ grants' = grants + 1
    /\ state' = [state EXCEPT ![Hcis] = "active"]
    /\ since' = [GivenTo(Hcis) EXCEPT ![h] = {}]
    /\ Goto(h, "idle")
    /\ todo' = [todo EXCEPT ![h] = {}]
    /\ failed' = [failed EXCEPT ![h] = FALSE]
    /\ UNCHANGED <<origin, employee, term, path, row, operation, lock>>

\* An administrator grants access, re-enables the Akun SQ or adds a membership,
\* of Path A or for one who is still its organ identity; two administrators make
\* a third.
Give(r) ==
    /\ state[r] # "active"
    /\ grants < MaxGrants
    /\ grants' = grants + 1
    /\ state' = [state EXCEPT ![r] = "active"]
    /\ since' = GivenTo(r)
    /\ path' \in IF r # "organ" THEN {path}
                 ELSE {"existing_staff"} \cup
                      {q \in {"organ_identity"} : origin = "organ" /\ ~employee}
    /\ term' = IF r = "organ" THEN term + 1 ELSE term
    /\ UNCHANGED <<origin, employee, operation, lock, requestVars>>

\* An administrator revokes access or the role.
Take(r) ==
    /\ r \in App \cup {"admin"}
    /\ state[r] = "active"
    /\ state' = [state EXCEPT ![r] = "revoked"]
    /\ UNCHANGED <<origin, employee, term, path, grants, operation, lock, requestVars, since>>

\* provision of an organ member who is hired: the Akun SQ is linked first,
LinkEmployee ==
    /\ origin = "organ"
    /\ ~employee
    /\ employee' = TRUE
    /\ UNCHANGED <<origin, state, term, path, grants, operation, lock, requestVars, since>>

\* then the memberships, unless the provision stops in between.
MarkExistingStaff ==
    /\ employee
    /\ path = "organ_identity"
    /\ path' = "existing_staff"
    /\ UNCHANGED <<origin, state, employee, term, grants, operation, lock, requestVars, since>>

-----------------------------------------------------------------------------
(* The offboarding. *)

\* pg_try_advisory_lock, or LIFECYCLE_OPERATION_BUSY.
TryLock(h) ==
    /\ pc[h] = "lock"
    /\ \/ /\ lock = NoHandler
          /\ lock' = h
          /\ Goto(h, "begin")
          /\ UNCHANGED <<row, todo, failed, since>>
       \/ lock # NoHandler /\ End(h) /\ UNCHANGED lock
    /\ UNCHANGED <<personVars, operation>>

\* Mutant: the operation is written through the pool, and not by the session of the lock.
AnyConnection(h) == TRUE

\* The operation is written by the session that has the lock; once that is lost,
\* its request gets an error there and ends with Throw.
CanWrite(h) == lock = h

\* A new operation, unless the last one is not completed.
Begin(h) ==
    /\ pc[h] = "begin"
    /\ CanWrite(h)
    /\ operation' = IF operation \in {"none", "COMPLETED"} THEN "IN_PROGRESS" ELSE operation
    /\ Goto(h, "list")
    /\ UNCHANGED <<personVars, lock, row, todo, failed, since>>

\* listApplications; when it fails that is a failed step, and the rest goes on.
List(h) ==
    /\ pc[h] = "list"
    /\ \/ todo' = [todo EXCEPT ![h] = Resource] /\ UNCHANGED failed
       \/ /\ CanWrite(h)
          /\ todo' = [todo EXCEPT ![h] = Resource \ App]
          /\ failed' = [failed EXCEPT ![h] = TRUE]
    /\ Goto(h, "read")
    /\ UNCHANGED <<personVars, operation, lock, row, since>>

Turn(h, r) == r \in todo[h] /\ \A q \in todo[h] : Order[r] <= Order[q]

\* recordStep: the outcome of r, which does not keep the next from its turn.
Record(h, r, ok) ==
    /\ CanWrite(h)
    /\ todo' = [todo EXCEPT ![h] = @ \ {r}]
    /\ failed' = [failed EXCEPT ![h] = @ \/ ~ok]
    /\ Goto(h, "read")

\* What is not active is recorded as such; the membership and the Akun SQ are
\* read back even so.
ReadResource(h, r) ==
    /\ pc[h] = "read"
    /\ Turn(h, r)
    /\ \/ /\ state[r] = "active"
          /\ row' = [row EXCEPT ![h] = IF r = "organ" THEN term ELSE 0]
          /\ Goto(h, "revoke")
          /\ UNCHANGED <<todo, failed>>
       \/ /\ state[r] # "active"
          /\ IF r \in {"organ", "identity"}
               THEN Goto(h, "verify") /\ UNCHANGED <<todo, failed>>
               ELSE Record(h, r, TRUE)
          /\ UNCHANGED row
       \/ Record(h, r, FALSE) /\ UNCHANGED row
    /\ UNCHANGED <<personVars, operation, lock, since>>

\* The change may fail, and may fail after it was made.
RevokeResource(h, r) ==
    /\ pc[h] = "revoke"
    /\ Turn(h, r)
    /\ LET done == IF Ends(h, r) THEN [state EXCEPT ![r] = "revoked"] ELSE state
       IN  \/ state' = done /\ Goto(h, "verify") /\ UNCHANGED <<todo, failed>>
           \/ state' \in {state, done} /\ Record(h, r, FALSE)
    /\ row' = [row EXCEPT ![h] = 0]
    /\ UNCHANGED <<origin, employee, term, path, grants, operation, lock, since>>

\* Read back; active, or not to be read, is a failed step.
VerifyResource(h, r) ==
    /\ pc[h] = "verify"
    /\ Turn(h, r)
    /\ \E ok \in BOOLEAN : (ok => state[r] # "active") /\ Record(h, r, ok)
    /\ UNCHANGED <<personVars, operation, lock, row, since>>

\* All is read once more, in the same order.
StartCheck(h) ==
    /\ pc[h] = "read"
    /\ todo[h] = {}
    /\ todo' = [todo EXCEPT ![h] = Resource]
    /\ since' = [since EXCEPT ![h] = {}]
    /\ Goto(h, "check")
    /\ UNCHANGED <<personVars, operation, lock, row, failed>>

\* Mutant: the final verification does not look.
NeverActive(r) == FALSE

StillActive(r) == state[r] = "active"

CheckResource(h, r) ==
    /\ pc[h] = "check"
    /\ Turn(h, r)
    /\ ~StillActive(r)
    /\ todo' = [todo EXCEPT ![h] = @ \ {r}]
    /\ UNCHANGED <<personVars, operation, lock, pc, row, failed, since>>

\* Something is active, or cannot be read or recorded: the verification is a failed step.
CheckFails(h) ==
    /\ pc[h] = "check"
    /\ CanWrite(h)
    /\ failed' = [failed EXCEPT ![h] = TRUE]
    /\ Goto(h, "finish")
    /\ UNCHANGED <<personVars, operation, lock, row, todo, since>>

CheckHolds(h) ==
    /\ pc[h] = "check"
    /\ todo[h] = {}
    /\ CanWrite(h)
    /\ Goto(h, "finish")
    /\ UNCHANGED <<personVars, operation, lock, row, todo, failed, since>>

Outcome(h) == IF failed[h] THEN "PARTIAL_FAILURE" ELSE "COMPLETED"

Finish(h) ==
    /\ pc[h] = "finish"
    /\ CanWrite(h)
    /\ operation' = Outcome(h)
    /\ lock' = Unlocked(h)
    /\ End(h)
    /\ UNCHANGED personVars

\* The database session of h ends; what h does next does not use it at once.
LoseSession(h) ==
    /\ lock = h
    /\ lock' = NoHandler
    /\ UNCHANGED <<personVars, operation, requestVars, since>>

HandlerStep(h) ==
    \/ Throw(h)
    \/ InspectForEnd(h) \/ EndRow(h) \/ ReadForInvite(h) \/ GrantForInvite(h)
    \/ TryLock(h) \/ Begin(h) \/ List(h)
    \/ \E r \in Resource :
         ReadResource(h, r) \/ RevokeResource(h, r) \/ VerifyResource(h, r) \/ CheckResource(h, r)
    \/ StartCheck(h) \/ CheckFails(h) \/ CheckHolds(h) \/ Finish(h)

Next ==
    \/ \E h \in Handler : HandlerStep(h) \/ Offboard(h) \/ EndMembership(h) \/ Invite(h) \/ LoseSession(h)
    \/ \E r \in Resource : Give(r) \/ Take(r)
    \/ LinkEmployee
    \/ MarkExistingStaff

Spec == Init /\ [][Next]_vars

-----------------------------------------------------------------------------
(* Properties. *)

\* Every variable stays within its type, and the operation within the table's CHECK.
TypeOK ==
    /\ origin \in {"staff", "organ"}
    /\ state \in [Resource -> State]
    /\ employee \in BOOLEAN
    /\ term \in Nat
    /\ path \in Path
    /\ operation \in {"none", "IN_PROGRESS", "PARTIAL_FAILURE", "COMPLETED"}
    /\ lock \in Handler \cup {NoHandler}
    /\ grants \in Nat
    /\ pc \in [Handler -> Pc]
    /\ row \in [Handler -> Nat]
    /\ todo \in [Handler -> SUBSET Resource]
    /\ failed \in [Handler -> BOOLEAN]
    /\ since \in [Handler -> SUBSET Resource]

\* HUB-IMPL-013: COMPLETED requires every part verified, one operation at a time.  Whatever
\* is active when an operation is completed was given after its final verification began, no
\* matter what failed, was retried or was given meanwhile; and a completed one changes by the
\* begin of the next only, never by a request that lost its session on the way.
CompletedIsSound ==
    [][/\ operation # "COMPLETED" /\ operation' = "COMPLETED" =>
            \E h \in Handler :
               /\ pc[h] = "finish"
               /\ \A r \in Resource : state[r] = "active" => r \in since[h]
       /\ operation = "COMPLETED" /\ operation' # operation =>
            /\ operation' = "IN_PROGRESS"
            /\ \E h \in Handler : lock = h /\ pc[h] = "begin"]_vars

\* Whatever fails or stops, no request leaves the lock behind: an offboarding can
\* always be retried.
NoLockLeft ==
    \A h \in Handler : lock = h => pc[h] \in Running

=============================================================================
