--------------------------- MODULE PlatformAdmin ---------------------------
(***************************************************************************)
(* Platform Administrators (HUB-IMPL-023 H-9): through the Hub a person    *)
(* becomes one only when a second administrator confirms a proposal of a   *)
(* first; one administrator is enough to revoke.  service.ts authorizes    *)
(* the session by a read of its own; proposals.ts and repository.ts then   *)
(* run one transaction, whose row locks are modelled: a step that needs a  *)
(* row waits while another request holds it.  A transaction that has       *)
(* nothing to wait for between its first write and its commit is a step.   *)
(*                                                                         *)
(* The command line (cli/platform-admin.ts) grants and revokes without     *)
(* authorization, and offboarding revokes.  MaxGrants bounds its grants.   *)
(***************************************************************************)
EXTENDS Integers

CONSTANTS
    Person,
    Rank,        \* [Person -> Nat], the order of (issuer, subject)
    Proposal,    \* ids of proposals
    Handler,     \* requests under way at a time
    First,       \* the administrators the command line has made already
    MaxGrants,
    NoProposal, NoRequest

ASSUME AdminAssumption ==
    /\ Rank \in [Person -> Nat]
    /\ \A p, q \in Person : Rank[p] = Rank[q] => p = q
    /\ First \subseteq Person
    /\ MaxGrants \in Nat

VARIABLES
    member,      \* platform_administrators: the status, "none" without a row
    proposal,    \* platform_admin_proposals
    grants,      \* grants by the command line so far
    (* one request: its step, what it asks, the rows it has yet to lock, and
       the status it has read from each row it has locked *)
    pc, req, todo, seen,
    revokedSince \* history: proposals whose person was revoked after they were made

requestVars == <<pc, req, todo, seen>>
vars == <<member, proposal, grants, requestVars, revokedSince>>

Status == {"none", "active", "revoked"}
\* "lapsed" is a row still pending whose expires_at is past.
Undecided == {"pending", "lapsed"}
Row == {r \in [identity : Person, proposer : Person,
               status : Undecided \cup {"confirmed", "cancelled", "expired"}] :
          r.identity # r.proposer}
\* Who cancels or revokes is recorded, and decides nothing once authorized.
Request == [op : {"propose"}, actor : Person, identity : Person]
             \cup [op : {"confirm"}, actor : Person, id : Proposal]
             \cup [op : {"cancel"}, id : Proposal]
             \cup [op : {"revoke"}, identity : Person]
Pc == {"idle", "propose", "insert", "confirm", "locking", "cancel", "revoke"}

ASSUME NullAssumption == NoProposal \notin Row /\ NoRequest \notin Request

Unseen == [p \in Person |-> "none"]

Init ==
    /\ member = [p \in Person |-> IF p \in First THEN "active" ELSE "none"]
    /\ proposal = [x \in Proposal |-> NoProposal]
    /\ grants = 0
    /\ pc = [h \in Handler |-> "idle"]
    /\ req = [h \in Handler |-> NoRequest]
    /\ todo = [h \in Handler |-> {}]
    /\ seen = [h \in Handler |-> Unseen]
    /\ revokedSince = {}

-----------------------------------------------------------------------------
(* Rows and their locks. *)

Made == {x \in Proposal : proposal[x] # NoProposal}
Pending(x) == x \in Made /\ proposal[x].status \in Undecided
PendingFor(p) == {x \in Proposal : Pending(x) /\ proposal[x].identity = p}

\* Mutant: the proposal is read without FOR UPDATE.
NoProposalHeld(h) == {}

\* lockProposal, held until confirm ends; only cancel locks one besides, in a single step.
ProposalHeld(h) == IF pc[h] = "locking" THEN {req[h].id} ELSE {}

\* Mutant: the memberships are read without FOR UPDATE.
NoRowHeld(h) == {}

\* lockMemberships: the rows whose status h has read are locked until it ends.
RowsHeld(h) == {p \in Person : seen[h][p] # "none"}

ProposalFree(h, x) == \A g \in Handler \ {h} : x \notin ProposalHeld(g)
RowFree(h, p) == \A g \in Handler \ {h} : p \notin RowsHeld(g)
RowFreeOfAll(p) == \A g \in Handler : p \notin RowsHeld(g)

\* The three people of a confirmation.
Confirmer(h) == req[h].actor
Proposer(h) == proposal[req[h].id].proposer
Identity(h) == proposal[req[h].id].identity

\* Mutant: the rows are locked in the order the code names them.
AsNamed(h, p) ==
    \/ p = Confirmer(h)
    \/ p = Proposer(h) /\ Confirmer(h) \notin todo[h]
    \/ todo[h] = {p}

\* ORDER BY identity_issuer, identity_subject FOR UPDATE.
NextToLock(h, p) == \A q \in todo[h] : Rank[p] <= Rank[q]

-----------------------------------------------------------------------------
(* A request. *)

\* The requests an administrator can make; screens name proposals that exist.
Askable(a) ==
    {[op |-> "propose", actor |-> a, identity |-> p] : p \in Person}
    \cup {[op |-> "confirm", actor |-> a, id |-> x] : x \in Made}
    \cup {[op |-> "cancel", id |-> x] : x \in Made}
    \cup {[op |-> "revoke", identity |-> p] : p \in Person}

End(h) ==
    /\ pc' = [pc EXCEPT ![h] = "idle"]
    /\ req' = [req EXCEPT ![h] = NoRequest]
    /\ todo' = [todo EXCEPT ![h] = {}]
    /\ seen' = [seen EXCEPT ![h] = Unseen]

\* Refused, or stopped: a transaction under way is rolled back.
EndWithoutEffect(h) ==
    /\ End(h)
    /\ UNCHANGED <<member, proposal, grants, revokedSince>>

\* A request of an active administrator.  Any other is refused here and changes
\* nothing, and so is one of a session older than the grant: a login, at any time
\* and with no other effect, gives the administrator one that is not.
Authorize(h, a, r) ==
    /\ pc[h] = "idle"
    /\ member[a] = "active"
    /\ pc' = [pc EXCEPT ![h] = r.op]
    /\ req' = [req EXCEPT ![h] = r]
    /\ UNCHANGED <<member, proposal, grants, todo, seen, revokedSince>>

NotSelf(h) == req[h].identity # req[h].actor

\* SELF_PROPOSAL_FORBIDDEN; then ALREADY_ACTIVE, read without a lock.
ReadIdentity(h) ==
    /\ pc[h] = "propose"
    /\ LET p == req[h].identity
           possible == NotSelf(h) /\ member[p] # "active"
       IN  \/ /\ possible
              /\ pc' = [pc EXCEPT ![h] = "insert"]
              /\ UNCHANGED <<member, proposal, grants, req, todo, seen, revokedSince>>
           \/ ~possible /\ EndWithoutEffect(h)

\* What has lapsed makes room; one proposal may be pending for a person.
InsertProposal(h) ==
    /\ pc[h] = "insert"
    /\ LET p == req[h].identity
           lapsed == {x \in PendingFor(p) : proposal[x].status = "lapsed"}
       IN  /\ \A x \in lapsed : ProposalFree(h, x)
           /\ \/ /\ PendingFor(p) = lapsed
                 /\ \E n \in Proposal \ Made :
                      proposal' = [x \in Proposal |->
                        IF x = n
                          THEN [identity |-> p, proposer |-> req[h].actor, status |-> "pending"]
                          ELSE IF x \in lapsed THEN [proposal[x] EXCEPT !.status = "expired"]
                          ELSE proposal[x]]
                 /\ End(h)
                 /\ UNCHANGED <<member, grants, revokedSince>>
              \/ PendingFor(p) # lapsed /\ EndWithoutEffect(h)

\* lockProposal and the checks on it; the membership rows there are then to be locked.
LockProposal(h) ==
    /\ pc[h] = "confirm"
    /\ ProposalFree(h, req[h].id)
    /\ LET x == req[h].id
           possible == /\ Pending(x)
                       /\ proposal[x].status # "lapsed"
                       /\ req[h].actor \notin {proposal[x].proposer, proposal[x].identity}
       IN  \/ /\ possible
              /\ pc' = [pc EXCEPT ![h] = "locking"]
              /\ todo' = [todo EXCEPT ![h] =
                   {p \in {req[h].actor, proposal[x].proposer, proposal[x].identity} :
                      member[p] # "none"}]
              /\ UNCHANGED <<member, proposal, grants, req, seen, revokedSince>>
           \/ ~possible /\ EndWithoutEffect(h)

LockRow(h, p) ==
    /\ pc[h] = "locking"
    /\ p \in todo[h]
    /\ NextToLock(h, p)
    /\ RowFree(h, p)
    /\ todo' = [todo EXCEPT ![h] = @ \ {p}]
    /\ seen' = [seen EXCEPT ![h][p] = member[p]]
    /\ UNCHANGED <<member, proposal, grants, pc, req, revokedSince>>

\* CONFIRMER_NOT_ACTIVE, PROPOSER_NOT_ACTIVE, ALREADY_ACTIVE, on the rows as locked.
MayActivate(h) ==
    /\ seen[h][Confirmer(h)] = "active"
    /\ seen[h][Proposer(h)] = "active"
    /\ seen[h][Identity(h)] # "active"

\* activate (granted_at is now), the decision, and the commit.
Activate(h) ==
    /\ pc[h] = "locking"
    /\ todo[h] = {}
    /\ \/ /\ MayActivate(h)
          /\ RowFree(h, Identity(h))
          /\ member' = [member EXCEPT ![Identity(h)] = "active"]
          /\ proposal' = [proposal EXCEPT ![req[h].id].status = "confirmed"]
          /\ End(h)
          /\ UNCHANGED <<grants, revokedSince>>
       \/ ~MayActivate(h) /\ EndWithoutEffect(h)

Cancel(h) ==
    /\ pc[h] = "cancel"
    /\ ProposalFree(h, req[h].id)
    /\ \/ /\ Pending(req[h].id)
          /\ proposal' = [proposal EXCEPT ![req[h].id].status = "cancelled"]
          /\ End(h)
          /\ UNCHANGED <<member, grants, revokedSince>>
       \/ ~Pending(req[h].id) /\ EndWithoutEffect(h)

\* The UPDATE of revoke, of one who is active; of another it changes nothing.
RevokeRow(p) ==
    /\ member[p] = "active"
    /\ member' = [member EXCEPT ![p] = "revoked"]
    /\ revokedSince' = revokedSince \cup PendingFor(p)
    /\ UNCHANGED <<proposal, grants>>

Revoke(h) ==
    /\ pc[h] = "revoke"
    /\ RowFree(h, req[h].identity)
    /\ \/ RevokeRow(req[h].identity) /\ End(h)
       \/ member[req[h].identity] # "active" /\ EndWithoutEffect(h)

\* The process stops, a query fails, or the database breaks a deadlock.
Stop(h) == pc[h] # "idle" /\ EndWithoutEffect(h)

-----------------------------------------------------------------------------
(* What goes on beside the requests. *)

CliGrant(p) ==
    /\ grants < MaxGrants
    /\ RowFreeOfAll(p)
    /\ grants' = grants + 1
    /\ member' = [member EXCEPT ![p] = "active"]
    /\ UNCHANGED <<proposal, requestVars, revokedSince>>

\* The command line, or the offboarding of the person.
RevokeOutside(p) ==
    /\ RowFreeOfAll(p)
    /\ RevokeRow(p)
    /\ UNCHANGED requestVars

\* expires_at passes.
Lapse(x) ==
    /\ x \in Made
    /\ proposal[x].status = "pending"
    /\ proposal' = [proposal EXCEPT ![x].status = "lapsed"]
    /\ UNCHANGED <<member, grants, requestVars, revokedSince>>

RequestStep(h) ==
    \/ \E a \in Person : \E r \in Askable(a) : Authorize(h, a, r)
    \/ ReadIdentity(h)
    \/ InsertProposal(h)
    \/ LockProposal(h)
    \/ \E p \in Person : LockRow(h, p)
    \/ Activate(h)
    \/ Cancel(h)
    \/ Revoke(h)
    \/ Stop(h)

Next ==
    \/ \E h \in Handler : RequestStep(h)
    \/ \E p \in Person : CliGrant(p) \/ RevokeOutside(p)
    \/ \E x \in Proposal : Lapse(x)

Spec == Init /\ [][Next]_vars

-----------------------------------------------------------------------------
(* Properties. *)

\* Every variable stays within its type, and the proposals within the table's CHECK.
TypeOK ==
    /\ member \in [Person -> Status]
    /\ proposal \in [Proposal -> Row \cup {NoProposal}]
    /\ grants \in Nat
    /\ pc \in [Handler -> Pc]
    /\ req \in [Handler -> Request \cup {NoRequest}]
    /\ todo \in [Handler -> SUBSET Person]
    /\ seen \in [Handler -> [Person -> Status]]
    /\ revokedSince \subseteq Proposal

\* H-9: beside the command line, who becomes an administrator does so by a
\* proposal confirmed in that step, which two others agreed to who both are
\* administrators at that moment, whatever was revoked while it waited.
FourEyes ==
    [][\A p \in Person :
         member[p] # "active" /\ member'[p] = "active" /\ grants' = grants =>
           \E x \in Proposal, h \in Handler :
              /\ pc[h] = "locking" /\ req[h].id = x
              /\ Pending(x)
              /\ proposal'[x].status = "confirmed"
              /\ proposal[x].identity = p
              /\ req[h].actor \notin {proposal[x].proposer, p}
              /\ proposal[x].proposer # p
              /\ member[req[h].actor] = "active"
              /\ member[proposal[x].proposer] = "active"]_vars

\* A decision stands: no confirmation, cancellation or expiry that was under way
\* changes a proposal that another has decided meanwhile.
DecidedForGood ==
    [][\A x \in Made : ~Pending(x) => proposal'[x] = proposal[x]]_vars

\* h waits in lockMemberships for a row that g holds.
WaitsFor(h, g) ==
    /\ pc[h] = "locking"
    /\ \E p \in todo[h] : NextToLock(h, p) /\ p \in RowsHeld(g)

\* The comment in confirm: crossing confirmations wait for each other instead of
\* deadlocking.
NoDeadlock ==
    \A h, g \in Handler : h # g => ~(WaitsFor(h, g) /\ WaitsFor(g, h))

\* H-9: activating someone again who has been revoked takes a new proposal, one
\* made after the revocation.  The code does not keep this: a proposal still pending
\* from before a grant by the command line and its revocation can be confirmed.
ReactivationNeedsNewProposal ==
    [][\A x \in Made :
         proposal[x].status # "confirmed" /\ proposal'[x].status = "confirmed"
         => x \notin revokedSince]_vars

=============================================================================
