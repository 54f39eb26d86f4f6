------------------------ MODULE PlatformAdminProofs ------------------------
(***************************************************************************)
(* Proofs about PlatformAdmin, for any people, proposals and requests      *)
(* under way.  The inductive invariant says what the locks are for: what a *)
(* confirmation has read of a row is still so (SeenTrue), because no other *)
(* request holds the row (RowsExclusive); the proposal it has locked stays *)
(* undecided (Locking) because no other confirmation has it                *)
(* (ProposalsExclusive); and the rows it holds come before those it has    *)
(* yet to lock (InOrder).                                                  *)
(***************************************************************************)
EXTENDS PlatformAdmin, TLAPS

ProposeRequest == [op : {"propose"}, actor : Person, identity : Person]
ConfirmRequest == [op : {"confirm"}, actor : Person, id : Proposal]
CancelRequest == [op : {"cancel"}, id : Proposal]
RevokeRequest == [op : {"revoke"}, identity : Person]

\* What a request asks fits the step it is at.
Asked(h) ==
    /\ pc[h] \in {"propose", "insert"} => req[h] \in ProposeRequest
    /\ pc[h] = "insert" => req[h].identity # req[h].actor
    /\ pc[h] \in {"confirm", "locking"} => req[h] \in ConfirmRequest
    /\ pc[h] = "cancel" => req[h] \in CancelRequest
    /\ pc[h] = "revoke" => req[h] \in RevokeRequest

Locking(h) ==
    pc[h] = "locking" =>
      /\ Pending(req[h].id)
      /\ req[h].actor # proposal[req[h].id].proposer
      /\ req[h].actor # proposal[req[h].id].identity

InOrder(h) == \A p \in todo[h], q \in Person : seen[h][q] # "none" => Rank[q] < Rank[p]

SeenTrue == \A h \in Handler, p \in Person :
    seen[h][p] # "none" => pc[h] = "locking" /\ seen[h][p] = member[p]

RowsExclusive == \A h, g \in Handler, p \in Person :
    seen[h][p] # "none" /\ seen[g][p] # "none" => h = g

ProposalsExclusive == \A h, g \in Handler :
    pc[h] = "locking" /\ pc[g] = "locking" /\ req[h].id = req[g].id => h = g

Inv ==
    /\ TypeOK
    /\ \A h \in Handler : Asked(h)
    /\ \A h \in Handler : Locking(h)
    /\ \A h \in Handler : InOrder(h)
    /\ SeenTrue
    /\ RowsExclusive
    /\ ProposalsExclusive

USE DEF vars, requestVars, NotSelf

-----------------------------------------------------------------------------
(* What the steps do to a request. *)

\* What may be asked has the fields of its kind.
LEMMA AskableTypes ==
  ASSUME NEW a \in Person, NEW r \in Askable(a)
  PROVE  \/ r \in ProposeRequest /\ r.op = "propose"
         \/ r \in ConfirmRequest /\ r.op = "confirm"
         \/ r \in CancelRequest /\ r.op = "cancel"
         \/ r \in RevokeRequest /\ r.op = "revoke"
  BY DEF Askable, Made, ProposeRequest, ConfirmRequest, CancelRequest, RevokeRequest

\* The end of a request leaves the others as they are, and holds nothing.
LEMMA EndOfRequest ==
  ASSUME TypeOK, NEW h \in Handler, End(h)
  PROVE  /\ pc' \in [Handler -> Pc]
         /\ req' \in [Handler -> Request \cup {NoRequest}]
         /\ todo' \in [Handler -> SUBSET Person]
         /\ seen' \in [Handler -> [Person -> Status]]
         /\ pc'[h] = "idle" /\ todo'[h] = {}
         /\ \A p \in Person : seen'[h][p] = "none"
         /\ \A g \in Handler \ {h} :
              pc'[g] = pc[g] /\ req'[g] = req[g] /\ todo'[g] = todo[g] /\ seen'[g] = seen[g]
<1>1. Unseen \in [Person -> Status] /\ \A p \in Person : Unseen[p] = "none"
  BY DEF Unseen, Status
<1>2. pc' \in [Handler -> Pc] /\ pc'[h] = "idle" /\ \A g \in Handler \ {h} : pc'[g] = pc[g]
  BY DEF End, TypeOK, Pc
<1>3. /\ req' \in [Handler -> Request \cup {NoRequest}]
      /\ \A g \in Handler \ {h} : req'[g] = req[g]
  BY DEF End, TypeOK
<1>4. /\ todo' \in [Handler -> SUBSET Person] /\ todo'[h] = {}
      /\ \A g \in Handler \ {h} : todo'[g] = todo[g]
  BY DEF End, TypeOK
<1>5. /\ seen' \in [Handler -> [Person -> Status]] /\ seen'[h] = Unseen
      /\ \A g \in Handler \ {h} : seen'[g] = seen[g]
  BY <1>1 DEF End, TypeOK
<1> QED BY <1>1, <1>2, <1>3, <1>4, <1>5

\* A step leaves alone the proposals and the rows that others than h have locked.
LeavesLocked(h) ==
    /\ \A g \in Handler \ {h} :
         pc[g] = "locking" => proposal'[req[g].id] = proposal[req[g].id]
    /\ \A g \in Handler \ {h}, p \in Person :
         seen[g][p] # "none" => member'[p] = member[p]

\* Whatever ends a request and leaves alone what others have locked keeps what
\* is said of requests.
LEMMA EndKeeps ==
  ASSUME Inv, NEW h \in Handler, End(h), LeavesLocked(h)
  PROVE  /\ \A g \in Handler : Asked(g)'
         /\ \A g \in Handler : Locking(g)'
         /\ \A g \in Handler : InOrder(g)'
         /\ SeenTrue' /\ RowsExclusive' /\ ProposalsExclusive'
<1>1. /\ pc'[h] = "idle" /\ todo'[h] = {}
      /\ \A p \in Person : seen'[h][p] = "none"
      /\ \A g \in Handler \ {h} :
            pc'[g] = pc[g] /\ req'[g] = req[g] /\ todo'[g] = todo[g] /\ seen'[g] = seen[g]
  BY EndOfRequest DEF Inv
<1>2. \A g \in Handler : Asked(g)'
  BY <1>1 DEF Inv, Asked
<1>3. ASSUME NEW g \in Handler PROVE Locking(g)'
  <2>1. CASE g = h
    BY <2>1, <1>1 DEF Locking
  <2>2. CASE g # h
    <3>1. pc'[g] = pc[g] /\ req'[g] = req[g]
      BY <1>1, <2>2
    <3>2. Locking(g)
      BY DEF Inv
    <3>3. pc[g] = "locking" => proposal'[req[g].id] = proposal[req[g].id]
      BY <2>2 DEF LeavesLocked
    <3> QED BY <3>1, <3>2, <3>3 DEF Locking, Pending, Made
  <2> QED BY <2>1, <2>2
<1>4. \A g \in Handler : InOrder(g)'
  BY <1>1 DEF Inv, InOrder
<1>5. SeenTrue'
  BY <1>1 DEF Inv, SeenTrue, LeavesLocked
<1>6. RowsExclusive'
  BY <1>1 DEF Inv, RowsExclusive
<1>7. ProposalsExclusive'
  BY <1>1 DEF Inv, ProposalsExclusive
<1> QED BY <1>2, <1>3, <1>4, <1>5, <1>6, <1>7

-----------------------------------------------------------------------------
(* Types. *)

\* The initial states have the right types.
LEMMA TypeInit == Init => TypeOK
<1> SUFFICES ASSUME Init PROVE TypeOK
  OBVIOUS
<1>1. Unseen \in [Person -> Status]
  BY DEF Unseen, Status
<1>2. member \in [Person -> Status]
  BY DEF Init, Status
<1> QED BY <1>1, <1>2 DEF Init, TypeOK, Pc

\* A decision on a proposal, or its lapse, is another status of its row.
LEMMA RowStatus ==
  ASSUME TypeOK, NEW x \in Made, NEW s \in {"pending", "lapsed", "confirmed", "cancelled", "expired"}
  PROVE  /\ [proposal[x] EXCEPT !.status = s] \in Row
         /\ proposal[x] \in Row
<1>1. proposal[x] \in Row
  BY DEF TypeOK, Made
<1> QED BY <1>1 DEF Row, Undecided

\* The end of a request keeps its type.
LEMMA TypeEnd ==
  ASSUME TypeOK, NEW h \in Handler, EndWithoutEffect(h)
  PROVE  TypeOK'
  BY EndOfRequest DEF EndWithoutEffect, TypeOK

\* The insertion of a proposal keeps the types.
LEMMA TypeInsert ==
  ASSUME TypeOK, NEW h \in Handler, Asked(h), InsertProposal(h)
  PROVE  TypeOK'
<1> DEFINE p == req[h].identity
           lapsed == {x \in PendingFor(p) : proposal[x].status = "lapsed"}
<1>1. CASE EndWithoutEffect(h)
  BY <1>1, TypeEnd
<1>2. ASSUME NEW n \in Proposal \ Made,
             proposal' = [x \in Proposal |->
               IF x = n
                 THEN [identity |-> p, proposer |-> req[h].actor, status |-> "pending"]
                 ELSE IF x \in lapsed THEN [proposal[x] EXCEPT !.status = "expired"]
                 ELSE proposal[x]],
             End(h), UNCHANGED <<member, grants, revokedSince>>
      PROVE  TypeOK'
  <2>1. [identity |-> p, proposer |-> req[h].actor, status |-> "pending"] \in Row
    <3>1. req[h] \in ProposeRequest /\ req[h].identity # req[h].actor
      BY DEF InsertProposal, Asked
    <3> QED BY <3>1 DEF Row, Undecided, ProposeRequest
  <2>2. \A x \in lapsed : [proposal[x] EXCEPT !.status = "expired"] \in Row
    BY RowStatus DEF PendingFor, Pending
  <2>3. \A x \in Proposal : proposal[x] \in Row \cup {NoProposal}
    BY DEF TypeOK
  <2>4. proposal' \in [Proposal -> Row \cup {NoProposal}]
    BY <1>2, <2>1, <2>2, <2>3
  <2> QED BY <1>2, <2>4, EndOfRequest DEF TypeOK
<1> QED BY <1>1, <1>2 DEF InsertProposal

\* A confirmation keeps the types.
LEMMA TypeActivate ==
  ASSUME TypeOK, NEW h \in Handler, Asked(h), Locking(h), Activate(h)
  PROVE  TypeOK'
<1>1. CASE EndWithoutEffect(h)
  BY <1>1, TypeEnd
<1>2. CASE ~EndWithoutEffect(h)
  <2>1. req[h].id \in Made
    BY DEF Activate, Locking, Pending
  <2>2. [proposal[req[h].id] EXCEPT !.status = "confirmed"] \in Row
    BY <2>1, RowStatus
  <2>3. proposal' \in [Proposal -> Row \cup {NoProposal}]
    BY <1>2, <2>2 DEF Activate, TypeOK
  <2>4. member' \in [Person -> Status]
    BY <1>2 DEF Activate, TypeOK, Status
  <2>5. End(h) /\ UNCHANGED <<grants, revokedSince>>
    BY <1>2 DEF Activate
  <2> QED BY <2>3, <2>4, <2>5, EndOfRequest DEF TypeOK
<1> QED BY <1>1, <1>2

\* A cancellation keeps the types.
LEMMA TypeCancel ==
  ASSUME TypeOK, NEW h \in Handler, Cancel(h)
  PROVE  TypeOK'
<1>1. CASE EndWithoutEffect(h)
  BY <1>1, TypeEnd
<1>2. CASE ~EndWithoutEffect(h)
  <2>1. req[h].id \in Made
    BY <1>2 DEF Cancel, Pending
  <2>2. [proposal[req[h].id] EXCEPT !.status = "cancelled"] \in Row
    BY <2>1, RowStatus
  <2>3. proposal' \in [Proposal -> Row \cup {NoProposal}]
    BY <1>2, <2>2 DEF Cancel, TypeOK
  <2>4. End(h) /\ UNCHANGED <<member, grants, revokedSince>>
    BY <1>2 DEF Cancel
  <2> QED BY <2>3, <2>4, EndOfRequest DEF TypeOK
<1> QED BY <1>1, <1>2

\* A revocation keeps the types.
LEMMA TypeRevokeRow ==
  ASSUME TypeOK, NEW p, RevokeRow(p)
  PROVE  /\ member' \in [Person -> Status]
         /\ proposal' \in [Proposal -> Row \cup {NoProposal}]
         /\ grants' \in Nat /\ revokedSince' \subseteq Proposal
<1>1. PendingFor(p) \subseteq Proposal
  BY DEF PendingFor
<1> QED BY <1>1 DEF RevokeRow, TypeOK, Status

\* Every step keeps the types.
LEMMA TypeStep ==
  ASSUME TypeOK, \A h \in Handler : Asked(h), \A h \in Handler : Locking(h), [Next]_vars
  PROVE  TypeOK'
<1>1. CASE UNCHANGED vars
  BY <1>1 DEF TypeOK
<1>2. ASSUME NEW h \in Handler, RequestStep(h) PROVE TypeOK'
  <2>1. ASSUME NEW a \in Person, NEW r \in Askable(a), Authorize(h, a, r) PROVE TypeOK'
    <3>1. r \in Request
      BY AskableTypes DEF Request, ProposeRequest, ConfirmRequest, CancelRequest, RevokeRequest
    <3>2. r.op \in Pc
      BY AskableTypes DEF Pc
    <3> QED BY <2>1, <3>1, <3>2 DEF Authorize, TypeOK
  <2>2. CASE ReadIdentity(h)
    BY <2>2, TypeEnd DEF ReadIdentity, TypeOK, Pc
  <2>3. CASE InsertProposal(h)
    BY <2>3, TypeInsert
  <2>4. CASE LockProposal(h)
    <3>1. CASE EndWithoutEffect(h)
      BY <3>1, TypeEnd
    <3>2. CASE ~EndWithoutEffect(h)
      <4> DEFINE x == req[h].id
      <4>1. x \in Proposal /\ req[h].actor \in Person
        BY <2>4 DEF LockProposal, Asked, ConfirmRequest
      <4>2. x \in Made
        BY <2>4, <3>2 DEF LockProposal, Pending
      <4>3. proposal[x] \in Row
        BY <4>2 DEF TypeOK, Made
      <4>4. proposal[x].proposer \in Person /\ proposal[x].identity \in Person
        BY <4>3 DEF Row
      <4>5. todo' \in [Handler -> SUBSET Person]
        BY <2>4, <3>2, <4>1, <4>4 DEF LockProposal, TypeOK
      <4> QED BY <2>4, <3>2, <4>5 DEF LockProposal, TypeOK, Pc
    <3> QED BY <3>1, <3>2
  <2>5. ASSUME NEW p \in Person, LockRow(h, p) PROVE TypeOK'
    <3>1. todo' \in [Handler -> SUBSET Person]
      BY <2>5 DEF LockRow, TypeOK
    <3>2. seen' \in [Handler -> [Person -> Status]]
      BY <2>5 DEF LockRow, TypeOK
    <3> QED BY <2>5, <3>1, <3>2 DEF LockRow, TypeOK
  <2>6. CASE Activate(h)
    BY <2>6, TypeActivate
  <2>7. CASE Cancel(h)
    BY <2>7, TypeCancel
  <2>8. CASE Revoke(h)
    <3>1. CASE EndWithoutEffect(h)
      BY <3>1, TypeEnd
    <3>2. CASE RevokeRow(req[h].identity) /\ End(h)
      BY <3>2, TypeRevokeRow, EndOfRequest DEF TypeOK
    <3> QED BY <2>8, <3>1, <3>2 DEF Revoke
  <2>9. CASE Stop(h)
    BY <2>9, TypeEnd DEF Stop
  <2> QED BY <1>2, <2>1, <2>2, <2>3, <2>4, <2>5, <2>6, <2>7, <2>8, <2>9 DEF RequestStep
<1>3. ASSUME NEW p \in Person, CliGrant(p) PROVE TypeOK'
  BY <1>3 DEF CliGrant, TypeOK, Status
<1>4. ASSUME NEW p \in Person, RevokeOutside(p) PROVE TypeOK'
  BY <1>4, TypeRevokeRow DEF RevokeOutside, TypeOK
<1>5. ASSUME NEW x \in Proposal, Lapse(x) PROVE TypeOK'
  <2>1. x \in Made
    BY <1>5 DEF Lapse
  <2>2. [proposal[x] EXCEPT !.status = "lapsed"] \in Row
    BY <2>1, RowStatus
  <2> QED BY <1>5, <2>2 DEF Lapse, TypeOK
<1> QED BY <1>1, <1>2, <1>3, <1>4, <1>5 DEF Next

-----------------------------------------------------------------------------
(* The invariant. *)

\* The invariant holds at first.
LEMMA InvInit == Init => Inv
<1> SUFFICES ASSUME Init PROVE Inv
  OBVIOUS
<1>1. TypeOK
  BY TypeInit
<1>2. \A h \in Handler : pc[h] = "idle" /\ todo[h] = {}
  BY DEF Init
<1>3. \A h \in Handler, p \in Person : seen[h][p] = "none"
  BY DEF Init, Unseen
<1> QED BY <1>1, <1>2, <1>3
        DEF Inv, Asked, Locking, InOrder, SeenTrue, RowsExclusive, ProposalsExclusive

\* The part of the invariant that is not about types.
Requests ==
    /\ \A h \in Handler : Asked(h)
    /\ \A h \in Handler : Locking(h)
    /\ \A h \in Handler : InOrder(h)
    /\ SeenTrue /\ RowsExclusive /\ ProposalsExclusive

\* The end of a request keeps what holds of the requests.
LEMMA RequestsEnd ==
  ASSUME Inv, NEW h \in Handler, EndWithoutEffect(h)
  PROVE  Requests'
<1>1. End(h) /\ member' = member /\ proposal' = proposal
  BY DEF EndWithoutEffect
<1>2. LeavesLocked(h)
  BY <1>1 DEF LeavesLocked
<1> QED BY <1>1, <1>2, EndKeeps DEF Requests

\* An authorization keeps what holds of the requests.
LEMMA RequestsAuthorize ==
  ASSUME Inv, NEW h \in Handler, NEW a \in Person, NEW r \in Askable(a), Authorize(h, a, r)
  PROVE  Requests'
<1>1. /\ pc'[h] = r.op /\ req'[h] = r /\ pc[h] = "idle"
      /\ \A g \in Handler \ {h} : pc'[g] = pc[g] /\ req'[g] = req[g]
      /\ UNCHANGED <<member, proposal, todo, seen>>
  BY DEF Authorize, Inv, TypeOK
<1>2. r.op \notin {"insert", "locking", "idle"}
  BY AskableTypes
<1>3. ASSUME NEW g \in Handler PROVE Asked(g)'
  <2>1. CASE g = h
    BY <1>1, <2>1, AskableTypes DEF Asked
  <2>2. CASE g # h
    BY <1>1, <2>2 DEF Inv, Asked
  <2> QED BY <2>1, <2>2
<1>4. ASSUME NEW g \in Handler PROVE Locking(g)'
  BY <1>1, <1>2 DEF Inv, Locking, Pending, Made
<1>5. \A g \in Handler : InOrder(g)'
  BY <1>1 DEF Inv, InOrder
<1>6. SeenTrue' /\ RowsExclusive'
  BY <1>1 DEF Inv, SeenTrue, RowsExclusive
<1>7. ProposalsExclusive'
  BY <1>1, <1>2 DEF Inv, ProposalsExclusive
<1> QED BY <1>3, <1>4, <1>5, <1>6, <1>7 DEF Requests

\* The read of the proposed identity keeps what holds of the requests.
LEMMA RequestsReadIdentity ==
  ASSUME Inv, NEW h \in Handler, ReadIdentity(h)
  PROVE  Requests'
<1>1. CASE EndWithoutEffect(h)
  BY <1>1, RequestsEnd
<1>2. CASE ~EndWithoutEffect(h)
  <2>1. /\ pc'[h] = "insert" /\ pc[h] = "propose" /\ req[h].identity # req[h].actor
        /\ \A g \in Handler \ {h} : pc'[g] = pc[g]
        /\ UNCHANGED <<member, proposal, req, todo, seen>>
    BY <1>2 DEF ReadIdentity, Inv, TypeOK
  <2>2. ASSUME NEW g \in Handler PROVE Asked(g)'
    BY <2>1 DEF Inv, Asked
  <2>3. ASSUME NEW g \in Handler PROVE Locking(g)'
    BY <2>1 DEF Inv, Locking, Pending, Made
  <2>4. \A g \in Handler : InOrder(g)'
    BY <2>1 DEF Inv, InOrder
  <2>5. SeenTrue' /\ RowsExclusive'
    BY <2>1 DEF Inv, SeenTrue, RowsExclusive
  <2>6. ProposalsExclusive'
    BY <2>1 DEF Inv, ProposalsExclusive
  <2> QED BY <2>2, <2>3, <2>4, <2>5, <2>6 DEF Requests
<1> QED BY <1>1, <1>2

\* The insertion of a proposal keeps what holds of the requests.
LEMMA RequestsInsert ==
  ASSUME Inv, NEW h \in Handler, InsertProposal(h)
  PROVE  Requests'
<1>1. CASE EndWithoutEffect(h)
  BY <1>1, RequestsEnd
<1>2. CASE ~EndWithoutEffect(h)
  <2> DEFINE lapsed == {x \in PendingFor(req[h].identity) : proposal[x].status = "lapsed"}
  <2>1. End(h) /\ member' = member
    BY <1>2 DEF InsertProposal
  <2>2. \A x \in Made \ lapsed : proposal'[x] = proposal[x]
    BY <1>2 DEF InsertProposal, Made
  <2>3. \A x \in lapsed : ProposalFree(h, x)
    BY DEF InsertProposal
  <2>4. ASSUME NEW g \in Handler \ {h}, pc[g] = "locking"
        PROVE  proposal'[req[g].id] = proposal[req[g].id]
    <3>1. req[g].id \in Made
      BY <2>4 DEF Inv, Locking, Pending
    <3>2. req[g].id \notin lapsed
      BY <2>3, <2>4 DEF ProposalFree, ProposalHeld
    <3> QED BY <2>2, <3>1, <3>2
  <2>5. LeavesLocked(h)
    BY <2>1, <2>4 DEF LeavesLocked
  <2> QED BY <2>1, <2>5, EndKeeps DEF Requests
<1> QED BY <1>1, <1>2

\* The lock of a proposal keeps what holds of the requests.
LEMMA RequestsLockProposal ==
  ASSUME Inv, NEW h \in Handler, LockProposal(h)
  PROVE  Requests'
<1>1. CASE EndWithoutEffect(h)
  BY <1>1, RequestsEnd
<1>2. CASE ~EndWithoutEffect(h)
  <2>1. /\ pc'[h] = "locking" /\ pc[h] = "confirm"
        /\ Pending(req[h].id)
        /\ req[h].actor # proposal[req[h].id].proposer
        /\ req[h].actor # proposal[req[h].id].identity
        /\ ProposalFree(h, req[h].id)
        /\ UNCHANGED <<member, proposal, req, seen>>
    BY <1>2 DEF LockProposal, Inv, TypeOK
  <2>2. \A g \in Handler \ {h} : pc'[g] = pc[g] /\ todo'[g] = todo[g]
    BY <1>2 DEF LockProposal, Inv, TypeOK
  <2>3. \A p \in Person : seen[h][p] = "none"
    BY <2>1 DEF Inv, SeenTrue
  <2>4. ASSUME NEW g \in Handler PROVE Asked(g)'
    BY <2>1, <2>2 DEF Inv, Asked
  <2>5. ASSUME NEW g \in Handler PROVE Locking(g)'
    <3>1. CASE g = h
      BY <2>1, <3>1 DEF Locking, Pending, Made
    <3>2. CASE g # h
      BY <2>1, <2>2, <3>2 DEF Inv, Locking, Pending, Made
    <3> QED BY <3>1, <3>2
  <2>6. \A g \in Handler : InOrder(g)'
    BY <2>1, <2>2, <2>3 DEF Inv, InOrder
  <2>7. SeenTrue' /\ RowsExclusive'
    BY <2>1, <2>2, <2>3 DEF Inv, SeenTrue, RowsExclusive
  <2>8. ASSUME NEW f \in Handler, NEW g \in Handler, pc'[f] = "locking", pc'[g] = "locking",
               req'[f].id = req'[g].id
        PROVE  f = g
    <3>1. \A k \in Handler \ {h} : pc[k] = "locking" => req[k].id # req[h].id
      BY <2>1 DEF ProposalFree, ProposalHeld
    <3>2. CASE f = h \/ g = h
      BY <2>1, <2>2, <2>8, <3>1, <3>2
    <3>3. CASE f # h /\ g # h
      BY <2>1, <2>2, <2>8, <3>3 DEF Inv, ProposalsExclusive
    <3> QED BY <3>2, <3>3
  <2>9. ProposalsExclusive'
    BY <2>8 DEF ProposalsExclusive
  <2> QED BY <2>4, <2>5, <2>6, <2>7, <2>9 DEF Requests
<1> QED BY <1>1, <1>2

\* The lock of a person's row keeps what holds of the requests.
LEMMA RequestsLockRow ==
  ASSUME Inv, NEW h \in Handler, NEW p \in Person, LockRow(h, p)
  PROVE  Requests'
<1>1. /\ pc[h] = "locking" /\ p \in todo[h] /\ NextToLock(h, p) /\ RowFree(h, p)
      /\ UNCHANGED <<member, proposal, pc, req>>
  BY DEF LockRow
<1>2. todo'[h] = todo[h] \ {p} /\ \A g \in Handler \ {h} : todo'[g] = todo[g]
  BY DEF LockRow, Inv, TypeOK
<1>3. /\ seen'[h][p] = member[p]
      /\ \A q \in Person \ {p} : seen'[h][q] = seen[h][q]
      /\ \A g \in Handler \ {h} : seen'[g] = seen[g]
  BY DEF LockRow, Inv, TypeOK
<1>4. \A g \in Handler : Asked(g)' /\ Locking(g)'
  BY <1>1 DEF Inv, Asked, Locking, Pending, Made
<1>5. ASSUME NEW g \in Handler PROVE InOrder(g)'
  <2>1. CASE g = h
    <3>1. ASSUME NEW q \in todo[h] \ {p}, NEW r \in Person, seen'[h][r] # "none"
          PROVE  Rank[r] < Rank[q]
      <4>1. q \in Person /\ Rank[p] \in Nat /\ Rank[q] \in Nat /\ Rank[p] # Rank[q]
        BY <3>1, AdminAssumption DEF Inv, TypeOK
      <4>2. Rank[p] < Rank[q]
        BY <1>1, <3>1, <4>1 DEF NextToLock
      <4>3. CASE r = p
        BY <4>2, <4>3
      <4>4. CASE r # p
        BY <1>3, <3>1, <4>4 DEF Inv, InOrder
      <4> QED BY <4>3, <4>4
    <3> QED BY <1>2, <2>1, <3>1 DEF InOrder
  <2>2. CASE g # h
    BY <1>2, <1>3, <2>2 DEF Inv, InOrder
  <2> QED BY <2>1, <2>2
<1>6. ASSUME NEW g \in Handler, NEW q \in Person, seen'[g][q] # "none"
      PROVE  pc'[g] = "locking" /\ seen'[g][q] = member'[q]
  BY <1>1, <1>3, <1>6 DEF Inv, SeenTrue
<1>7. SeenTrue'
  BY <1>6 DEF SeenTrue
<1>8. RowsExclusive'
  BY <1>1, <1>3 DEF Inv, RowsExclusive, RowFree, RowsHeld
<1>9. ProposalsExclusive'
  BY <1>1 DEF Inv, ProposalsExclusive
<1> QED BY <1>4, <1>5, <1>7, <1>8, <1>9 DEF Requests

\* A confirmation keeps what holds of the requests.
LEMMA RequestsActivate ==
  ASSUME Inv, NEW h \in Handler, Activate(h)
  PROVE  Requests'
<1>1. CASE EndWithoutEffect(h)
  BY <1>1, RequestsEnd
<1>2. CASE ~EndWithoutEffect(h)
  <2>1. /\ End(h) /\ pc[h] = "locking" /\ RowFree(h, Identity(h))
        /\ member' = [member EXCEPT ![Identity(h)] = "active"]
        /\ proposal' = [proposal EXCEPT ![req[h].id].status = "confirmed"]
    BY <1>2 DEF Activate
  <2>2. ASSUME NEW g \in Handler \ {h}, pc[g] = "locking"
        PROVE  proposal'[req[g].id] = proposal[req[g].id]
    <3>1. req[g].id # req[h].id
      BY <2>1, <2>2 DEF Inv, ProposalsExclusive
    <3>2. req[g].id \in Proposal
      BY <2>2 DEF Inv, Locking, Pending, Made
    <3> QED BY <2>1, <3>1, <3>2 DEF Inv, TypeOK
  <2>3. ASSUME NEW g \in Handler \ {h}, NEW p \in Person, seen[g][p] # "none"
        PROVE  member'[p] = member[p]
    <3>1. p # Identity(h)
      BY <2>1, <2>3 DEF RowFree, RowsHeld
    <3> QED BY <2>1, <3>1 DEF Inv, TypeOK
  <2>4. LeavesLocked(h)
    BY <2>2, <2>3 DEF LeavesLocked
  <2> QED BY <2>1, <2>4, EndKeeps DEF Requests
<1> QED BY <1>1, <1>2

\* A cancellation keeps what holds of the requests.
LEMMA RequestsCancel ==
  ASSUME Inv, NEW h \in Handler, Cancel(h)
  PROVE  Requests'
<1>1. CASE EndWithoutEffect(h)
  BY <1>1, RequestsEnd
<1>2. CASE ~EndWithoutEffect(h)
  <2>1. /\ End(h) /\ ProposalFree(h, req[h].id) /\ member' = member
        /\ proposal' = [proposal EXCEPT ![req[h].id].status = "cancelled"]
    BY <1>2 DEF Cancel
  <2>2. ASSUME NEW g \in Handler \ {h}, pc[g] = "locking"
        PROVE  proposal'[req[g].id] = proposal[req[g].id]
    <3>1. req[g].id # req[h].id
      BY <2>1, <2>2 DEF ProposalFree, ProposalHeld
    <3>2. req[g].id \in Proposal
      BY <2>2 DEF Inv, Locking, Pending, Made
    <3> QED BY <2>1, <3>1, <3>2 DEF Inv, TypeOK
  <2>3. LeavesLocked(h)
    BY <2>1, <2>2 DEF LeavesLocked
  <2> QED BY <2>1, <2>3, EndKeeps DEF Requests
<1> QED BY <1>1, <1>2

\* A revocation keeps what holds of the requests.
LEMMA RequestsRevoke ==
  ASSUME Inv, NEW h \in Handler, Revoke(h)
  PROVE  Requests'
<1>1. CASE EndWithoutEffect(h)
  BY <1>1, RequestsEnd
<1>2. CASE ~EndWithoutEffect(h)
  <2>1. /\ End(h) /\ RowFree(h, req[h].identity) /\ proposal' = proposal
        /\ member' = [member EXCEPT ![req[h].identity] = "revoked"]
    BY <1>2 DEF Revoke, RevokeRow
  <2>3. ASSUME NEW g \in Handler \ {h}, NEW p \in Person, seen[g][p] # "none"
        PROVE  member'[p] = member[p]
    <3>1. p # req[h].identity
      BY <2>1, <2>3 DEF RowFree, RowsHeld
    <3> QED BY <2>1, <3>1 DEF Inv, TypeOK
  <2>4. LeavesLocked(h)
    BY <2>1, <2>3 DEF LeavesLocked
  <2> QED BY <2>1, <2>4, EndKeeps DEF Requests
<1> QED BY <1>1, <1>2

\* What goes on beside the requests.
LEMMA RequestsOutside ==
  ASSUME Inv, UNCHANGED requestVars,
         \A h \in Handler, p \in Person : seen[h][p] # "none" => member'[p] = member[p],
         \A x \in Made : /\ Pending(x) => Pending(x)'
                        /\ proposal'[x].proposer = proposal[x].proposer
                        /\ proposal'[x].identity = proposal[x].identity
  PROVE  Requests'
<1>1. \A g \in Handler : Asked(g)' /\ InOrder(g)'
  BY DEF Inv, Asked, InOrder
<1>2. ASSUME NEW g \in Handler PROVE Locking(g)'
  BY DEF Inv, Locking, Pending
<1>3. SeenTrue' /\ RowsExclusive' /\ ProposalsExclusive'
  BY DEF Inv, SeenTrue, RowsExclusive, ProposalsExclusive
<1> QED BY <1>1, <1>2, <1>3 DEF Requests

\* Every step keeps what holds of the requests.
LEMMA RequestsKept == Inv /\ [Next]_vars => Requests'
<1> SUFFICES ASSUME Inv, [Next]_vars PROVE Requests'
  OBVIOUS
<1>1. ASSUME NEW h \in Handler, RequestStep(h) PROVE Requests'
  BY <1>1, RequestsEnd, RequestsAuthorize, RequestsReadIdentity, RequestsInsert,
     RequestsLockProposal, RequestsLockRow, RequestsActivate, RequestsCancel, RequestsRevoke
     DEF RequestStep, Stop
<1>2. ASSUME NEW p \in Person, CliGrant(p) \/ RevokeOutside(p) PROVE Requests'
  <2>1. /\ UNCHANGED <<requestVars, proposal>> /\ RowFreeOfAll(p)
        /\ \A q \in Person \ {p} : member'[q] = member[q]
    BY <1>2 DEF CliGrant, RevokeOutside, RevokeRow, Inv, TypeOK
  <2>2. \A h \in Handler, q \in Person : seen[h][q] # "none" => member'[q] = member[q]
    BY <2>1 DEF RowFreeOfAll, RowsHeld
  <2> QED BY <2>1, <2>2, RequestsOutside DEF Pending, Made
<1>3. ASSUME NEW x \in Proposal, Lapse(x) PROVE Requests'
  <2>1. /\ UNCHANGED <<requestVars, member>> /\ proposal[x] \in Row
        /\ proposal' = [proposal EXCEPT ![x].status = "lapsed"]
    BY <1>3 DEF Lapse, Inv, TypeOK, Made
  <2>2. /\ proposal'[x].proposer = proposal[x].proposer
        /\ proposal'[x].identity = proposal[x].identity
        /\ proposal'[x].status = "lapsed"
        /\ proposal'[x] \in Row
    BY <2>1 DEF Inv, TypeOK, Row, Undecided
  <2>3. Pending(x)'
    BY <2>2, NullAssumption DEF Pending, Made, Undecided
  <2>4. \A y \in Proposal \ {x} : proposal'[y] = proposal[y]
    BY <2>1 DEF Inv, TypeOK
  <2>5. \A y \in Made : /\ Pending(y) => Pending(y)'
                       /\ proposal'[y].proposer = proposal[y].proposer
                       /\ proposal'[y].identity = proposal[y].identity
    BY <2>2, <2>3, <2>4 DEF Pending, Made
  <2> QED BY <2>1, <2>5, RequestsOutside
<1>4. CASE UNCHANGED vars
  BY <1>4, RequestsOutside DEF Pending, Made
<1> QED BY <1>1, <1>2, <1>3, <1>4 DEF Next

\* Every step keeps the invariant.
LEMMA InvStep == Inv /\ [Next]_vars => Inv'
  BY TypeStep, RequestsKept DEF Inv, Requests

\* What is known of requests, rows and locks holds in every state.
THEOREM Invariance == Spec => []Inv
  BY InvInit, InvStep, PTL DEF Spec

-----------------------------------------------------------------------------
(* The properties. *)

\* Every variable of the administrators keeps its type.
THEOREM AdminTypeCorrect == Spec => []TypeOK
  BY Invariance, PTL DEF Inv

\* Crossing confirmations do not wait for each other in a circle: each waits for
\* a row that comes after those it holds.
THEOREM CrossingConfirmations == Spec => []NoDeadlock
<1>1. Inv => NoDeadlock
  <2> SUFFICES ASSUME Inv, NEW h \in Handler, NEW g \in Handler, h # g,
                      WaitsFor(h, g), WaitsFor(g, h)
               PROVE  FALSE
    BY DEF NoDeadlock
  <2>1. PICK p \in todo[h] : p \in RowsHeld(g)
    BY DEF WaitsFor
  <2>2. PICK q \in todo[g] : q \in RowsHeld(h)
    BY DEF WaitsFor
  <2>3. p \in Person /\ q \in Person /\ Rank[p] \in Nat /\ Rank[q] \in Nat
    BY AdminAssumption DEF Inv, TypeOK
  <2>4. Rank[p] < Rank[q]
    BY <2>1, <2>2 DEF Inv, InOrder, RowsHeld
  <2>5. Rank[q] < Rank[p]
    BY <2>1, <2>2 DEF Inv, InOrder, RowsHeld
  <2> QED BY <2>3, <2>4, <2>5
<1> QED BY <1>1, Invariance, PTL

\* Only a step of a confirmation, or the command line, makes an administrator.
LEMMA WhoActivates ==
  ASSUME Inv, [Next]_vars, NEW p \in Person, member[p] # "active", member'[p] = "active",
         grants' = grants
  PROVE  \E h \in Handler : Activate(h) /\ member' # member
<1>1. ASSUME NEW q \in Person, CliGrant(q) PROVE FALSE
  BY <1>1 DEF CliGrant, Inv, TypeOK
<1>2. ASSUME NEW q \in Person, RevokeRow(q) PROVE FALSE
  BY <1>2 DEF RevokeRow, Inv, TypeOK
<1>3. ASSUME NEW h \in Handler, RequestStep(h) PROVE Activate(h)
  <2>1. ~Revoke(h)
    <3>1. SUFFICES ASSUME Revoke(h) PROVE FALSE
      OBVIOUS
    <3>2. req[h].identity \in Person
      BY <3>1 DEF Revoke, Inv, Asked, RevokeRequest
    <3> QED BY <1>2, <3>1, <3>2 DEF Revoke, EndWithoutEffect
  <2> QED BY <1>3, <2>1
          DEF RequestStep, Authorize, ReadIdentity, InsertProposal, LockProposal, LockRow,
              Cancel, Stop, EndWithoutEffect
<1> QED BY <1>1, <1>2, <1>3 DEF Next, RevokeOutside, Lapse

\* Whoever becomes an administrator beside the command line does so by a
\* confirmation of two others.
LEMMA FourEyesStep ==
  ASSUME Inv, [Next]_vars, NEW p \in Person, member[p] # "active", member'[p] = "active",
         grants' = grants
  PROVE  \E x \in Proposal, h \in Handler :
            /\ pc[h] = "locking" /\ req[h].id = x
            /\ Pending(x)
            /\ proposal'[x].status = "confirmed"
            /\ proposal[x].identity = p
            /\ req[h].actor \notin {proposal[x].proposer, p}
            /\ proposal[x].proposer # p
            /\ req[h].actor \in Person /\ proposal[x].proposer \in Person
            /\ member[req[h].actor] = "active"
            /\ member[proposal[x].proposer] = "active"
<1>1. PICK h \in Handler : Activate(h) /\ member' # member
  BY WhoActivates
<1> DEFINE x == req[h].id
<1>2. /\ pc[h] = "locking" /\ MayActivate(h)
      /\ member' = [member EXCEPT ![Identity(h)] = "active"]
      /\ proposal' = [proposal EXCEPT ![x].status = "confirmed"]
  BY <1>1 DEF Activate, EndWithoutEffect
<1>3. /\ Pending(x) /\ x \in Proposal
      /\ req[h].actor # proposal[x].proposer /\ req[h].actor # proposal[x].identity
  BY <1>1, <1>2 DEF Inv, Locking, Pending, Made
<1>4. proposal[x] \in Row /\ req[h] \in ConfirmRequest
  BY <1>1, <1>2, <1>3 DEF Inv, TypeOK, Asked, Pending, Made
<1>5. /\ proposal[x].proposer \in Person /\ proposal[x].proposer # proposal[x].identity
      /\ req[h].actor \in Person
  BY <1>4 DEF Row, ConfirmRequest
<1>6. proposal[x].identity = p
  BY <1>1, <1>2 DEF Identity, Inv, TypeOK
<1>7. proposal'[x].status = "confirmed"
  BY <1>2, <1>3, <1>4 DEF Inv, TypeOK, Row
<1>8. member[req[h].actor] = "active"
  BY <1>1, <1>2, <1>5 DEF MayActivate, Confirmer, Inv, SeenTrue
<1>9. member[proposal[x].proposer] = "active"
  BY <1>1, <1>2, <1>5 DEF MayActivate, Proposer, Inv, SeenTrue
<1> QED BY <1>2, <1>3, <1>5, <1>6, <1>7, <1>8, <1>9

\* Four eyes: for any people and any requests under way, whoever becomes an
\* administrator beside the command line does so by two administrators.
THEOREM TwoAdministrators == Spec => FourEyes
<1>1. Inv /\ [Next]_vars => [\A p \in Person :
         member[p] # "active" /\ member'[p] = "active" /\ grants' = grants =>
           \E x \in Proposal, h \in Handler :
              /\ pc[h] = "locking" /\ req[h].id = x
              /\ Pending(x)
              /\ proposal'[x].status = "confirmed"
              /\ proposal[x].identity = p
              /\ req[h].actor \notin {proposal[x].proposer, p}
              /\ proposal[x].proposer # p
              /\ member[req[h].actor] = "active"
              /\ member[proposal[x].proposer] = "active"]_vars
  BY FourEyesStep
<1> QED BY <1>1, Invariance, PTL DEF Spec, FourEyes

\* One administrator alone adds nobody: nobody else ever becomes one, unless by
\* the command line.
THEOREM AloneAddsNobody ==
  ASSUME NEW a \in Person, First = {a}, MaxGrants = 0
  PROVE  Spec => [](\A p \in Person : member[p] = "active" => p = a)
<1> DEFINE Alone == grants = 0 /\ \A p \in Person : member[p] = "active" => p = a
<1>1. Init => Alone
  BY DEF Init
<1>2. Inv /\ Alone /\ [Next]_vars => Alone'
  <2> SUFFICES ASSUME Inv, Alone, [Next]_vars PROVE Alone'
    OBVIOUS
  <2>1. \A p \in Person : ~CliGrant(p)
    BY DEF CliGrant
  <2>2. grants' = grants
    BY <2>1 DEF Next, RequestStep, Authorize, ReadIdentity, InsertProposal, LockProposal, LockRow,
                Activate, Cancel, Revoke, RevokeRow, Stop, EndWithoutEffect, RevokeOutside, Lapse
  <2>3. ASSUME NEW p \in Person, member'[p] = "active" PROVE member[p] = "active"
    BY <2>2, <2>3, FourEyesStep
  <2> QED BY <2>2, <2>3
<1> QED BY <1>1, <1>2, Invariance, PTL DEF Spec

\* A decision on a proposal stands.
THEOREM DecisionsStand == Spec => DecidedForGood
<1>1. ASSUME Inv, [Next]_vars, NEW x \in Made, ~Pending(x)
      PROVE  proposal'[x] = proposal[x]
  <2>1. ASSUME NEW h \in Handler, InsertProposal(h) PROVE proposal'[x] = proposal[x]
    BY <1>1, <2>1 DEF InsertProposal, EndWithoutEffect, Made, PendingFor
  <2>2. ASSUME NEW h \in Handler, Activate(h) PROVE proposal'[x] = proposal[x]
    <3>1. Pending(req[h].id)
      BY <1>1, <2>2 DEF Activate, Inv, Locking
    <3> QED BY <1>1, <2>2, <3>1 DEF Activate, EndWithoutEffect, Inv, TypeOK, Made
  <2>3. ASSUME NEW h \in Handler, Cancel(h) PROVE proposal'[x] = proposal[x]
    BY <1>1, <2>3 DEF Cancel, EndWithoutEffect, Inv, TypeOK, Made
  <2>4. ASSUME NEW y \in Proposal, Lapse(y) PROVE proposal'[x] = proposal[x]
    <3>1. x # y
      BY <1>1, <2>4 DEF Lapse, Pending, Undecided
    <3> QED BY <2>4, <3>1 DEF Lapse, Inv, TypeOK, Made
  <2>5. ASSUME NEW h \in Handler, RequestStep(h) PROVE proposal'[x] = proposal[x]
    BY <2>1, <2>2, <2>3, <2>5
       DEF RequestStep, Authorize, ReadIdentity, LockProposal, LockRow, Revoke, RevokeRow,
           Stop, EndWithoutEffect
  <2> QED BY <1>1, <2>4, <2>5 DEF Next, CliGrant, RevokeOutside, RevokeRow
<1>2. Inv /\ [Next]_vars => [\A x \in Made : ~Pending(x) => proposal'[x] = proposal[x]]_vars
  BY <1>1
<1> QED BY <1>2, Invariance, PTL DEF Spec, DecidedForGood

=============================================================================
