--------------------------- MODULE AccountProofs ---------------------------
(***************************************************************************)
(* Theorems about accounts: those of the members of the organs             *)
(* (OrganMembers) and the page they are kept on (OrganPage), and the page  *)
(* of the own account (AccountPage).                                       *)
(***************************************************************************)
EXTENDS OrganMembers, AccountPage, OrganPage, TLAPS

-----------------------------------------------------------------------------
(* The members of the organs. *)

\* An Akun SQ that has a second factor, must set one up, or whose owner took it off.
HasTotp(e) == akun[e].totp \/ akun[e].needsTotp \/ e \in removed

\* Whom a membership, a mail or the record of Path B speaks of.
Owned ==
    \A e \in Candidate :
        /\ e \in mailed \/ e \in provisioned \/ membership[e].path = "organ_identity" => akun[e].by = "organ"
        /\ membership[e].state = "active" => akun[e].by # "nobody" /\ HasTotp(e)
        /\ akun[e].by = "organ" => HasTotp(e)

\* What a request has seen to before the step it is at.
Rightful(pc, kind, e) ==
    /\ pc \in {"create", "record"} => kind = "organ_identity"
    /\ pc \in {"totp", "require"} => kind = "existing_staff"
    /\ pc \in {"mail", "send"} => kind \in {"organ_identity", "resend"}
    /\ pc = "member" => kind \in {"existing_staff", "organ_identity", "resend"}
    /\ pc \in {"insert", "grants"} => kind \in {"existing_staff", "organ_identity"}
    /\ pc \in {"record", "mail", "member", "insert"} /\ kind = "organ_identity" => akun[e].by = "organ"
    /\ pc = "send" => akun[e].by = "organ"
    /\ pc \in {"totp", "require"} => akun[e].by # "nobody"
    /\ pc \in {"member", "insert"} /\ kind = "existing_staff" => akun[e].by # "nobody" /\ HasTotp(e)

\* The inductive invariant.
MembersInv == MembersTypeOK /\ Owned /\ \A r \in Caller : Rightful(ask[r].pc, ask[r].kind, ask[r].email)

\* An Akun SQ has one maker, and its second factor is not lost unnoticed.
AkunGrows ==
    /\ akun' \in [Candidate -> Akuns]
    /\ \A e \in Candidate :
          /\ akun[e].by # "nobody" => akun'[e].by = akun[e].by /\ (HasTotp(e) => HasTotp(e)')
          /\ akun'[e].by = "organ" => HasTotp(e)'

\* Only request r moves.
AskMoves(r, pc, kind, e) ==
    /\ ask' \in [Caller -> Asks]
    /\ ask'[r].pc = pc /\ ask'[r].kind = kind /\ ask'[r].email = e
    /\ \A o \in Caller \ {r} : ask'[o] = ask[o]

\* The records a step makes are records of an Akun SQ.
LEMMA AkunTypes ==
    /\ NoAkun \in Akuns /\ StaffAkun \in Akuns /\ NoAsk \in Asks
    /\ [NoAkun EXCEPT !.by = "organ", !.enabled = TRUE, !.newPassword = TRUE, !.needsTotp = TRUE] \in Akuns
    /\ \A on \in BOOLEAN : [StaffAkun EXCEPT !.enabled = on, !.newPassword = TRUE] \in Akuns
    /\ StaffAkun.by = "staff"
<1>1. NoAkun \in Akuns
  BY DEF NoAkun, Akuns, Makers
<1>2. StaffAkun \in Akuns /\ StaffAkun.by = "staff"
  BY <1>1 DEF StaffAkun, Akuns, Makers
<1>3. [NoAkun EXCEPT !.by = "organ", !.enabled = TRUE, !.newPassword = TRUE, !.needsTotp = TRUE] \in Akuns
  BY <1>1 DEF Akuns, Makers
<1>4. \A on \in BOOLEAN : [StaffAkun EXCEPT !.enabled = on, !.newPassword = TRUE] \in Akuns
  BY <1>2 DEF Akuns, Makers
<1>5. Anyone \in Candidate
  BY MembersAssumption DEF Anyone
<1>6. NoAsk \in Asks
  BY <1>5 DEF NoAsk, Asks, AskPcs, AskKinds
<1> QED BY <1>1, <1>2, <1>3, <1>4, <1>6

\* A step that leaves the Akun SQ alone loses nothing.
LEMMA AkunStays ==
    ASSUME MembersInv, UNCHANGED akun, removed \subseteq removed'
    PROVE  AkunGrows
BY DEF MembersInv, MembersTypeOK, Owned, AkunGrows, HasTotp

\* What a request has seen to stays true while others move.
LEMMA RightfulStays ==
    ASSUME NEW pc, NEW kind, NEW e \in Candidate, Rightful(pc, kind, e), AkunGrows
    PROVE  Rightful(pc, kind, e)'
BY DEF Rightful, AkunGrows

\* What follows for Owned from what a step does to the records.
LEMMA OwnedStays ==
    ASSUME MembersInv, AkunGrows,
           membership' \in [Candidate -> Memberships], mailed' \subseteq Candidate, provisioned' \subseteq Candidate,
           \A e \in mailed' \ mailed : akun[e].by = "organ",
           \A e \in provisioned' \ provisioned : akun[e].by = "organ",
           \A e \in Candidate : membership'[e].path = "organ_identity" =>
               membership[e].path = "organ_identity" \/ akun[e].by = "organ",
           \A e \in Candidate : membership'[e].state = "active" =>
               membership[e].state = "active" \/ (akun[e].by # "nobody" /\ HasTotp(e))
    PROVE  Owned'
BY DEF MembersInv, Owned, AkunGrows

\* What the forms of a step of a request do to the requests.
LEMMA AskStep ==
    ASSUME MembersInv, NEW r \in Caller
    PROVE  /\ Answered(r) => AskMoves(r, "idle", "none", Anyone) /\ Rightful("idle", "none", Anyone)'
           /\ \A pc \in AskPcs : Goto(r, pc) => AskMoves(r, pc, ask[r].kind, Of(r))
           /\ \A kind \in AskKinds, e \in Candidate, pc \in AskPcs, apps \in SUBSET Application :
                 Begin(r, kind, e, pc, apps) => AskMoves(r, pc, kind, e) /\ At(r, "idle")
<1>1. ask \in [Caller -> Asks] /\ akun \in [Candidate -> Akuns]
  BY DEF MembersInv, MembersTypeOK
<1>2. Answered(r) => AskMoves(r, "idle", "none", Anyone) /\ Rightful("idle", "none", Anyone)'
  <2>1. NoAsk.pc = "idle" /\ NoAsk.kind = "none" /\ NoAsk.email = Anyone
    BY DEF NoAsk
  <2> QED BY <1>1, <2>1, AkunTypes DEF Answered, AskMoves, Rightful
<1>3. ASSUME NEW pc \in AskPcs, Goto(r, pc) PROVE AskMoves(r, pc, ask[r].kind, Of(r))
  BY <1>1, <1>3 DEF Goto, AskMoves, Asks, Of
<1>4. ASSUME NEW kind \in AskKinds, NEW e \in Candidate, NEW pc \in AskPcs, NEW apps \in SUBSET Application,
             Begin(r, kind, e, pc, apps)
      PROVE  AskMoves(r, pc, kind, e) /\ At(r, "idle")
  <2> DEFINE seen == IF pc = "mail" THEN Seen(akun[e]) ELSE {}
             new == [pc |-> pc, kind |-> kind, email |-> e, apps |-> apps, seen |-> seen]
  <2>1. seen \subseteq {"employee", "newPassword"}
    BY DEF Seen
  <2>2. ask' = [ask EXCEPT ![r] = new] /\ At(r, "idle")
    BY <1>4 DEF Begin
  <2> HIDE DEF seen
  <2>3. new \in Asks /\ new.pc = pc /\ new.kind = kind /\ new.email = e
    BY <2>1 DEF Asks
  <2> HIDE DEF new
  <2> QED BY <1>1, <2>2, <2>3 DEF AskMoves
<1> QED BY <1>2, <1>3, <1>4

\* A step of a request is put together from what it does to each part.
LEMMA MembersKept ==
    ASSUME MembersInv, AkunGrows, AccessTypeOK',
           membership' \in [Candidate -> Memberships], mailed' \subseteq Candidate, provisioned' \subseteq Candidate,
           removed' \subseteq Candidate, Owned',
           \/ ask' = ask
           \/ \E r \in Caller : \E pc, kind, e : AskMoves(r, pc, kind, e) /\ Rightful(pc, kind, e)'
    PROVE  MembersInv'
<1>1. ask' \in [Caller -> Asks]
  BY DEF AskMoves, MembersInv, MembersTypeOK
<1>2. \A o \in Caller : ask[o].email \in Candidate
  BY DEF MembersInv, MembersTypeOK, Asks
<1>3. \A o \in Caller : Rightful(ask[o].pc, ask[o].kind, ask[o].email)
  BY DEF MembersInv
<1>4. ASSUME NEW o \in Caller, ask'[o] = ask[o] PROVE Rightful(ask[o].pc, ask[o].kind, ask[o].email)'
  <2>1. Rightful(ask[o].pc, ask[o].kind, ask[o].email)
    BY <1>3
  <2> QED BY <1>2, <1>4, <2>1 DEF Rightful, AkunGrows
<1>5. ASSUME NEW r \in Caller, NEW pc, NEW kind, NEW e, AskMoves(r, pc, kind, e), Rightful(pc, kind, e)'
      PROVE  \A o \in Caller : Rightful(ask[o].pc, ask[o].kind, ask[o].email)'
  <2>1. Rightful(ask[r].pc, ask[r].kind, ask[r].email)'
    BY <1>5 DEF AskMoves, Rightful
  <2> QED BY <1>4, <1>5, <2>1 DEF AskMoves
<1>6. \A o \in Caller : Rightful(ask[o].pc, ask[o].kind, ask[o].email)'
  BY <1>4, <1>5
<1> QED BY <1>1, <1>6 DEF MembersInv, MembersTypeOK, AkunGrows

\* A step that only takes the request further.
LEMMA OnlyAskMoves ==
    ASSUME MembersInv, UNCHANGED <<akun, provisioned, membership, mailed, removed>>, AccessTypeOK',
           NEW r \in Caller, NEW pc, NEW kind, NEW e \in Candidate, AskMoves(r, pc, kind, e), Rightful(pc, kind, e)
    PROVE  MembersInv'
<1>1. AkunGrows
  BY AkunStays
<1>2. Owned'
  BY DEF MembersInv, Owned, HasTotp
<1>3. Rightful(pc, kind, e)'
  BY <1>1, RightfulStays
<1> QED BY <1>1, <1>2, <1>3, MembersKept DEF MembersInv, MembersTypeOK

\* What the invariant says of one request.
LEMMA AskRight ==
    ASSUME MembersInv, NEW r \in Caller
    PROVE  /\ Rightful(ask[r].pc, ask[r].kind, ask[r].email) /\ Of(r) \in Candidate /\ Of(r) = ask[r].email
           /\ ask[r].kind \in AskKinds /\ ask[r].seen \subseteq {"employee", "newPassword"}
           /\ ask[r].apps \subseteq Application /\ akun[Of(r)] \in Akuns /\ Anyone \in Candidate
BY MembersAssumption DEF MembersInv, MembersTypeOK, Asks, Of, Anyone

\* A request reads, fails or ends.
LEMMA MemberReadSteps ==
    ASSUME MembersInv, NEW r \in Caller,
           Throw(r) \/ ReadActions(r) \/ DecideActivation(r) \/ ReadMember(r) \/ MemberFails(r) \/ AnswerRequest(r)
    PROVE  MembersInv'
<1>1. UNCHANGED <<akun, provisioned, membership, mailed, removed>> /\ AccessTypeOK'
  BY DEF Throw, ReadActions, DecideActivation, ReadMember, MemberFails, AnswerRequest, accessVars,
         MembersInv, MembersTypeOK, AccessTypeOK
<1>a. CASE Answered(r)
  BY <1>1, <1>a, AskStep, AskRight, OnlyAskMoves DEF Rightful
<1>b. ASSUME NEW pc \in AskPcs, Goto(r, pc), Rightful(pc, ask[r].kind, Of(r)) PROVE MembersInv'
  BY <1>1, <1>b, AskStep, AskRight, OnlyAskMoves
<1>2. CASE ReadActions(r)
  <2>1. ask[r].kind = "existing_staff" /\ akun[Of(r)].by # "nobody"
    BY <1>2, AskRight DEF ReadActions, At, Rightful
  <2>2. CASE akun[Of(r)].needsTotp
    <3>1. Rightful("member", ask[r].kind, Of(r)) /\ "member" \in AskPcs
      BY <2>1, <2>2 DEF Rightful, HasTotp, AskPcs
    <3> QED BY <1>2, <1>b, <2>2, <3>1 DEF ReadActions
  <2>3. CASE ~akun[Of(r)].needsTotp
    <3>1. ask' = [ask EXCEPT ![r].pc = "require", ![r].seen = Seen(akun[Of(r)])]
      BY <1>2, <2>3 DEF ReadActions
    <3>2. "require" \in AskPcs /\ Seen(akun[Of(r)]) \subseteq {"employee", "newPassword"} /\ ask \in [Caller -> Asks]
      BY DEF AskPcs, Seen, MembersInv, MembersTypeOK
    <3>3. AskMoves(r, "require", ask[r].kind, Of(r))
      BY <3>1, <3>2 DEF AskMoves, Asks, Of
    <3>4. Rightful("require", ask[r].kind, Of(r))
      BY <2>1 DEF Rightful
    <3> QED BY <1>1, <3>3, <3>4, AskRight, OnlyAskMoves
  <2> QED BY <2>2, <2>3
<1>3. CASE DecideActivation(r)
  <2>1. /\ ask[r].kind \in {"organ_identity", "resend"}
        /\ ask[r].kind = "organ_identity" => akun[Of(r)].by = "organ"
    BY <1>3, AskRight DEF DecideActivation, At, Rightful
  <2>2. akun[Of(r)].by = "organ"
    BY <1>3, AskRight DEF DecideActivation, IsOrganProvisioned, MembersInv, Owned
  <2>3. /\ Rightful("send", ask[r].kind, Of(r)) /\ Rightful("member", ask[r].kind, Of(r))
        /\ {"send", "member"} \subseteq AskPcs
    BY <2>1, <2>2 DEF Rightful, AskPcs
  <2> QED BY <1>3, <1>b, <2>3 DEF DecideActivation
<1>4. CASE ReadMember(r)
  <2>1. CASE ask[r].kind = "resend"
    BY <1>4, <1>a, <2>1 DEF ReadMember
  <2>2. CASE ask[r].kind # "resend"
    <3>1. Rightful("member", ask[r].kind, Of(r))
      BY <1>4, AskRight DEF ReadMember, At
    <3>2. /\ Rightful("grants", ask[r].kind, Of(r)) /\ Rightful("insert", ask[r].kind, Of(r))
          /\ {"grants", "insert"} \subseteq AskPcs
      BY <2>2, <3>1 DEF Rightful, AskPcs
    <3> QED BY <1>4, <1>b, <2>2, <3>2 DEF ReadMember
  <2> QED BY <2>1, <2>2
<1> QED BY <1>a, <1>2, <1>3, <1>4 DEF Throw, MemberFails, AnswerRequest

\* A request begins: nothing has been seen to.
LEMMA BeginSteps ==
    ASSUME MembersInv, NEW r \in Caller, NEW e \in Candidate,
           \/ \E apps \in SUBSET Application : AddExistingStaff(r, e, apps) \/ AddNewIdentity(r, e, apps)
           \/ ResendActivation(r, e) \/ ProvisionStaff(r, e)
    PROVE  MembersInv'
<1>1. UNCHANGED <<akun, provisioned, membership, mailed, removed>> /\ AccessTypeOK'
  BY DEF AddExistingStaff, AddNewIdentity, ResendActivation, ProvisionStaff, accessVars,
         MembersInv, MembersTypeOK, AccessTypeOK
<1>a. ASSUME NEW kind \in AskKinds, NEW pc \in AskPcs, NEW apps \in SUBSET Application,
             Begin(r, kind, e, pc, apps), Rightful(pc, kind, e)
      PROVE  MembersInv'
  BY <1>1, <1>a, AskStep, OnlyAskMoves
<1>b. IsOrganProvisioned(e, Seen(akun[e])) => akun[e].by = "organ"
  BY DEF IsOrganProvisioned, MembersInv, Owned
<1>c. /\ {"member", "totp", "create", "mail", "make", "link"} \subseteq AskPcs
      /\ {"existing_staff", "organ_identity", "resend", "provision"} \subseteq AskKinds
  BY DEF AskPcs, AskKinds
<1>2. ASSUME NEW apps \in SUBSET Application, AddExistingStaff(r, e, apps) PROVE MembersInv'
  <2>1. CASE akun[e].totp
    <3>1. Rightful("member", "existing_staff", e)
      BY <1>2, <2>1 DEF AddExistingStaff, Rightful, HasTotp
    <3> QED BY <1>2, <1>a, <1>c, <2>1, <3>1 DEF AddExistingStaff
  <2>2. CASE ~akun[e].totp
    <3>1. Rightful("totp", "existing_staff", e)
      BY <1>2, <2>2 DEF AddExistingStaff, Rightful
    <3> QED BY <1>2, <1>a, <1>c, <2>2, <3>1 DEF AddExistingStaff
  <2> QED BY <2>1, <2>2
<1>3. ASSUME NEW apps \in SUBSET Application, AddNewIdentity(r, e, apps) PROVE MembersInv'
  <2>1. CASE Begin(r, "organ_identity", e, "create", apps)
    <3>1. Rightful("create", "organ_identity", e)
      BY DEF Rightful
    <3> QED BY <1>a, <1>c, <2>1, <3>1
  <2>2. CASE IsOrganProvisioned(e, Seen(akun[e])) /\ Begin(r, "organ_identity", e, "mail", apps)
    <3>1. Rightful("mail", "organ_identity", e)
      BY <1>b, <2>2 DEF Rightful
    <3> QED BY <1>a, <1>c, <2>2, <3>1
  <2> QED BY <1>3, <2>1, <2>2 DEF AddNewIdentity
<1>4. CASE ResendActivation(r, e)
  <2>1. Rightful("mail", "resend", e)
    BY DEF Rightful
  <2> QED BY <1>4, <1>a, <1>c, <2>1 DEF ResendActivation
<1>5. CASE ProvisionStaff(r, e)
  <2>1. Rightful("make", "provision", e) /\ Rightful("link", "provision", e)
    BY DEF Rightful
  <2> QED BY <1>5, <1>a, <1>c, <2>1 DEF ProvisionStaff
<1> QED BY <1>2, <1>3, <1>4, <1>5

\* A record that is changed in place: who made it stays, and the second factor.
LEMMA AkunChanges ==
    ASSUME MembersInv, NEW e \in Candidate, NEW new \in Akuns, akun' = [akun EXCEPT ![e] = new],
           new.by = akun[e].by, new.totp \/ new.needsTotp \/ e \in removed' \/ ~HasTotp(e),
           \A o \in Candidate \ {e} : o \in removed => o \in removed'
    PROVE  AkunGrows
<1>1. akun \in [Candidate -> Akuns]
  BY DEF MembersInv, MembersTypeOK
<1>2. akun' \in [Candidate -> Akuns] /\ akun'[e] = new /\ \A o \in Candidate \ {e} : akun'[o] = akun[o]
  BY <1>1
<1>3. HasTotp(e) => HasTotp(e)'
  BY <1>2 DEF HasTotp
<1>4. \A o \in Candidate : o # e => akun'[o].by = akun[o].by /\ (HasTotp(o) => HasTotp(o)')
  BY <1>2 DEF HasTotp
<1> QED BY <1>2, <1>3, <1>4 DEF AkunGrows, MembersInv, Owned

\* One that is made where there was none.
LEMMA AkunMade ==
    ASSUME MembersInv, NEW e \in Candidate, NEW new \in Akuns, akun' = [akun EXCEPT ![e] = new],
           akun[e].by = "nobody", new.by = "organ" => new.needsTotp, removed' = removed
    PROVE  AkunGrows
<1>1. akun \in [Candidate -> Akuns]
  BY DEF MembersInv, MembersTypeOK
<1>2. akun' \in [Candidate -> Akuns] /\ akun'[e] = new /\ \A o \in Candidate \ {e} : akun'[o] = akun[o]
  BY <1>1
<1>3. \A o \in Candidate : o # e => (HasTotp(o) <=> HasTotp(o)')
  BY <1>2 DEF HasTotp
<1>4. new.by = "organ" => HasTotp(e)'
  BY <1>2 DEF HasTotp
<1> QED BY <1>2, <1>3, <1>4 DEF AkunGrows, MembersInv, Owned

\* The owner of an Akun SQ, or HCIS for staff, changes it.
LEMMA OwnerSteps ==
    ASSUME MembersInv, NEW e \in Candidate,
           EnableStaff(e) \/ MakePassword(e) \/ SetUpTotp(e) \/ RemoveTotp(e)
    PROVE  MembersInv'
<1>1. /\ akun \in [Candidate -> Akuns] /\ akun[e] \in Akuns
      /\ mailed \subseteq Candidate /\ removed \subseteq Candidate /\ provisioned \subseteq Candidate
      /\ membership \in [Candidate -> Memberships]
  BY DEF MembersInv, MembersTypeOK
<1>2. /\ UNCHANGED <<accessVars, provisioned, membership, ask>>
      /\ mailed' \subseteq mailed /\ removed' \subseteq Candidate
  BY <1>1 DEF EnableStaff, MakePassword, SetUpTotp, RemoveTotp
<1>3. AkunGrows
  <2>1. CASE EnableStaff(e)
    <3>1. akun' = [akun EXCEPT ![e] = [akun[e] EXCEPT !.enabled = TRUE]] /\ removed' = removed
      BY <2>1 DEF EnableStaff
    <3> DEFINE new == [akun[e] EXCEPT !.enabled = TRUE]
    <3>2. new \in Akuns /\ new.by = akun[e].by /\ new.totp = akun[e].totp /\ new.needsTotp = akun[e].needsTotp
      BY <1>1 DEF Akuns
    <3> HIDE DEF new
    <3> QED BY <3>1, <3>2, AkunChanges DEF HasTotp, new
  <2>2. CASE MakePassword(e)
    <3>1. akun' = [akun EXCEPT ![e] = [akun[e] EXCEPT !.newPassword = FALSE]] /\ removed' = removed
      BY <2>2 DEF MakePassword
    <3> DEFINE new == [akun[e] EXCEPT !.newPassword = FALSE]
    <3>2. new \in Akuns /\ new.by = akun[e].by /\ new.totp = akun[e].totp /\ new.needsTotp = akun[e].needsTotp
      BY <1>1 DEF Akuns
    <3> HIDE DEF new
    <3> QED BY <3>1, <3>2, AkunChanges DEF HasTotp, new
  <2>3. CASE SetUpTotp(e)
    <3>1. akun' = [akun EXCEPT ![e] = [akun[e] EXCEPT !.totp = TRUE, !.needsTotp = FALSE]] /\ removed' = removed \ {e}
      BY <2>3 DEF SetUpTotp
    <3> DEFINE new == [akun[e] EXCEPT !.totp = TRUE, !.needsTotp = FALSE]
    <3>2. new \in Akuns /\ new.by = akun[e].by /\ new.totp = TRUE
      BY <1>1 DEF Akuns
    <3> HIDE DEF new
    <3> QED BY <3>1, <3>2, AkunChanges DEF new
  <2>4. CASE RemoveTotp(e)
    <3>1. akun' = [akun EXCEPT ![e] = [akun[e] EXCEPT !.totp = FALSE]] /\ removed' = removed \cup {e}
      BY <2>4 DEF RemoveTotp
    <3> DEFINE new == [akun[e] EXCEPT !.totp = FALSE]
    <3>2. new \in Akuns /\ new.by = akun[e].by
      BY <1>1 DEF Akuns
    <3> HIDE DEF new
    <3> QED BY <3>1, <3>2, AkunChanges DEF new
  <2> QED BY <2>1, <2>2, <2>3, <2>4
<1>4. Owned'
  BY <1>1, <1>2, <1>3, OwnedStays
<1>5. AccessTypeOK'
  BY <1>2 DEF accessVars, AccessTypeOK, MembersInv, MembersTypeOK
<1> QED BY <1>1, <1>2, <1>3, <1>4, <1>5, MembersKept

\* A request makes or changes an Akun SQ at Keycloak.
LEMMA KeycloakSteps ==
    ASSUME MembersInv, NEW r \in Caller,
           RequireTotp(r) \/ RequireFails(r) \/ CreateOrganMember(r) \/ CreateStaff(r) \/ LinkEmployee(r)
    PROVE  MembersInv'
<1>1. /\ akun \in [Candidate -> Akuns] /\ Of(r) \in Candidate /\ akun[Of(r)] \in Akuns
      /\ mailed \subseteq Candidate /\ removed \subseteq Candidate /\ provisioned \subseteq Candidate
      /\ membership \in [Candidate -> Memberships] /\ ask \in [Caller -> Asks]
  BY AskRight DEF MembersInv, MembersTypeOK
<1>2. UNCHANGED <<accessVars, provisioned, membership, mailed, removed>>
  BY DEF RequireTotp, RequireFails, CreateOrganMember, CreateStaff, LinkEmployee
<1>3. AccessTypeOK'
  BY <1>2 DEF accessVars, AccessTypeOK, MembersInv, MembersTypeOK
<1>a. ASSUME AkunGrows, NEW pc, NEW kind, NEW e, AskMoves(r, pc, kind, e), Rightful(pc, kind, e)'
      PROVE  MembersInv'
  <2>1. Owned'
    BY <1>1, <1>2, <1>a, OwnedStays
  <2> QED BY <1>1, <1>2, <1>3, <1>a, <2>1, MembersKept
<1>0. PICK e \in Candidate : e = Of(r)
  BY <1>1
<1>b. ASSUME akun' = [akun EXCEPT ![Of(r)].needsTotp = TRUE, ![Of(r)].newPassword = "newPassword" \in ask[r].seen]
      PROVE  AkunGrows /\ HasTotp(e)' /\ akun'[e].by = akun[e].by
  <2>1. PICK b \in BOOLEAN : b = ("newPassword" \in ask[r].seen)
    <3>1. ("newPassword" \in ask[r].seen) \in BOOLEAN
      OBVIOUS
    <3> QED BY <3>1
  <2> DEFINE required == [akun[e] EXCEPT !.needsTotp = TRUE, !.newPassword = b]
  <2>2. akun' = [akun EXCEPT ![e] = required]
    BY <1>0, <1>1, <1>b, <2>1
  <2>3. required \in Akuns /\ required.by = akun[e].by /\ required.needsTotp = TRUE
    BY <1>0, <1>1 DEF Akuns
  <2> HIDE DEF required
  <2>4. AkunGrows
    BY <1>1, <1>2, <2>2, <2>3, AkunChanges
  <2>5. akun'[e] = required
    BY <1>1, <2>2
  <2> QED BY <2>3, <2>4, <2>5 DEF HasTotp
<1>4. CASE RequireTotp(r)
  <2>1. ask[r].kind = "existing_staff" /\ akun[e].by # "nobody"
    BY <1>0, <1>4, AskRight DEF RequireTotp, At, Rightful
  <2>2. AskMoves(r, "member", "existing_staff", e)
    BY <1>0, <1>4, <2>1, AskStep DEF RequireTotp, AskPcs
  <2>3. AkunGrows /\ HasTotp(e)' /\ akun'[e].by = akun[e].by
    BY <1>4, <1>b DEF RequireTotp
  <2>4. Rightful("member", "existing_staff", e)'
    BY <2>1, <2>3 DEF Rightful
  <2> QED BY <1>a, <2>2, <2>3, <2>4
<1>5. CASE RequireFails(r)
  <2>1. AskMoves(r, "idle", "none", Anyone) /\ Rightful("idle", "none", Anyone)'
    BY <1>5, AskStep DEF RequireFails, GiveUp
  <2>2. AkunGrows
    <3>1. UNCHANGED akun => AkunGrows
      BY <1>2, AkunStays
    <3> QED BY <1>5, <1>b, <3>1 DEF RequireFails
  <2> QED BY <1>a, <2>1, <2>2
<1>6. CASE CreateOrganMember(r)
  <2> DEFINE new == [NoAkun EXCEPT !.by = "organ", !.enabled = TRUE, !.newPassword = TRUE, !.needsTotp = TRUE]
  <2>1. /\ akun' = [akun EXCEPT ![Of(r)] = new] /\ akun[Of(r)].by = "nobody"
        /\ ask' = [ask EXCEPT ![r].pc = "record", ![r].seen = Seen(new)]
    BY <1>6 DEF CreateOrganMember
  <2>2. new \in Akuns /\ new.by = "organ" /\ new.needsTotp = TRUE
    BY AkunTypes DEF NoAkun
  <2>3. Seen(new) \subseteq {"employee", "newPassword"} /\ "record" \in AskPcs
    BY DEF Seen, AskPcs
  <2> HIDE DEF new
  <2>4. AkunGrows /\ akun'[Of(r)].by = "organ"
    BY <1>1, <1>2, <2>1, <2>2, AkunMade
  <2>5. ask[r].kind = "organ_identity"
    BY <1>6, AskRight DEF CreateOrganMember, At, Rightful
  <2>6. AskMoves(r, "record", "organ_identity", ask[r].email)
    BY <1>1, <2>1, <2>3, <2>5 DEF AskMoves, Asks
  <2>7. akun'[ask[r].email].by = "organ"
    BY <2>4 DEF Of
  <2>8. \A x : akun'[x].by = "organ" => Rightful("record", "organ_identity", x)'
    BY DEF Rightful
  <2>9. ASSUME NEW x, x = ask[r].email PROVE MembersInv'
    BY <1>a, <2>4, <2>6, <2>7, <2>8, <2>9
  <2> QED BY <2>9
<1>7. CASE CreateStaff(r)
  <2>1. AskMoves(r, "idle", "none", Anyone) /\ Rightful("idle", "none", Anyone)' /\ akun[Of(r)].by = "nobody"
    BY <1>7, AskStep DEF CreateStaff
  <2>2. PICK on \in BOOLEAN : akun' = [akun EXCEPT ![Of(r)] = [StaffAkun EXCEPT !.enabled = on, !.newPassword = TRUE]]
    BY <1>7 DEF CreateStaff
  <2> DEFINE new == [StaffAkun EXCEPT !.enabled = on, !.newPassword = TRUE]
  <2>3. new \in Akuns /\ new.by = "staff"
    BY AkunTypes DEF Akuns
  <2> HIDE DEF new
  <2>4. AkunGrows
    BY <1>1, <1>2, <2>1, <2>2, <2>3, AkunMade DEF new
  <2> QED BY <1>a, <2>1, <2>4
<1>8. CASE LinkEmployee(r)
  <2> DEFINE new == [akun[Of(r)] EXCEPT !.employee = TRUE]
  <2>1. akun' = [akun EXCEPT ![Of(r)] = new]
    BY <1>8 DEF LinkEmployee
  <2>2. new \in Akuns /\ new.by = akun[Of(r)].by /\ new.totp = akun[Of(r)].totp /\ new.needsTotp = akun[Of(r)].needsTotp
    BY <1>1 DEF Akuns
  <2> HIDE DEF new
  <2>3. AkunGrows
    BY <1>1, <1>2, <2>1, <2>2, AkunChanges DEF HasTotp
  <2>4. AskMoves(r, "mark", ask[r].kind, Of(r))
    BY <1>8, AskStep DEF LinkEmployee, AskPcs
  <2>5. \A k, x : Rightful("mark", k, x)'
    BY DEF Rightful
  <2> QED BY <1>a, <2>3, <2>4, <2>5
<1> QED BY <1>4, <1>5, <1>6, <1>7, <1>8

\* A request writes what it has seen to.
LEMMA RecordSteps ==
    ASSUME MembersInv, NEW r \in Caller,
           \/ RecordProvision(r) \/ SendActivation(r) \/ CreateMember(r) \/ MarkExistingStaff(r)
           \/ \E a \in Application : GrantAccess(r, a)
    PROVE  MembersInv'
<1>1. /\ akun \in [Candidate -> Akuns] /\ Of(r) \in Candidate
      /\ mailed \subseteq Candidate /\ removed \subseteq Candidate /\ provisioned \subseteq Candidate
      /\ membership \in [Candidate -> Memberships] /\ ask \in [Caller -> Asks] /\ ask[r] \in Asks
  BY AskRight DEF MembersInv, MembersTypeOK
<1>2. UNCHANGED <<akun, removed, registry>>
  BY DEF RecordProvision, SendActivation, CreateMember, MarkExistingStaff, GrantAccess, accessVars
<1>3. AkunGrows
  BY <1>2, AkunStays
<1>4. access' = access => AccessTypeOK'
  BY <1>2 DEF AccessTypeOK, MembersInv, MembersTypeOK
<1>a. ASSUME AccessTypeOK', Owned', NEW pc, NEW kind, NEW e \in Candidate, AskMoves(r, pc, kind, e), Rightful(pc, kind, e),
             membership' \in [Candidate -> Memberships], mailed' \subseteq Candidate, provisioned' \subseteq Candidate
      PROVE  MembersInv'
  <2>1. Rightful(pc, kind, e)'
    BY <1>3, <1>a, RightfulStays
  <2> QED BY <1>1, <1>2, <1>3, <1>a, <2>1, MembersKept
<1>5. CASE RecordProvision(r)
  <2>1. ask[r].kind = "organ_identity" /\ akun[Of(r)].by = "organ"
    BY <1>5, AskRight DEF RecordProvision, At, Rightful
  <2>2. AskMoves(r, "mail", ask[r].kind, Of(r))
    <3>1. ask' = [ask EXCEPT ![r].pc = "mail"] /\ "mail" \in AskPcs
      BY <1>5 DEF RecordProvision, AskPcs
    <3> QED BY <1>1, <3>1 DEF AskMoves, Asks, Of
  <2>3. Rightful("mail", ask[r].kind, Of(r))
    BY <2>1 DEF Rightful
  <2>4. provisioned' = provisioned \cup {Of(r)} /\ UNCHANGED <<access, membership, mailed>>
    BY <1>5 DEF RecordProvision, accessVars
  <2>5. Owned'
    BY <1>1, <1>3, <2>1, <2>4, OwnedStays
  <2> QED BY <1>1, <1>4, <1>a, <2>2, <2>3, <2>4, <2>5
<1>6. CASE SendActivation(r)
  <2>1. ask[r].kind \in {"organ_identity", "resend"} /\ akun[Of(r)].by = "organ"
    BY <1>6, AskRight DEF SendActivation, At, Rightful
  <2>2. AskMoves(r, "member", ask[r].kind, Of(r))
    BY <1>6, AskStep DEF SendActivation, AskPcs
  <2>3. Rightful("member", ask[r].kind, Of(r))
    BY <2>1 DEF Rightful
  <2>4. mailed' \subseteq mailed \cup {Of(r)} /\ UNCHANGED <<access, membership, provisioned>>
    BY <1>6 DEF SendActivation, accessVars
  <2>5. Owned'
    BY <1>1, <1>3, <2>1, <2>4, OwnedStays
  <2> QED BY <1>1, <1>4, <1>a, <2>2, <2>3, <2>4, <2>5
<1>7. CASE CreateMember(r)
  <2>0. /\ ask[r].kind \in {"existing_staff", "organ_identity"} /\ akun[Of(r)].by # "nobody" /\ HasTotp(Of(r))
        /\ ask[r].kind = "organ_identity" => akun[Of(r)].by = "organ"
    BY <1>7, AskRight DEF CreateMember, At, Rightful, MembersInv, Owned
  <2>1. UNCHANGED <<access, provisioned, mailed>>
    BY <1>7 DEF CreateMember, accessVars
  <2>2. CASE membership[Of(r)].state = "active"
    <3>1. AskMoves(r, "idle", "none", Anyone) /\ UNCHANGED membership
      BY <1>7, <2>2, AskStep DEF CreateMember
    <3>2. Rightful("idle", "none", Anyone)
      BY DEF Rightful
    <3>3. Owned'
      BY <1>1, <1>3, <2>1, <3>1, OwnedStays
    <3> QED BY <1>1, <1>4, <1>a, <2>1, <3>1, <3>2, <3>3, AskRight
  <2>3. CASE membership[Of(r)].state # "active"
    <3> DEFINE new == [state |-> "active", path |-> ask[r].kind]
    <3>1. membership' = [membership EXCEPT ![Of(r)] = new] /\ AskMoves(r, "grants", ask[r].kind, Of(r))
      BY <1>7, <2>3, AskStep DEF CreateMember, AskPcs
    <3>2. Rightful("grants", ask[r].kind, Of(r))
      BY <2>0 DEF Rightful
    <3>3. new \in Memberships /\ new.path = ask[r].kind
      BY <2>0 DEF Memberships, States, Paths
    <3> HIDE DEF new
    <3>4. /\ membership' \in [Candidate -> Memberships] /\ membership'[Of(r)] = new
          /\ \A e \in Candidate \ {Of(r)} : membership'[e] = membership[e]
      BY <1>1, <3>1, <3>3
    <3>5. Owned'
      BY <1>1, <1>3, <2>0, <2>1, <3>3, <3>4, OwnedStays
    <3> QED BY <1>1, <1>4, <1>a, <2>1, <3>1, <3>2, <3>4, <3>5
  <2> QED BY <2>2, <2>3
<1>8. CASE MarkExistingStaff(r)
  <2>1. /\ UNCHANGED <<access, provisioned, mailed>>
        /\ membership' = [membership EXCEPT ![Of(r)].path = "existing_staff"]
        /\ AskMoves(r, "idle", "none", Anyone)
    BY <1>8, AskStep DEF MarkExistingStaff, accessVars
  <2>2. "existing_staff" \in Paths
    BY DEF Paths
  <2>3. /\ membership' \in [Candidate -> Memberships]
        /\ membership'[Of(r)].path = "existing_staff" /\ membership'[Of(r)].state = membership[Of(r)].state
        /\ \A e \in Candidate \ {Of(r)} : membership'[e] = membership[e]
    BY <1>1, <2>1, <2>2 DEF Memberships
  <2>4. Owned'
    BY <1>1, <1>3, <2>1, <2>3, OwnedStays
  <2>5. Rightful("idle", "none", Anyone)
    BY DEF Rightful
  <2> QED BY <1>1, <1>4, <1>a, <2>1, <2>3, <2>4, <2>5, AskRight
<1>9. ASSUME NEW a \in Application, GrantAccess(r, a) PROVE MembersInv'
  <2>1. UNCHANGED <<provisioned, membership, mailed>> /\ ask[r].pc = "grants"
    BY <1>9 DEF GrantAccess, At
  <2>2. ask' = [ask EXCEPT ![r].apps = @ \ {a}]
    BY <1>9 DEF GrantAccess
  <2>3. AskMoves(r, "grants", ask[r].kind, Of(r))
    BY <1>1, <2>1, <2>2 DEF AskMoves, Asks, Of
  <2>4. Rightful("grants", ask[r].kind, Of(r))
    BY <2>1, AskRight
  <2>5. Owned'
    BY <1>1, <1>3, <2>1, OwnedStays
  <2>6. AccessTypeOK'
    <3>1. access \in [Email -> [Application -> {"none", "active", "revoked"}]]
      BY DEF MembersInv, MembersTypeOK, AccessTypeOK
    <3>2. CASE access' = [access EXCEPT ![Of(r)][a] = "active"]
      <4>1. access' \in [Email -> [Application -> {"none", "active", "revoked"}]]
        BY <1>1, <3>1, <3>2, MembersAssumption
      <4> QED BY <1>2, <4>1 DEF AccessTypeOK, MembersInv, MembersTypeOK
    <3> QED BY <1>4, <1>9, <3>2 DEF GrantAccess, SetAccess
  <2> QED BY <1>1, <1>a, <2>1, <2>3, <2>4, <2>5, <2>6
<1> QED BY <1>5, <1>6, <1>7, <1>8, <1>9

\* A membership ends.
LEMMA EndSteps ==
    ASSUME MembersInv, NEW e \in Candidate, EndMembership(e) PROVE MembersInv'
<1>1. /\ akun \in [Candidate -> Akuns] /\ akun[e] \in Akuns
      /\ mailed \subseteq Candidate /\ removed \subseteq Candidate /\ provisioned \subseteq Candidate
      /\ membership \in [Candidate -> Memberships]
      /\ access \in [Email -> [Application -> {"none", "active", "revoked"}]]
  BY DEF MembersInv, MembersTypeOK, AccessTypeOK
<1>2. UNCHANGED <<registry, provisioned, ask, mailed, removed>>
  BY DEF EndMembership
<1>3. /\ membership' \in [Candidate -> Memberships]
      /\ \A o \in Candidate : membership'[o].path = membership[o].path
                              /\ (membership'[o].state = "active" => membership[o].state = "active")
  <2>1. CASE membership' = [membership EXCEPT ![e].state = "ended"]
    <3>1. "ended" \in States /\ "ended" # "active"
      BY DEF States
    <3> QED BY <1>1, <2>1, <3>1 DEF Memberships
  <2>2. CASE membership' = membership
    BY <1>1, <2>2
  <2> QED BY <2>1, <2>2 DEF EndMembership
<1>4. AkunGrows
  <2>1. CASE akun' = akun
    BY <1>2, <2>1, AkunStays
  <2>2. CASE akun' = [akun EXCEPT ![e].enabled = FALSE]
    <3> DEFINE new == [akun[e] EXCEPT !.enabled = FALSE]
    <3>1. akun' = [akun EXCEPT ![e] = new]
      BY <2>2
    <3>2. new \in Akuns /\ new.by = akun[e].by /\ new.totp = akun[e].totp /\ new.needsTotp = akun[e].needsTotp
      BY <1>1 DEF Akuns
    <3> HIDE DEF new
    <3> QED BY <1>2, <3>1, <3>2, AkunChanges DEF HasTotp
  <2> QED BY <2>1, <2>2 DEF EndMembership
<1>5. AccessTypeOK'
  <2>1. CASE access' = access
    BY <1>2, <2>1 DEF AccessTypeOK, MembersInv, MembersTypeOK
  <2>2. CASE access' = [access EXCEPT ![e] = [a \in Application |-> IF @[a] = "active" THEN "revoked" ELSE @[a]]]
    <3> DEFINE new == [a \in Application |-> IF access[e][a] = "active" THEN "revoked" ELSE access[e][a]]
    <3>1. access' = [access EXCEPT ![e] = new] /\ e \in Email
      BY <2>2, MembersAssumption
    <3>2. new \in [Application -> {"none", "active", "revoked"}]
      BY <1>1, <3>1
    <3> HIDE DEF new
    <3>3. access' \in [Email -> [Application -> {"none", "active", "revoked"}]]
      BY <1>1, <3>1, <3>2
    <3> QED BY <1>2, <3>3 DEF AccessTypeOK, MembersInv, MembersTypeOK
  <2> QED BY <2>1, <2>2 DEF EndMembership
<1>6. Owned'
  BY <1>1, <1>2, <1>3, <1>4, OwnedStays
<1> QED BY <1>1, <1>2, <1>3, <1>4, <1>5, <1>6, MembersKept

\* The inductive invariant holds at the start.
LEMMA MembersStart == AccessInit /\ MembersInit => MembersInv
<1> SUFFICES ASSUME AccessInit, MembersInit PROVE MembersInv
  OBVIOUS
<1>1. AccessTypeOK
  BY DEF AccessInit, AccessTypeOK
<1>2. [StaffAkun EXCEPT !.totp = TRUE, !.employee = FALSE] \in Akuns
      /\ [StaffAkun EXCEPT !.totp = TRUE, !.employee = FALSE].by = "staff"
  BY AkunTypes DEF Akuns
<1>3. akun \in [Candidate -> Akuns] /\ \A e \in Candidate : akun[e].by # "organ" /\ (akun[e].totp => akun[e].by # "nobody")
  <2>1. NoAkun.by = "nobody" /\ NoAkun.totp = FALSE
    BY DEF NoAkun
  <2> QED BY <1>2, <2>1, AkunTypes DEF MembersInit
<1>4. [NoMember EXCEPT !.state = "active"] \in Memberships /\ NoMember \in Memberships
      /\ [NoMember EXCEPT !.state = "active"].path = "existing_staff" /\ NoMember.path = "existing_staff"
  <2>1. NoMember \in Memberships /\ NoMember.path = "existing_staff" /\ "active" \in States
    BY DEF NoMember, Memberships, States, Paths
  <2> QED BY <2>1 DEF Memberships
<1>5. membership \in [Candidate -> Memberships] /\ \A e \in Candidate : membership[e].path = "existing_staff"
  BY <1>4 DEF MembersInit
<1>6. Owned
  BY <1>3, <1>5 DEF MembersInit, Owned, HasTotp
<1>7. ask \in [Caller -> Asks] /\ \A r \in Caller : ask[r].pc = "idle"
  BY AkunTypes DEF MembersInit, NoAsk
<1>8. \A r \in Caller : Rightful(ask[r].pc, ask[r].kind, ask[r].email)
  BY <1>7 DEF Rightful
<1> QED BY <1>1, <1>3, <1>5, <1>6, <1>7, <1>8 DEF MembersInit, MembersInv, MembersTypeOK

\* Every step keeps it.
LEMMA MembersStep ==
    ASSUME MembersInv, [MembersNext]_<<accessVars, membersVars>> PROVE MembersInv'
<1>1. CASE UNCHANGED <<accessVars, membersVars>>
  <2>1. AkunGrows
    BY <1>1, AkunStays DEF membersVars
  <2>2. Owned' /\ AccessTypeOK'
    BY <1>1 DEF membersVars, accessVars, MembersInv, MembersTypeOK, Owned, HasTotp, AccessTypeOK
  <2> QED BY <1>1, <2>1, <2>2, MembersKept DEF membersVars, MembersInv, MembersTypeOK
<1>2. ASSUME NEW r \in Caller, CallStep(r) PROVE MembersInv'
  BY <1>2, MemberReadSteps, KeycloakSteps, RecordSteps DEF CallStep
<1>3. ASSUME NEW r \in Caller, NEW e \in Candidate,
             \/ \E apps \in SUBSET Application : AddExistingStaff(r, e, apps) \/ AddNewIdentity(r, e, apps)
             \/ ResendActivation(r, e) \/ ProvisionStaff(r, e)
      PROVE  MembersInv'
  BY <1>3, BeginSteps
<1>4. ASSUME NEW e \in Candidate,
             EndMembership(e) \/ EnableStaff(e) \/ MakePassword(e) \/ SetUpTotp(e) \/ RemoveTotp(e)
      PROVE  MembersInv'
  BY <1>4, EndSteps, OwnerSteps
<1> QED BY <1>1, <1>2, <1>3, <1>4 DEF MembersNext

\* The inductive invariant of the members holds throughout.
THEOREM MembersInvariant == MembersSpec => []MembersInv
BY MembersStart, MembersStep, PTL DEF MembersSpec

\* Every variable of the members has its type.
THEOREM MembersTyped == MembersSpec => []MembersTypeOK
BY MembersInvariant, PTL DEF MembersInv

\* An active member of an organ has a second factor, must set one up, or took it off afterwards,
\* however the requests that made the member crossed, failed or were repeated.
THEOREM SecondFactorAsked == MembersSpec => []MembersNeedTotp
<1>1. MembersInv => MembersNeedTotp
  BY DEF MembersInv, Owned, HasTotp, MembersNeedTotp
<1> QED BY <1>1, MembersInvariant, PTL

\* Path B (an identity of the organ) sends mail for, and resumes, only an Akun SQ it made itself.
THEOREM PathBActsOnItsOwn == MembersSpec => []ActsOnItsOwn
<1>1. MembersInv => ActsOnItsOwn
  BY DEF MembersInv, Owned, ActsOnItsOwn
<1> QED BY <1>1, MembersInvariant, PTL

-----------------------------------------------------------------------------
(* The page of the own account. *)

\* A request somebody waits for.
Waited ==
    \A f \in Fetch :
        /\ fetch[f].heard => fetch[f].by \in Screen /\ fetch[f].pc # "free"
        /\ fetch[f].pc = "answered" => fetch[f].heard
        /\ fetch[f].pc = "read" => fetch[f].kind \in {"save", "end session", "revoke consent", "unlink"}
        /\ fetch[f].pc = "answered" /\ fetch[f].kind \notin Loads /\ fetch[f].told = "ok" =>
              fetch[f].made \in 1..account.count

\* What is under way once a page says that a change is done.
Fresh(s) ==
    /\ ~screen[s].crossed => \A f, g \in UnderWay(s) : f = g
    /\ screen[s].notice = "success" =>
          /\ screen[s].said \in 1..account.count
          /\ ~screen[s].crossed =>
                /\ \A f \in UnderWay(s) :
                      /\ fetch[f].kind \in Loads
                      /\ fetch[f].pc = "answered" /\ fetch[f].told = "ok" => fetch[f].body.of.count >= screen[s].said
                /\ screen[s].state = "ready" /\ screen[s].shown.from = "keycloak" /\ UnderWay(s) = {}
                      => screen[s].shown.of.count >= screen[s].said

\* The inductive invariant.
AccountInv == AccountTypeOK /\ Waited /\ \A s \in Screen : Fresh(s)

\* The records the module names have their types.
LEMMA AccountTypes ==
    /\ NewAccount \in Accounts /\ NoSnapshot \in Snapshots /\ NoScreen \in Screens /\ NoFetch \in Fetches
    /\ NoScreen.notice = "none" /\ NoScreen.crossed = FALSE /\ NoScreen.state = "closed"
    /\ NoFetch.pc = "free" /\ NoFetch.heard = FALSE /\ NoFetch.by = "nobody"
<1>1. 0 \in 0..MaxChanges /\ 0 \in Int
  <2>1. MaxChanges \in Nat
    BY AccountPageAssumption
  <2> QED BY <2>1
<1>2. NewAccount \in Accounts
  BY <1>1 DEF NewAccount, Accounts, Field, Thing
<1>3. NoSnapshot \in Snapshots
  BY <1>2 DEF NoSnapshot, Snapshots, Sources
<1>4. NoScreen \in Screens
  BY <1>1, <1>3 DEF NoScreen, Screens, ScreenStates, Notices
<1>5. NoFetch \in Fetches
  BY <1>1, <1>3 DEF NoFetch, Fetches, FetchPcs, FetchKinds, FetchAnswers
<1> QED BY <1>2, <1>3, <1>4, <1>5 DEF NoScreen, NoFetch

\* What the assumption says of numbers and sessions.
LEMMA AccountConstants == MaxChanges \in Nat /\ Names \subseteq Nat /\ Screen \subseteq Session
BY AccountPageAssumption, Zenon

\* What is changed elsewhere is one of what the module names.
LEMMA AccountOutside ==
    Outside \subseteq {"name", "email", "nip", "consent", "linked", "otp", "may edit", "session"}
BY AccountPageAssumption, Zenon

\* Changes are counted.
LEMMA CountsAreNumbers ==
    /\ \A a \in Accounts : a.count \in Nat /\ a.count <= MaxChanges
    /\ \A b \in Snapshots : b.of.count \in Nat
    /\ \A x \in Fetches : x.body.of.count \in Nat
<1>1. MaxChanges \in Nat
  BY AccountPageAssumption
<1>2. \A a \in Accounts : a.count \in Nat /\ a.count <= MaxChanges
  BY <1>1 DEF Accounts
<1>3. \A b \in Snapshots : b.of.count \in Nat
  BY <1>2 DEF Snapshots
<1> QED BY <1>2, <1>3 DEF Fetches

\* What the type invariant says of each value.
LEMMA AccountFacts ==
    ASSUME AccountInv
    PROVE  /\ account \in Accounts /\ account.count \in Nat /\ account.count <= MaxChanges
           /\ screen \in [Screen -> Screens] /\ fetch \in [Fetch -> Fetches]
           /\ \A s \in Screen : screen[s] \in Screens /\ screen[s].said \in Nat /\ screen[s].shown.of.count \in Nat
           /\ \A f \in Fetch : fetch[f] \in Fetches /\ fetch[f].made \in Nat /\ fetch[f].body.of.count \in Nat
<1>1. MaxChanges \in Nat
  BY AccountPageAssumption
<1>2. account \in Accounts /\ screen \in [Screen -> Screens] /\ fetch \in [Fetch -> Fetches]
  BY DEF AccountInv, AccountTypeOK
<1>3. \A a \in Accounts : a.count \in Nat /\ a.count <= MaxChanges
  BY <1>1 DEF Accounts
<1>4. \A s \in Screen : screen[s] \in Screens /\ screen[s].said \in Nat /\ screen[s].shown.of \in Accounts
  BY <1>1, <1>2 DEF Screens, Snapshots
<1>5. \A f \in Fetch : fetch[f] \in Fetches /\ fetch[f].made \in Nat /\ fetch[f].body.of \in Accounts
  BY <1>1, <1>2 DEF Fetches, Snapshots
<1> QED BY <1>2, <1>3, <1>4, <1>5

\* An account that is left alone is no older.
LEMMA SameAccount ==
    ASSUME AccountInv, account' = account PROVE account' \in Accounts /\ account'.count >= account.count
<1>1. account \in Accounts /\ account.count \in Nat
  BY AccountFacts
<1> QED BY <1>1

\* A longer range holds a shorter one.
LEMMA LongerRange == \A a, b \in Nat : a <= b => 1..a \subseteq 1..b
OBVIOUS

\* A page that does nothing itself stays as fresh as it was.
LEMMA FreshStays ==
    ASSUME AccountInv, NEW s \in Screen, screen'[s] = screen[s],
           account'.count \in Nat, account'.count >= account.count,
           \A f \in Fetch : f \in UnderWay(s)' <=> f \in UnderWay(s),
           \A f \in UnderWay(s) : \/ fetch'[f] = fetch[f]
                                  \/ /\ fetch'[f].kind = fetch[f].kind /\ fetch'[f].body.of.count \in Nat
                                     /\ fetch'[f].kind \in Loads /\ fetch'[f].pc = "answered" /\ fetch'[f].told = "ok" =>
                                           fetch'[f].body.of.count >= account.count
    PROVE  Fresh(s)'
<1>1. Fresh(s) /\ UnderWay(s)' = UnderWay(s) /\ UnderWay(s) \subseteq Fetch
  BY DEF AccountInv, UnderWay
<1>2. screen[s].notice = "success" => screen'[s].said \in 1..account'.count
  BY <1>1, AccountFacts DEF Fresh
<1>3. ASSUME screen[s].notice = "success", ~screen[s].crossed, NEW f \in UnderWay(s)
      PROVE  /\ fetch'[f].kind \in Loads
             /\ fetch'[f].pc = "answered" /\ fetch'[f].told = "ok" => fetch'[f].body.of.count >= screen[s].said
  <2>1. fetch[f].kind \in Loads /\ screen[s].said <= account.count
    BY <1>1, <1>3, AccountFacts DEF Fresh
  <2>2. CASE fetch'[f] = fetch[f]
    BY <1>1, <1>3, <2>2 DEF Fresh
  <2>3. CASE fetch'[f] # fetch[f]
    BY <2>1, <2>3, AccountFacts
  <2> QED BY <2>2, <2>3
<1> QED BY <1>1, <1>2, <1>3 DEF Fresh

\* A page starts a request.
LEMMA StartStep ==
    ASSUME AccountInv, NEW f \in Fetch, NEW s \in Screen, NEW kind \in FetchKinds,
           NEW target \in Session \cup {"none", "others", "consent"}, NEW value \in Int, NEW change \in Screens,
           StartFetch(f, s, kind, target, value, change),
           change.notice = "success" =>
               kind \in Loads /\ screen[s].notice = "success" /\ change.said = screen[s].said,
           account' \in Accounts, account'.count = account.count
    PROVE  AccountInv'
<1> DEFINE new == [NoFetch EXCEPT !.pc = "sent", !.by = s, !.heard = TRUE, !.kind = kind,
                                  !.target = target, !.value = value]
<1>1. PICK b \in BOOLEAN : b = (UnderWay(s) # {})
  <2>1. (UnderWay(s) # {}) \in BOOLEAN
    OBVIOUS
  <2> QED BY <2>1
<1> DEFINE shown == [change EXCEPT !.crossed = b]
<1>2. fetch[f].pc = "free" /\ fetch' = [fetch EXCEPT ![f] = new] /\ screen' = [screen EXCEPT ![s] = shown]
  BY <1>1 DEF StartFetch
<1>3. new \in Fetches /\ new.pc = "sent" /\ new.by = s /\ new.heard = TRUE /\ new.kind = kind
  BY AccountTypes DEF Fetches, FetchPcs
<1>4. shown \in Screens /\ shown.crossed = b /\ shown.notice = change.notice /\ shown.said = change.said
  BY DEF Screens
<1> HIDE DEF new, shown
<1>5. fetch' \in [Fetch -> Fetches] /\ fetch'[f] = new /\ \A g \in Fetch \ {f} : fetch'[g] = fetch[g]
  BY <1>2, <1>3, AccountFacts
<1>6. screen' \in [Screen -> Screens] /\ screen'[s] = shown /\ \A o \in Screen \ {s} : screen'[o] = screen[o]
  BY <1>2, <1>4, AccountFacts
<1>7. ~fetch[f].heard
  BY <1>2 DEF AccountInv, Waited
<1>8. \A o \in Screen \ {s} : \A g \in Fetch : g \in UnderWay(o)' <=> g \in UnderWay(o)
  BY <1>3, <1>5, <1>7 DEF UnderWay
<1>9. UnderWay(s)' = UnderWay(s) \cup {f} /\ f \notin UnderWay(s)
  BY <1>3, <1>5, <1>7 DEF UnderWay
<1>10. ASSUME NEW o \in Screen \ {s} PROVE Fresh(o)'
  <2>1. f \notin UnderWay(o) /\ UnderWay(o) \subseteq Fetch
    BY <1>7 DEF UnderWay
  <2> QED BY <1>5, <1>6, <1>8, <2>1, FreshStays, AccountFacts
<1>11. Fresh(s)'
  <2>1. ~b => UnderWay(s)' = {f}
    BY <1>1, <1>9
  <2>2. change.notice = "success" => change.said \in 1..account.count
    BY DEF AccountInv, Fresh
  <2>3. UnderWay(s)' # {}
    BY <1>9
  <2> QED BY <1>3, <1>4, <1>5, <1>6, <2>1, <2>2, <2>3 DEF Fresh
<1>12. Waited'
  <2>1. Waited
    BY DEF AccountInv
  <2>2. ASSUME NEW g \in Fetch
        PROVE  /\ fetch'[g].heard => fetch'[g].by \in Screen /\ fetch'[g].pc # "free"
               /\ fetch'[g].pc = "answered" => fetch'[g].heard
               /\ fetch'[g].pc = "read" => fetch'[g].kind \in {"save", "end session", "revoke consent", "unlink"}
               /\ fetch'[g].pc = "answered" /\ fetch'[g].kind \notin Loads /\ fetch'[g].told = "ok" =>
                     fetch'[g].made \in 1..account.count
    <3>1. CASE g = f
      BY <1>3, <1>5, <3>1
    <3>2. CASE g # f
      BY <1>5, <2>1, <3>2 DEF Waited
    <3> QED BY <3>1, <3>2
  <2> QED BY <2>2 DEF Waited
<1>13. \A o \in Screen : Fresh(o)'
  BY <1>10, <1>11
<1>14. AccountTypeOK'
  BY <1>5, <1>6 DEF AccountTypeOK
<1> QED BY <1>12, <1>13, <1>14 DEF AccountInv

\* The person types, or turns to another section.
LEMMA DraftStep ==
    ASSUME AccountInv, NEW s \in Screen, NEW d \in Int, screen' = [screen EXCEPT ![s].draft = d],
           UNCHANGED <<account, fetch>>
    PROVE  AccountInv'
<1>1. /\ screen' \in [Screen -> Screens]
      /\ screen'[s].state = screen[s].state /\ screen'[s].shown = screen[s].shown /\ screen'[s].notice = screen[s].notice
      /\ screen'[s].said = screen[s].said /\ screen'[s].crossed = screen[s].crossed
      /\ \A o \in Screen \ {s} : screen'[o] = screen[o]
  BY AccountFacts DEF Screens
<1>2. \A o \in Screen : UnderWay(o)' = UnderWay(o)
  BY DEF UnderWay
<1>3. \A o \in Screen : Fresh(o)'
  BY <1>1, <1>2 DEF AccountInv, Fresh
<1>4. Waited'
  BY DEF AccountInv, Waited
<1> QED BY <1>1, <1>3, <1>4 DEF AccountInv, AccountTypeOK

\* A page is left: nobody waits for its requests any more.
LEMMA LeaveStep ==
    ASSUME AccountInv, NEW s \in Screen, screen' = [screen EXCEPT ![s] = NoScreen], UNCHANGED account,
           fetch' \in [Fetch -> Fetches],
           \A f \in Fetch : \/ fetch'[f] = NoFetch /\ (fetch[f].by = s \/ ~fetch[f].heard)
                            \/ fetch[f].by # s /\ fetch'[f] = fetch[f]
                            \/ fetch[f].by = s /\ fetch[f].pc # "answered" /\ fetch'[f] = [fetch[f] EXCEPT !.heard = FALSE]
    PROVE  AccountInv'
<1>1. ASSUME NEW f \in Fetch
      PROVE  \/ fetch'[f] = fetch[f] /\ fetch[f].by # s
             \/ ~fetch'[f].heard /\ fetch'[f].pc # "answered" /\ (fetch[f].by = s \/ ~fetch[f].heard)
                /\ (fetch'[f].pc = "read" => fetch'[f].kind = fetch[f].kind /\ fetch[f].pc = "read")
  BY AccountTypes, AccountFacts DEF Fetches
<1>2. screen' \in [Screen -> Screens] /\ screen'[s] = NoScreen /\ \A o \in Screen \ {s} : screen'[o] = screen[o]
  BY AccountTypes, AccountFacts
<1>3. UnderWay(s)' = {}
  BY <1>1 DEF UnderWay
<1>4. ASSUME NEW o \in Screen \ {s} PROVE Fresh(o)'
  <2>1. ASSUME NEW f \in Fetch
        PROVE  /\ f \in UnderWay(o)' <=> f \in UnderWay(o)
               /\ f \in UnderWay(o) => fetch'[f] = fetch[f]
    BY <1>1, <1>4 DEF UnderWay
  <2>2. UnderWay(o) \subseteq Fetch
    BY DEF UnderWay
  <2> QED BY <1>2, <2>1, <2>2, FreshStays, AccountFacts
<1>5. Fresh(s)'
  BY <1>2, <1>3, AccountTypes DEF Fresh
<1>6. Waited'
  <2>1. Waited
    BY DEF AccountInv
  <2>2. ASSUME NEW f \in Fetch
        PROVE  /\ fetch'[f].heard => fetch'[f].by \in Screen /\ fetch'[f].pc # "free"
               /\ fetch'[f].pc = "answered" => fetch'[f].heard
               /\ fetch'[f].pc = "read" => fetch'[f].kind \in {"save", "end session", "revoke consent", "unlink"}
               /\ fetch'[f].pc = "answered" /\ fetch'[f].kind \notin Loads /\ fetch'[f].told = "ok" =>
                     fetch'[f].made \in 1..account.count
    <3>1. CASE fetch'[f] = fetch[f]
      BY <2>1, <3>1 DEF Waited
    <3>2. CASE fetch'[f] # fetch[f]
      BY <1>1, <2>1, <3>2 DEF Waited
    <3> QED BY <3>1, <3>2
  <2> QED BY <2>2 DEF Waited
<1>7. \A o \in Screen : Fresh(o)'
  BY <1>4, <1>5
<1>8. AccountTypeOK'
  BY <1>2 DEF AccountInv, AccountTypeOK
<1> QED BY <1>6, <1>7, <1>8 DEF AccountInv

\* SQ Hub and Keycloak take a request further.
LEMMA HubStep ==
    ASSUME AccountInv, NEW f \in Fetch, UNCHANGED screen, account' \in Accounts, account'.count >= account.count,
           fetch[f].pc # "free", NEW new \in Fetches, fetch' = [fetch EXCEPT ![f] = new],
           \/ new = NoFetch /\ ~fetch[f].heard
           \/ /\ new.by = fetch[f].by /\ new.heard = fetch[f].heard /\ new.kind = fetch[f].kind /\ new.pc # "free"
              /\ new.pc = "read" => new.kind \in {"save", "end session", "revoke consent", "unlink"}
              /\ new.pc = "answered" => new.heard
              /\ new.pc = "answered" /\ new.told = "ok" =>
                    IF new.kind \in Loads THEN new.body.of.count >= account.count ELSE new.made \in 1..account'.count
    PROVE  AccountInv'
<1>1. fetch' \in [Fetch -> Fetches] /\ fetch'[f] = new /\ \A g \in Fetch \ {f} : fetch'[g] = fetch[g]
  BY AccountFacts
<1>2. account'.count \in Nat
  BY CountsAreNumbers
<1>3. new.body.of.count \in Nat
  BY CountsAreNumbers
<1>4. ASSUME NEW s \in Screen PROVE Fresh(s)'
  <2>1. \A g \in Fetch : g \in UnderWay(s)' <=> g \in UnderWay(s)
    BY <1>1, AccountTypes DEF UnderWay
  <2>2. f \in UnderWay(s) => new # NoFetch \/ fetch[f].heard
    BY DEF UnderWay
  <2>3. \A g \in UnderWay(s) :
            \/ fetch'[g] = fetch[g]
            \/ /\ fetch'[g].kind = fetch[g].kind /\ fetch'[g].body.of.count \in Nat
               /\ fetch'[g].kind \in Loads /\ fetch'[g].pc = "answered" /\ fetch'[g].told = "ok" =>
                     fetch'[g].body.of.count >= account.count
    BY <1>1, <1>3 DEF UnderWay
  <2> QED BY <1>2, <2>1, <2>3, FreshStays
<1>5. Waited'
  <2>1. \A g \in Fetch \ {f} : fetch[g].made \in 1..account.count => fetch[g].made \in 1..account'.count
    <3>1. account.count \in Nat /\ account.count <= account'.count
      BY AccountFacts
    <3>2. 1..account.count \subseteq 1..account'.count
      BY <1>2, <3>1, LongerRange
    <3> QED BY <3>2
  <2> QED BY <1>1, <2>1, AccountTypes DEF AccountInv, Waited
<1> QED BY <1>1, <1>4, <1>5 DEF AccountInv, AccountTypeOK

\* An answer of SQ Hub reaches a page, or nobody.
LEMMA AnswerSteps ==
    ASSUME AccountInv, NEW f \in Fetch,
           NEW what \in FetchAnswers, NEW body \in Snapshots, NEW made \in 0..MaxChanges, Tell(f, what, body, made),
           UNCHANGED screen, account' \in Accounts, account'.count >= account.count, fetch[f].pc # "free",
           what = "ok" => IF fetch[f].kind \in Loads THEN body.of.count >= account.count ELSE made \in 1..account'.count
    PROVE  AccountInv'
<1>1. CASE ~fetch[f].heard
  <2>1. fetch' = [fetch EXCEPT ![f] = NoFetch]
    BY <1>1 DEF Tell
  <2> QED BY <1>1, <2>1, AccountTypes, HubStep
<1>2. CASE fetch[f].heard
  <2> DEFINE new == [fetch[f] EXCEPT !.pc = "answered", !.told = what, !.body = body, !.made = made]
  <2>1. fetch' = [fetch EXCEPT ![f] = new]
    BY <1>2 DEF Tell
  <2>2. /\ new \in Fetches /\ new.by = fetch[f].by /\ new.heard = fetch[f].heard /\ new.kind = fetch[f].kind
        /\ new.pc = "answered" /\ new.told = what /\ new.body = body /\ new.made = made
    BY AccountFacts DEF Fetches, FetchPcs
  <2> HIDE DEF new
  <2> QED BY <1>2, <2>1, <2>2, HubStep
<1> QED BY <1>1, <1>2

\* An answer that says neither success nor an account.
LEMMA ToldStep ==
    ASSUME AccountInv, NEW f \in Fetch, NEW what \in FetchAnswers \ {"ok"}, Told(f, what), fetch[f].pc # "free"
    PROVE  AccountInv'
<1>1. Tell(f, what, NoSnapshot, 0) /\ UNCHANGED <<account, screen>> /\ 0 \in 0..MaxChanges
  <2>1. MaxChanges \in Nat
    BY AccountPageAssumption
  <2> QED BY <2>1 DEF Told
<1>2. account' \in Accounts /\ account'.count >= account.count
  BY <1>1, AccountFacts
<1> QED BY <1>1, <1>2, AccountTypes, AnswerSteps

\* An answer with the account as it is.
LEMMA SnapshotStep ==
    ASSUME AccountInv, NEW f \in Fetch, NEW from \in Sources, fetch[f].kind \in Loads, fetch[f].pc # "free",
           Tell(f, "ok", [from |-> from, of |-> account], 0), UNCHANGED <<account, screen>>
    PROVE  AccountInv'
<1> DEFINE body == [from |-> from, of |-> account]
<1>1. body \in Snapshots /\ body.of.count = account.count
  BY AccountFacts DEF Snapshots
<1>2. 0 \in 0..MaxChanges
  <2>1. MaxChanges \in Nat
    BY AccountPageAssumption
  <2> QED BY <2>1
<1>3. "ok" \in FetchAnswers
  BY DEF FetchAnswers
<1>4. Tell(f, "ok", body, 0)
  OBVIOUS
<1> HIDE DEF body
<1>5. account' \in Accounts /\ account'.count >= account.count /\ body.of.count >= account.count
  BY <1>1, AccountFacts
<1> QED BY <1>1, <1>2, <1>3, <1>4, <1>5, AnswerSteps

\* A request goes on.
LEMMA FurtherStep ==
    ASSUME AccountInv, NEW f \in Fetch, NEW pc \in {"token", "read"}, fetch' = [fetch EXCEPT ![f].pc = pc],
           fetch[f].pc # "free", UNCHANGED <<account, screen>>,
           pc = "read" => fetch[f].kind \in {"save", "end session", "revoke consent", "unlink"}
    PROVE  AccountInv'
<1> DEFINE new == [fetch[f] EXCEPT !.pc = pc]
<1>1. fetch' = [fetch EXCEPT ![f] = new]
  OBVIOUS
<1>2. new \in Fetches /\ new.by = fetch[f].by /\ new.heard = fetch[f].heard /\ new.kind = fetch[f].kind /\ new.pc = pc
  BY AccountFacts DEF Fetches, FetchPcs
<1> HIDE DEF new
<1>3. account' \in Accounts /\ account'.count >= account.count
  BY SameAccount
<1> QED BY <1>1, <1>2, <1>3, HubStep

\* A page reads an answer, or learns that none will come: what is under way for it then.
LEMMA EndLeaves ==
    ASSUME AccountInv, NEW f \in Fetch, NEW s \in Screen, s = fetch[f].by, fetch[f].heard,
           NEW r \in Fetches, fetch' = [fetch EXCEPT ![f] = r]
    PROVE  UnderWay(s)' \subseteq UnderWay(s)
<1>1. fetch'[f] = r /\ \A g \in Fetch \ {f} : fetch'[g] = fetch[g]
  BY AccountFacts
<1>2. f \in UnderWay(s)
  BY DEF UnderWay
<1> QED BY <1>1, <1>2 DEF UnderWay

\* A request that ends leaves none, unless a change was pressed while another was unanswered.
LEMMA EndGone ==
    ASSUME AccountInv, NEW f \in Fetch, NEW s \in Screen, s = fetch[f].by, fetch[f].heard,
           NEW r \in Fetches, fetch' = [fetch EXCEPT ![f] = r], ~r.heard
    PROVE  ~screen[s].crossed => UnderWay(s)' = {}
<1>1. UnderWay(s)' = UnderWay(s) \ {f}
  BY AccountFacts DEF UnderWay
<1>2. ~screen[s].crossed => UnderWay(s) = {f}
  <2>1. f \in UnderWay(s)
    BY DEF UnderWay
  <2> QED BY <2>1 DEF AccountInv, Fresh
<1> QED BY <1>1, <1>2

\* One that starts another in its place leaves that one alone.
LEMMA EndKept ==
    ASSUME AccountInv, NEW f \in Fetch, NEW s \in Screen, s = fetch[f].by, fetch[f].heard,
           NEW r \in Fetches, fetch' = [fetch EXCEPT ![f] = r], r.heard = TRUE, r.by = s
    PROVE  fetch'[f] = r /\ (~screen[s].crossed => UnderWay(s)' = {f})
<1>1. fetch'[f] = r /\ UnderWay(s)' = UnderWay(s)
  BY AccountFacts DEF UnderWay
<1>2. ~screen[s].crossed => UnderWay(s) = {f}
  <2>1. f \in UnderWay(s)
    BY DEF UnderWay
  <2> QED BY <2>1 DEF AccountInv, Fresh
<1> QED BY <1>1, <1>2

\* A page that ends a request stays right if what it says is.
LEMMA EndStep ==
    ASSUME AccountInv, NEW f \in Fetch, NEW s \in Screen, s = fetch[f].by, fetch[f].heard, UNCHANGED account,
           NEW new \in Screens, screen' = [screen EXCEPT ![s] = new],
           NEW r \in Fetches, fetch' = [fetch EXCEPT ![f] = r], ~r.heard \/ (r.heard /\ r.by = s),
           r.pc # "answered", r.pc = "read" => r.kind = fetch[f].kind /\ fetch[f].pc = "read",
           r.heard => r.pc # "free",
           Fresh(s)'
    PROVE  AccountInv'
<1>1. fetch' \in [Fetch -> Fetches] /\ fetch'[f] = r /\ \A g \in Fetch \ {f} : fetch'[g] = fetch[g]
  BY AccountFacts
<1>2. screen' \in [Screen -> Screens] /\ screen'[s] = new /\ \A o \in Screen \ {s} : screen'[o] = screen[o]
  BY AccountFacts
<1>3. ASSUME NEW o \in Screen \ {s} PROVE Fresh(o)'
  <2>1. ASSUME NEW g \in Fetch
        PROVE  /\ g \in UnderWay(o)' <=> g \in UnderWay(o)
               /\ g \in UnderWay(o) => fetch'[g] = fetch[g]
    BY <1>1, <1>3 DEF UnderWay
  <2>2. UnderWay(o) \subseteq Fetch
    BY DEF UnderWay
  <2> QED BY <1>2, <2>1, <2>2, FreshStays, SameAccount, AccountFacts
<1>4. Waited'
  <2>1. ASSUME NEW g \in Fetch \ {f}
        PROVE  /\ fetch'[g].heard => fetch'[g].by \in Screen /\ fetch'[g].pc # "free"
               /\ fetch'[g].pc = "answered" => fetch'[g].heard
               /\ fetch'[g].pc = "read" => fetch'[g].kind \in {"save", "end session", "revoke consent", "unlink"}
               /\ fetch'[g].pc = "answered" /\ fetch'[g].kind \notin Loads /\ fetch'[g].told = "ok" =>
                     fetch'[g].made \in 1..account'.count
    BY <1>1 DEF AccountInv, Waited
  <2>2. /\ r.heard => r.by \in Screen /\ r.pc # "free"
        /\ r.pc = "read" => r.kind \in {"save", "end session", "revoke consent", "unlink"}
    BY DEF AccountInv, Waited
  <2> QED BY <1>1, <2>1, <2>2 DEF Waited
<1> QED BY <1>1, <1>2, <1>3, <1>4 DEF AccountInv, AccountTypeOK

\* The page says that it was not done, or says nothing.
LEMMA FreshUnsaid ==
    ASSUME NEW s \in Screen, Fresh(s), screen'[s].crossed = screen[s].crossed, UnderWay(s)' \subseteq UnderWay(s),
           screen'[s].notice # "success"
    PROVE  Fresh(s)'
BY DEF Fresh

\* It loads the account, or could not.
LEMMA FreshLoaded ==
    ASSUME NEW s \in Screen, Fresh(s), screen'[s].crossed = screen[s].crossed, account' = account,
           ~screen[s].crossed => UnderWay(s)' = {},
           screen'[s].notice = screen[s].notice, screen'[s].said = screen[s].said,
           screen'[s].state # "ready" \/
               (screen[s].notice = "success" /\ ~screen[s].crossed => screen'[s].shown.of.count >= screen'[s].said)
    PROVE  Fresh(s)'
BY DEF Fresh

\* It says that it was done, and loads the account.
LEMMA FreshSaid ==
    ASSUME NEW s \in Screen, NEW f \in Fetch, screen'[s].crossed = screen[s].crossed, account' = account,
           ~screen[s].crossed => UnderWay(s)' = {f},
           screen'[s].said \in 1..account.count, fetch'[f].kind = "quiet load", fetch'[f].pc = "sent"
    PROVE  Fresh(s)'
BY DEF Fresh, Loads

\* A request nobody waits for any more.
LEMMA FreeFetch ==
    ASSUME AccountInv, NEW f \in Fetch
    PROVE  /\ Alone(fetch[f]) \in Fetches /\ ~Alone(fetch[f]).heard /\ Alone(fetch[f]).pc # "answered"
           /\ \/ Alone(fetch[f]) = NoFetch
              \/ fetch[f].pc # "answered" /\ Alone(fetch[f]) = [fetch[f] EXCEPT !.heard = FALSE]
           /\ Alone(fetch[f]).pc = "read" => Alone(fetch[f]).kind = fetch[f].kind /\ fetch[f].pc = "read"
<1>1. [fetch[f] EXCEPT !.heard = FALSE] \in Fetches
  BY AccountFacts DEF Fetches
<1> QED BY <1>1, AccountTypes, AccountFacts DEF Alone, Fetches

\* A page is left.
LEMMA LeftStep ==
    ASSUME AccountInv, NEW s \in Screen, screen' = [screen EXCEPT ![s] = NoScreen], UNCHANGED account,
           \/ fetch' = Left(s)
           \/ \E f \in Fetch : fetch[f].by = s /\ fetch' = [Left(s) EXCEPT ![f] = NoFetch]
    PROVE  AccountInv'
<1>1. Left(s) \in [Fetch -> Fetches] /\ \A g \in Fetch : Left(s)[g] = IF fetch[g].by = s THEN Alone(fetch[g]) ELSE fetch[g]
  BY FreeFetch, AccountFacts DEF Left
<1>2. /\ fetch' \in [Fetch -> Fetches]
      /\ \A g \in Fetch : fetch'[g] = Left(s)[g] \/ (fetch'[g] = NoFetch /\ fetch[g].by = s)
  <2>1. CASE fetch' = Left(s)
    BY <1>1, <2>1
  <2>2. ASSUME NEW f \in Fetch, fetch[f].by = s, fetch' = [Left(s) EXCEPT ![f] = NoFetch]
        PROVE  /\ fetch' \in [Fetch -> Fetches]
               /\ \A g \in Fetch : fetch'[g] = Left(s)[g] \/ (fetch'[g] = NoFetch /\ fetch[g].by = s)
    BY <1>1, <2>2, AccountTypes
  <2> QED BY <2>1, <2>2
<1>3. \A f \in Fetch : \/ fetch'[f] = NoFetch /\ (fetch[f].by = s \/ ~fetch[f].heard)
                       \/ fetch[f].by # s /\ fetch'[f] = fetch[f]
                       \/ fetch[f].by = s /\ fetch[f].pc # "answered" /\ fetch'[f] = [fetch[f] EXCEPT !.heard = FALSE]
  BY <1>1, <1>2, FreeFetch
<1> QED BY <1>2, <1>3, LeaveStep

\* A page reads an answer, or learns that none will come.
LEMMA PageReadSteps ==
    ASSUME AccountInv, NEW f \in Fetch, ReadSnapshot(f) \/ ReadMutation(f) \/ ConnectionLost(f)
    PROVE  AccountInv'
<1>1. PICK s : s = fetch[f].by
  OBVIOUS
<1>2. /\ s \in Screen /\ fetch[f].heard /\ UNCHANGED account /\ fetch[f] \in Fetches /\ screen[s] \in Screens
      /\ Fresh(s) /\ f \in UnderWay(s)
  <2>1. fetch[f].heard
    BY DEF ReadSnapshot, ReadMutation, ConnectionLost, AccountInv, Waited
  <2>2. s \in Screen
    BY <1>1, <2>1 DEF AccountInv, Waited
  <2> QED BY <1>1, <2>1, <2>2, AccountFacts DEF ReadSnapshot, ReadMutation, ConnectionLost, AccountInv, UnderWay
<1>3. CASE ReadSnapshot(f)
  <2>1. CASE screen' = [screen EXCEPT ![s] = NoScreen] /\ fetch' = [Left(s) EXCEPT ![f] = NoFetch]
    BY <1>1, <1>2, <2>1, LeftStep
  <2>2. CASE /\ fetch[f].pc = "answered" /\ fetch[f].kind \in Loads /\ fetch[f].told = "ok"
             /\ screen' = [screen EXCEPT ![s].state = "ready", ![s].shown = fetch[f].body,
                                          ![s].draft = fetch[f].body.of.profile["name"]]
             /\ Ends(f)
    <3>1. PICK d \in Int : d = fetch[f].body.of.profile["name"]
      <4>1. fetch[f].body.of.profile \in [Field -> Int]
        BY <1>2 DEF Fetches, Snapshots, Accounts
      <4>2. "name" \in Field
        BY DEF Field
      <4> QED BY <4>1, <4>2
    <3>2. PICK b \in Snapshots : b = fetch[f].body
      BY <1>2 DEF Fetches
    <3> DEFINE new == [screen[s] EXCEPT !.state = "ready", !.shown = b, !.draft = d]
    <3>3. screen' = [screen EXCEPT ![s] = new]
      BY <2>2, <3>1, <3>2, AccountFacts
    <3>4. /\ new \in Screens /\ new.crossed = screen[s].crossed /\ new.notice = screen[s].notice
          /\ new.said = screen[s].said /\ new.shown = b
      BY <1>2 DEF Screens, ScreenStates
    <3> HIDE DEF new
    <3>5. screen[s].notice = "success" /\ ~screen[s].crossed => new.shown.of.count >= new.said
      BY <1>2, <2>2, <3>2, <3>4 DEF Fresh
    <3>6. fetch' = [fetch EXCEPT ![f] = NoFetch]
      BY <2>2 DEF Ends
    <3>7. screen'[s] = new
      BY <1>2, <3>3, AccountFacts
    <3>8. ~screen[s].crossed => UnderWay(s)' = {}
      BY <1>1, <1>2, <3>6, AccountTypes, EndGone
    <3>9. Fresh(s)'
      BY <1>2, <3>4, <3>5, <3>7, <3>8, FreshLoaded
    <3> QED BY <1>1, <1>2, <3>3, <3>4, <3>6, <3>9, AccountTypes, EndStep
  <2> QED BY <1>1, <1>3, <2>1, <2>2 DEF ReadSnapshot
<1>4. CASE ReadMutation(f)
  <2>1. CASE screen' = [screen EXCEPT ![s] = NoScreen] /\ fetch' = [Left(s) EXCEPT ![f] = NoFetch]
    BY <1>1, <1>2, <2>1, LeftStep
  <2>2. CASE screen' = [screen EXCEPT ![s].notice = "error"] /\ Ends(f)
    <3> DEFINE new == [screen[s] EXCEPT !.notice = "error"]
    <3>1. screen' = [screen EXCEPT ![s] = new] /\ fetch' = [fetch EXCEPT ![f] = NoFetch]
      BY <2>2 DEF Ends
    <3>2. new \in Screens /\ new.crossed = screen[s].crossed /\ new.notice = "error"
      BY <1>2 DEF Screens, Notices
    <3> HIDE DEF new
    <3>3. screen'[s] = new
      BY <1>2, <3>1, AccountFacts
    <3>4. UnderWay(s)' \subseteq UnderWay(s)
      BY <1>1, <1>2, <3>1, AccountTypes, EndLeaves
    <3>5. Fresh(s)'
      BY <1>2, <3>2, <3>3, <3>4, FreshUnsaid
    <3> QED BY <1>1, <1>2, <3>1, <3>2, <3>5, AccountTypes, EndStep
  <2>3. CASE /\ fetch[f].pc = "answered" /\ fetch[f].kind \notin Loads /\ fetch[f].told = "ok"
             /\ screen' = [screen EXCEPT ![s].notice = "success", ![s].said = fetch[f].made]
             /\ LoadAgain(f, s)
    <3>1. PICK n \in 1..account.count : n = fetch[f].made
      BY <2>3 DEF AccountInv, Waited
    <3>2. n \in 0..MaxChanges
      <4>1. account.count \in Nat /\ account.count <= MaxChanges /\ MaxChanges \in Nat
        BY AccountFacts, AccountPageAssumption
      <4> QED BY <4>1
    <3> DEFINE new == [screen[s] EXCEPT !.notice = "success", !.said = n]
               r == [NoFetch EXCEPT !.pc = "sent", !.by = s, !.heard = TRUE, !.kind = "quiet load"]
    <3>3. screen' = [screen EXCEPT ![s] = new] /\ fetch' = [fetch EXCEPT ![f] = r]
      BY <2>3, <3>1, AccountFacts DEF LoadAgain
    <3>4. new \in Screens /\ new.crossed = screen[s].crossed /\ new.notice = "success" /\ new.said = n
      BY <1>2, <3>2 DEF Screens, Notices
    <3>5. r \in Fetches /\ r.pc = "sent" /\ r.by = s /\ r.heard = TRUE /\ r.kind = "quiet load"
      BY <1>2, AccountTypes DEF Fetches, FetchPcs, FetchKinds, Loads
    <3> HIDE DEF new, r
    <3>6. screen'[s] = new
      BY <1>2, <3>3, AccountFacts
    <3>7. fetch'[f] = r /\ (~screen[s].crossed => UnderWay(s)' = {f})
      BY <1>1, <1>2, <3>3, <3>5, EndKept
    <3>8. Fresh(s)'
      BY <1>2, <3>1, <3>4, <3>5, <3>6, <3>7, FreshSaid
    <3> QED BY <1>1, <1>2, <3>3, <3>4, <3>5, <3>8, EndStep
  <2> QED BY <1>1, <1>4, <2>1, <2>2, <2>3 DEF ReadMutation
<1>5. CASE ConnectionLost(f)
  <2> DEFINE r == Alone(fetch[f])
  <2>1. fetch' = [fetch EXCEPT ![f] = r]
    BY <1>5, AccountFacts DEF ConnectionLost
  <2>2. r \in Fetches /\ ~r.heard /\ r.pc # "answered" /\ (r.pc = "read" => r.kind = fetch[f].kind /\ fetch[f].pc = "read")
    BY FreeFetch
  <2> HIDE DEF r
  <2>3. CASE screen' = [screen EXCEPT ![s].state = "error"]
    <3> DEFINE new == [screen[s] EXCEPT !.state = "error"]
    <3>1. screen' = [screen EXCEPT ![s] = new]
      BY <2>3
    <3>2. /\ new \in Screens /\ new.crossed = screen[s].crossed /\ new.state = "error"
          /\ new.notice = screen[s].notice /\ new.said = screen[s].said
      BY <1>2 DEF Screens, ScreenStates
    <3> HIDE DEF new
    <3>3. screen'[s] = new
      BY <1>2, <3>1, AccountFacts
    <3>4. ~screen[s].crossed => UnderWay(s)' = {}
      BY <1>1, <1>2, <2>1, <2>2, EndGone
    <3>5. Fresh(s)'
      BY <1>2, <3>2, <3>3, <3>4, FreshLoaded
    <3> QED BY <1>1, <1>2, <2>1, <2>2, <3>1, <3>2, <3>5, EndStep
  <2>4. CASE screen' = [screen EXCEPT ![s].notice = "error"]
    <3> DEFINE new == [screen[s] EXCEPT !.notice = "error"]
    <3>1. screen' = [screen EXCEPT ![s] = new]
      BY <2>4
    <3>2. new \in Screens /\ new.crossed = screen[s].crossed /\ new.notice = "error"
      BY <1>2 DEF Screens, Notices
    <3> HIDE DEF new
    <3>3. screen'[s] = new
      BY <1>2, <3>1, AccountFacts
    <3>4. UnderWay(s)' \subseteq UnderWay(s)
      BY <1>1, <1>2, <2>1, <2>2, EndLeaves
    <3>5. Fresh(s)'
      BY <1>2, <3>2, <3>3, <3>4, FreshUnsaid
    <3> QED BY <1>1, <1>2, <2>1, <2>2, <3>1, <3>2, <3>5, EndStep
  <2> QED BY <1>1, <1>5, <2>3, <2>4 DEF ConnectionLost
<1> QED BY <1>3, <1>4, <1>5

\* What a page does but to start a request.
LEMMA PageOnlySteps ==
    ASSUME AccountInv, NEW s \in Screen,
           \/ ChangeSection(s) \/ CancelEdit(s) \/ SignInAgain(s) \/ ToCredentials(s)
           \/ \E v \in Names : EditName(s, v)
    PROVE  AccountInv'
<1>1. screen[s] \in Screens
  BY AccountFacts
<1>2. CASE ChangeSection(s) \/ CancelEdit(s)
  <2>1. PICK d \in Int : d = OnScreen(s).profile["name"]
    <3>1. OnScreen(s).profile \in [Field -> Int]
      BY <1>1 DEF OnScreen, Screens, Snapshots, Accounts
    <3>2. "name" \in Field
      BY DEF Field
    <3> QED BY <3>1, <3>2
  <2>2. screen' = [screen EXCEPT ![s].draft = d] /\ UNCHANGED <<account, fetch>>
    BY <1>2, <2>1 DEF ChangeSection, CancelEdit
  <2> QED BY <2>2, DraftStep
<1>3. CASE SignInAgain(s) \/ ToCredentials(s)
  BY <1>3, LeftStep DEF SignInAgain, ToCredentials, ToKeycloak
<1>4. ASSUME NEW v \in Names, EditName(s, v) PROVE AccountInv'
  <2>1. v \in Int
    BY AccountConstants
  <2> QED BY <1>4, <2>1, DraftStep DEF EditName
<1> QED BY <1>2, <1>3, <1>4

\* Every press that changes the account at Keycloak.
LEMMA MutateStep ==
    ASSUME AccountInv, NEW f \in Fetch, NEW s \in Screen, NEW kind \in FetchKinds,
           NEW target \in Session \cup {"none", "others", "consent"}, NEW value \in Int,
           Mutate(f, s, kind, target, value)
    PROVE  AccountInv'
<1> DEFINE new == [screen[s] EXCEPT !.notice = "working", !.said = 0]
<1>1. screen[s] \in Screens /\ 0 \in 0..MaxChanges
  <2>1. MaxChanges \in Nat
    BY AccountPageAssumption
  <2> QED BY <2>1, AccountFacts
<1>2. new \in Screens /\ new.notice = "working"
  BY <1>1 DEF Screens, Notices
<1>3. StartFetch(f, s, kind, target, value, new) /\ UNCHANGED account
  BY DEF Mutate
<1> HIDE DEF new
<1> QED BY <1>2, <1>3, StartStep, AccountFacts

\* The buttons that change the account.
LEMMA PressSteps ==
    ASSUME AccountInv, NEW f \in Fetch, NEW s \in Screen,
           \/ SubmitProfile(f, s) \/ PressUpdateEmail(f, s)
           \/ PressSetUp(f, s) \/ PressRemove(f, s)
           \/ \E t \in Session : EndSession(f, s, t)
           \/ EndOthers(f, s) \/ RevokeConsent(f, s)
           \/ Unlink(f, s) \/ PressLink(f, s)
    PROVE  AccountInv'
<1>1. \E kind \in FetchKinds, target \in Session \cup {"none", "others", "consent"}, value \in Int :
          Mutate(f, s, kind, target, value)
  <2>1. /\ "save" \in FetchKinds /\ "update email" \in FetchKinds /\ "set up otp" \in FetchKinds
        /\ "remove otp" \in FetchKinds /\ "end session" \in FetchKinds /\ "end others" \in FetchKinds
        /\ "revoke consent" \in FetchKinds /\ "unlink" \in FetchKinds /\ "link" \in FetchKinds /\ 0 \in Int
    BY DEF FetchKinds, Actions
  <2>2. screen[s].draft \in Int
    BY AccountFacts DEF Screens
  <2>3. CASE SubmitProfile(f, s)
    BY <2>1, <2>2, <2>3 DEF SubmitProfile
  <2>4. CASE \E t \in Session : EndSession(f, s, t)
    BY <2>1, <2>4, Zenon DEF EndSession
  <2>5. CASE \/ PressUpdateEmail(f, s) \/ PressSetUp(f, s) \/ PressRemove(f, s)
    BY <2>1, <2>5, Zenon DEF PressUpdateEmail, PressSetUp, PressRemove
  <2>6. CASE EndOthers(f, s) \/ RevokeConsent(f, s) \/ Unlink(f, s) \/ PressLink(f, s)
    BY <2>1, <2>6, Zenon DEF EndOthers, RevokeConsent, Unlink, PressLink
  <2> QED BY <2>3, <2>4, <2>5, <2>6
<1> QED BY <1>1, MutateStep

\* A page is opened, or tried again.
LEMMA OpenSteps ==
    ASSUME AccountInv, NEW f \in Fetch, NEW s \in Screen, OpenAccount(f, s) \/ TryAgain(f, s)
    PROVE  AccountInv'
<1>1. "load" \in FetchKinds /\ "load" \in Loads /\ 0 \in Int
  BY DEF FetchKinds, Loads
<1>2. CASE OpenAccount(f, s)
  <2> DEFINE new == [NoScreen EXCEPT !.state = "loading"]
  <2>1. new \in Screens /\ new.notice = "none"
    BY AccountTypes DEF Screens, ScreenStates
  <2>2. StartFetch(f, s, "load", "none", 0, new)
    BY <1>2 DEF OpenAccount
  <2>3. account' \in Accounts /\ account'.count = account.count
    <3>1. s \in Session
      BY AccountPageAssumption
    <3> QED BY <1>2, <3>1, AccountFacts DEF OpenAccount, Accounts
  <2> HIDE DEF new
  <2> QED BY <1>1, <2>1, <2>2, <2>3, StartStep
<1>3. CASE TryAgain(f, s)
  <2> DEFINE new == [screen[s] EXCEPT !.state = "loading"]
  <2>1. new \in Screens /\ new.notice = screen[s].notice /\ new.said = screen[s].said
    BY AccountFacts DEF Screens, ScreenStates
  <2>2. StartFetch(f, s, "load", "none", 0, new) /\ UNCHANGED account
    BY <1>3 DEF TryAgain
  <2> HIDE DEF new
  <2> QED BY <1>1, <2>1, <2>2, StartStep, AccountFacts
<1> QED BY <1>2, <1>3

\* What SQ Hub and Keycloak answer without a change.
LEMMA AnsweredSteps ==
    ASSUME AccountInv, NEW f \in Fetch,
           \/ NoHubSession(f) \/ MustSignInAgain(f) \/ KeycloakFails(f) \/ Snapshot(f)
    PROVE  AccountInv'
<1>1. {"keycloak", "sign in again", "unavailable"} \subseteq Sources /\ {"login", "error"} \subseteq FetchAnswers \ {"ok"}
  BY DEF Sources, FetchAnswers
<1>2. fetch[f].pc # "free"
  BY DEF NoHubSession, MustSignInAgain, KeycloakFails, Snapshot
<1>3. \/ \E what \in {"login", "error"} : Told(f, what)
      \/ /\ fetch[f].kind \in Loads
         /\ \E from \in {"keycloak", "sign in again", "unavailable"} : Fallback(f, from)
  BY DEF NoHubSession, MustSignInAgain, KeycloakFails, Snapshot, Fallback
<1>4. CASE \E what \in {"login", "error"} : Told(f, what)
  BY <1>1, <1>2, <1>4, ToldStep
<1>5. ASSUME fetch[f].kind \in Loads, NEW from \in {"keycloak", "sign in again", "unavailable"}, Fallback(f, from)
      PROVE  AccountInv'
  BY <1>1, <1>2, <1>5, SnapshotStep DEF Fallback
<1> QED BY <1>3, <1>4, <1>5

\* The read before a change.
LEMMA FirstReadStep ==
    ASSUME AccountInv, NEW f \in Fetch, NEW kind, NEW there, FirstRead(f, kind, there),
           kind \in Actions \cup {"save", "end session", "revoke consent", "unlink"}
    PROVE  AccountInv'
<1>1. {"error", "url"} \subseteq FetchAnswers \ {"ok"}
  BY DEF FetchAnswers
<1>2. fetch[f].pc = "token" /\ fetch[f].kind = kind
  BY DEF FirstRead
<1>3. CASE \E what \in {"error", "url"} : Told(f, what)
  BY <1>1, <1>2, <1>3, ToldStep
<1>4. CASE kind \notin Actions /\ fetch' = [fetch EXCEPT ![f].pc = "read"] /\ UNCHANGED <<account, screen>>
  BY <1>2, <1>4, FurtherStep
<1> QED BY <1>3, <1>4 DEF FirstRead

\* All of them.
LEMMA FirstReadSteps ==
    ASSUME AccountInv, NEW f \in Fetch,
           \/ UpdateProfile(f) \/ ProfileAction(f) \/ DeleteSession(f) \/ DeleteConsent(f)
           \/ DeleteLinkedAccount(f) \/ LinkAccount(f) \/ CredentialAction(f) \/ DeleteCredential(f)
    PROVE  AccountInv'
BY FirstReadStep DEF UpdateProfile, ProfileAction, DeleteSession, DeleteConsent, DeleteLinkedAccount, LinkAccount,
                     CredentialAction, DeleteCredential, Actions

\* What Keycloak carries out leaves an account.
LEMMA CarriedIsAccount ==
    ASSUME AccountInv, NEW f \in Fetch,
           fetch[f].kind \in {"save", "end session", "end others", "revoke consent", "unlink"},
           fetch[f].by \in Session
    PROVE  Carried(f) \in Accounts /\ Carried(f).count = account.count
<1>1. account \in Accounts /\ fetch[f].value \in Int
  BY AccountFacts DEF Fetches
<1>2. Merged(f) \in [Field -> Int]
  BY <1>1 DEF Merged, Accounts
<1>3. CASE fetch[f].kind = "save"
  BY <1>1, <1>2, <1>3 DEF Carried, Accounts
<1>4. CASE fetch[f].kind = "end session"
  BY <1>1, <1>4 DEF Carried, Accounts
<1>5. CASE fetch[f].kind = "end others"
  BY <1>1, <1>5 DEF Carried, Accounts
<1>6. CASE fetch[f].kind = "revoke consent"
  BY <1>1, <1>6 DEF Carried, Accounts
<1>7. CASE fetch[f].kind = "unlink"
  BY <1>1, <1>7 DEF Carried, Accounts
<1> QED BY <1>3, <1>4, <1>5, <1>6, <1>7

\* One more change of an account.
LEMMA OneChangeMore ==
    ASSUME AccountInv, account.count < MaxChanges, NEW a \in Accounts
    PROVE  /\ [a EXCEPT !.count = account.count + 1] \in Accounts
           /\ [a EXCEPT !.count = account.count + 1].count = account.count + 1
           /\ account.count + 1 \in 0..MaxChanges /\ account.count + 1 \in 1..(account.count + 1)
           /\ account.count + 1 >= account.count
<1>1. MaxChanges \in Nat /\ account.count \in Nat
  BY AccountPageAssumption, AccountFacts
<1>2. /\ account.count + 1 \in 0..MaxChanges /\ account.count + 1 \in 1..(account.count + 1)
      /\ account.count + 1 >= account.count
  BY <1>1
<1> QED BY <1>2 DEF Accounts

\* Keycloak carries a change out.
LEMMA CarrySteps ==
    ASSUME AccountInv, NEW f \in Fetch, NEW answer \in {"ok", "error"}, Carry(f, answer)
    PROVE  AccountInv'
<1>1. fetch[f].kind \in {"save", "end session", "end others", "revoke consent", "unlink"} /\ fetch[f].kind \notin Loads
  BY DEF Carry, AccountInv, Waited
<1>2. fetch[f].by \in Session /\ fetch[f].pc # "free" /\ account.count < MaxChanges
  BY AccountConstants, AccountFacts DEF Carry, AtKeycloak, Accounts
<1>3. PICK a \in Accounts : a = Carried(f) /\ a.count = account.count
  BY <1>1, <1>2, CarriedIsAccount
<1>4. /\ account' \in Accounts /\ account'.count = account.count + 1 /\ account'.count >= account.count
      /\ account.count + 1 \in 0..MaxChanges /\ account.count + 1 \in 1..account'.count
  <2>1. account' = [a EXCEPT !.count = account.count + 1]
    BY <1>3 DEF Carry
  <2> QED BY <1>2, <2>1, OneChangeMore
<1>5. Tell(f, answer, NoSnapshot, account.count + 1) /\ UNCHANGED screen
  BY DEF Carry
<1>6. answer \in FetchAnswers
  BY DEF FetchAnswers
<1> QED BY <1>1, <1>2, <1>4, <1>5, <1>6, AccountTypes, AnswerSteps

\* What changes the account elsewhere.
LEMMA ElsewhereStep ==
    ASSUME AccountInv, Elsewhere
    PROVE  AccountInv'
<1>0. PICK x \in Outside : \E a \in ChangedElsewhere(x) : account' = [a EXCEPT !.count = account.count + 1]
  BY DEF Elsewhere
<1>1. PICK a \in ChangedElsewhere(x) : account' = [a EXCEPT !.count = account.count + 1]
  BY <1>0
<1>2. a \in Accounts
  <2>1. account \in Accounts
    BY AccountFacts
  <2>2. CASE x \in Field
    <3>1. PICK p \in [Field -> Int] : p = account.profile
      BY <2>1 DEF Accounts
    <3>2. PICK v \in Int : v = 1 - p[x]
      BY <2>2
    <3>3. a = [account EXCEPT !.profile = [p EXCEPT ![x] = v]]
      <4>1. ChangedElsewhere(x) = {[account EXCEPT !.profile[x] = 1 - @]}
        BY <2>2 DEF ChangedElsewhere, Field, Thing
      <4>2. [account EXCEPT !.profile[x] = 1 - @]
               = [account EXCEPT !.profile = [account.profile EXCEPT ![x] = 1 - account.profile[x]]]
        OBVIOUS
      <4> QED BY <1>1, <3>1, <3>2, <4>1, <4>2
    <3>4. [p EXCEPT ![x] = v] \in [Field -> Int]
      OBVIOUS
    <3> QED BY <2>1, <3>3, <3>4 DEF Accounts
  <2>3. CASE x \in Thing
    <3>1. a = [account EXCEPT !.has = (account.has \ {x}) \cup ({x} \ account.has)]
      BY <1>1, <2>1, <2>3 DEF ChangedElsewhere, Field, Thing, Accounts
    <3> QED BY <2>1, <2>3, <3>1 DEF Accounts
  <2>4. CASE x = "may edit"
    <3>1. a = [account EXCEPT !.open = ~account.open]
      BY <1>1, <2>1, <2>4 DEF ChangedElsewhere, Field, Thing, Accounts
    <3> QED BY <2>1, <3>1 DEF Accounts
  <2>5. CASE x = "session"
    <3>1. \E t \in account.sessions : a = [account EXCEPT !.sessions = account.sessions \ {t}]
      BY <1>1, <2>1, <2>5 DEF ChangedElsewhere, Field, Thing, Accounts
    <3> QED BY <2>1, <3>1 DEF Accounts
  <2>6. x \in Field \/ x \in Thing \/ x = "may edit" \/ x = "session"
    BY AccountOutside DEF Field, Thing
  <2> QED BY <2>2, <2>3, <2>4, <2>5, <2>6
<1>3. account' \in Accounts /\ account'.count \in Nat /\ account'.count >= account.count
  BY <1>1, <1>2, OneChangeMore, CountsAreNumbers DEF Elsewhere
<1>4. UNCHANGED <<screen, fetch>>
  BY DEF Elsewhere
<1>5. ASSUME NEW s \in Screen PROVE Fresh(s)'
  <2>1. UnderWay(s)' = UnderWay(s)
    BY <1>4 DEF UnderWay
  <2> QED BY <1>3, <1>4, <2>1, FreshStays
<1>6. Waited'
  <2>1. account.count \in Nat /\ account.count <= account'.count
    BY <1>3, AccountFacts
  <2>2. 1..account.count \subseteq 1..account'.count
    BY <1>3, <2>1, LongerRange
  <2> QED BY <1>4, <2>2 DEF AccountInv, Waited
<1> QED BY <1>3, <1>4, <1>5, <1>6 DEF AccountInv, AccountTypeOK

\* The inductive invariant holds at the start.
LEMMA AccountStarts == AccountInit => AccountInv
<1> SUFFICES ASSUME AccountInit PROVE AccountInv
  OBVIOUS
<1>1. AccountTypeOK
  BY AccountTypes DEF AccountInit, AccountTypeOK
<1>2. Waited
  BY AccountTypes DEF AccountInit, Waited
<1>3. \A s \in Screen : Fresh(s)
  BY AccountTypes DEF AccountInit, Fresh, UnderWay
<1> QED BY <1>1, <1>2, <1>3 DEF AccountInv

\* Every step keeps it.
LEMMA AccountKept == AccountInv /\ [AccountNext]_accountVars => AccountInv'
<1> SUFFICES ASSUME AccountInv, [AccountNext]_accountVars PROVE AccountInv'
  OBVIOUS
<1>1. CASE PageStep
  <2>1. PICK s \in Screen :
          \/ ChangeSection(s) \/ (\E v \in Names : EditName(s, v)) \/ CancelEdit(s) \/ SignInAgain(s) \/ ToCredentials(s)
          \/ \E f \in Fetch : OpenAccount(f, s) \/ TryAgain(f, s)
          \/ \E f \in Fetch :
                \/ SubmitProfile(f, s) \/ PressUpdateEmail(f, s)
                \/ PressSetUp(f, s) \/ PressRemove(f, s)
                \/ \E t \in Session : EndSession(f, s, t)
                \/ EndOthers(f, s) \/ RevokeConsent(f, s)
                \/ Unlink(f, s) \/ PressLink(f, s)
    BY <1>1, Zenon DEF PageStep
  <2> QED BY <2>1, PageOnlySteps, OpenSteps, PressSteps
<1>2. CASE FetchStep
  <2>1. PICK f \in Fetch :
          \/ NoHubSession(f) \/ MustSignInAgain(f) \/ KeycloakFails(f) \/ Snapshot(f)
          \/ AccountAccess(f)
          \/ UpdateProfile(f) \/ ProfileAction(f) \/ DeleteSession(f) \/ DeleteConsent(f)
             \/ DeleteLinkedAccount(f) \/ LinkAccount(f) \/ CredentialAction(f) \/ DeleteCredential(f)
          \/ \E answer \in {"ok", "error"} : Carry(f, answer)
          \/ ReadSnapshot(f) \/ ReadMutation(f) \/ ConnectionLost(f)
    BY <1>2, Zenon DEF FetchStep
  <2>2. CASE AccountAccess(f)
    BY <2>2, FurtherStep DEF AccountAccess
  <2> QED BY <2>1, <2>2, AnsweredSteps, FirstReadSteps, CarrySteps, PageReadSteps
<1>3. CASE Elsewhere
  BY <1>3, ElsewhereStep
<1>4. CASE UNCHANGED accountVars
  <2>1. UNCHANGED <<account, screen, fetch>>
    BY <1>4 DEF accountVars
  <2>2. \A s \in Screen : Fresh(s)'
    BY <2>1 DEF AccountInv, Fresh, UnderWay
  <2> QED BY <2>1, <2>2 DEF AccountInv, AccountTypeOK, Waited
<1> QED BY <1>1, <1>2, <1>3, <1>4 DEF AccountNext

\* The inductive invariant of the account page holds throughout.
THEOREM AccountInvariant == AccountSpec => []AccountInv
BY AccountStarts, AccountKept, PTL DEF AccountSpec

\* Every variable of the account page has its type.
THEOREM AccountTyped == AccountSpec => []AccountTypeOK
<1>1. AccountInv => AccountTypeOK
  BY DEF AccountInv
<1> QED BY <1>1, AccountInvariant, PTL

\* Success is said only of a change Keycloak carried out, and once it is said and nothing is under way
\* the page shows the account as it was after that change or later.
THEOREM SaidIsShown == AccountSpec => []SaidAndShown
<1>1. AccountInv => SaidAndShown
  BY DEF AccountInv, Fresh, SaidAndShown
<1> QED BY <1>1, AccountInvariant, PTL

-----------------------------------------------------------------------------
(* The page of the memberships. *)

\* A run whose component is still mounted is of the membership that is shown, and an end is
\* of the membership whose steps were shown.
RunIs(a) ==
    /\ action[a].mounted => action[a].of = organPage.detail.of
    /\ action[a].kind = "end" => action[a].shown = action[a].of

\* The details are of one membership.
OfOne(page) ==
    /\ page.detail.preview \in {NoPerson, page.detail.of}
    /\ page.detail.steps \in {NoPerson, page.detail.of}
    /\ page.detail.confirmed => page.detail.preview # NoPerson

\* The inductive invariant.
OrganPageInv ==
    /\ OrganPageTypeOK /\ OfOne(organPage)
    /\ \A a \in Action : RunIs(a)

\* The types of what is empty.
LEMMA OrganPageConstants ==
    /\ NoPerson \notin Person /\ OrganOnly \subseteq Person
    /\ NoDetail \in Details /\ NoDetail.preview = NoPerson /\ NoDetail.steps = NoPerson /\ ~NoDetail.confirmed
    /\ NewPage \in OrganPages /\ OfOne(NewPage)
    /\ NoAction \in ActionRuns /\ NoAction.kind = "none" /\ ~NoAction.mounted
<1>1. NoPerson \notin Person /\ OrganOnly \subseteq Person
  BY OrganPageAssumption DEF OrganPageAssumption
<1>2. NoDetail \in Details /\ NoDetail.preview = NoPerson /\ NoDetail.steps = NoPerson /\ ~NoDetail.confirmed
  BY DEF NoDetail, Details, PersonOrNone
<1>3. NewPage \in OrganPages /\ NewPage.detail = NoDetail
  BY <1>2 DEF NewPage, OrganPages, PersonOrNone
<1>4. NoAction \in ActionRuns /\ NoAction.kind = "none" /\ ~NoAction.mounted
  BY DEF NoAction, ActionRuns, PersonOrNone
<1> QED BY <1>1, <1>2, <1>3, <1>4 DEF OfOne

\* What the type invariant says of each value.
LEMMA OrganPageFacts ==
    ASSUME OrganPageTypeOK
    PROVE  /\ organPage \in OrganPages /\ organPage.detail \in Details
           /\ organPage.detail.of \in PersonOrNone /\ organPage.detail.preview \in PersonOrNone
           /\ organPage.detail.steps \in PersonOrNone /\ organPage.detail.confirmed \in BOOLEAN
           /\ organPage.staff \subseteq Person /\ organPage.list \subseteq Person /\ organPage.chosen \in PersonOrNone
           /\ \A a \in Action :
                 /\ action[a] \in ActionRuns /\ action[a].of \in PersonOrNone /\ action[a].shown \in PersonOrNone
                 /\ action[a].mounted \in BOOLEAN /\ action[a].body \subseteq Person
                 /\ action[a].kind \in {"none", "load", "search", "add", "open", "change", "preview", "end", "resend"}
BY DEF OrganPageTypeOK, OrganPages, Details, ActionRuns

\* A run that moves, with the page, so that what is shown stays of one membership.
LEMMA RunMoves ==
    ASSUME OrganPageInv, NEW a \in Action, NEW r \in ActionRuns, NEW page \in OrganPages,
           memberOf' \in [Person -> {"none", "active", "ended"}],
           action' = [action EXCEPT ![a] = r], organPage' = page,
           page.detail.of = organPage.detail.of, OfOne(page),
           r.mounted => r.of = organPage.detail.of,
           r.kind = "end" => r.shown = r.of
    PROVE  OrganPageInv'
<1>1. /\ OrganPageTypeOK /\ \A b \in Action : RunIs(b)
  BY DEF OrganPageInv
<1>2. action'[a] = r /\ \A b \in Action \ {a} : action'[b] = action[b]
  BY <1>1 DEF OrganPageTypeOK
<1>3. OrganPageTypeOK'
  BY <1>1 DEF OrganPageTypeOK
<1>4. ASSUME NEW b \in Action PROVE RunIs(b)'
  BY <1>1, <1>2 DEF RunIs
<1>5. OfOne(organPage)'
  BY DEF OfOne
<1> QED BY <1>3, <1>4, <1>5 DEF OrganPageInv

\* A run begins.
LEMMA SendStep ==
    ASSUME OrganPageInv, NEW a \in Action, NEW page \in OrganPages, NEW person \in PersonOrNone,
           NEW kind \in {"load", "search", "add", "open", "change", "preview", "end", "resend"},
           Send(a, kind, person, page), page.detail = organPage.detail,
           kind \in {"preview", "end", "resend"} => person = organPage.detail.of,
           kind = "end" => organPage.detail.preview = person
    PROVE  OrganPageInv'
<1>1. OrganPageTypeOK /\ OfOne(organPage)
  BY DEF OrganPageInv
<1> DEFINE shown == IF kind = "end" THEN organPage.detail.preview ELSE NoPerson
           mounted == kind \in {"preview", "end", "resend"}
           r == [NoAction EXCEPT !.pc = "sent", !.kind = kind, !.of = person, !.shown = shown, !.mounted = mounted]
<1>2. shown \in PersonOrNone /\ mounted \in BOOLEAN
  BY <1>1, OrganPageFacts DEF PersonOrNone
<1>3. action' = [action EXCEPT ![a] = r] /\ organPage' = page /\ UNCHANGED memberOf
  BY DEF Send
<1>4. kind = "end" => shown = person
  OBVIOUS
<1>5. mounted => person = organPage.detail.of
  OBVIOUS
<1> HIDE DEF shown, mounted
<1>7. r \in ActionRuns /\ r.mounted = mounted /\ r.of = person /\ r.kind = kind /\ r.shown = shown
  BY <1>2, OrganPageConstants DEF ActionRuns
<1> HIDE DEF r
<1>8. memberOf' \in [Person -> {"none", "active", "ended"}]
  BY <1>1, <1>3 DEF OrganPageTypeOK
<1>9. OfOne(page)
  BY <1>1 DEF OfOne
<1> QED BY <1>3, <1>4, <1>5, <1>7, <1>8, <1>9, RunMoves

\* Every run the page begins is one of those.
LEMMA OperationBegins ==
    ASSUME OrganPageInv, NEW a \in Action,
           \/ OpenList(a) \/ SearchStaff(a) \/ \E p \in Person : Submit(a, p) \/ OpenDetail(a, p)
           \/ Change(a) \/ LoadPreview(a) \/ PressEnd(a) \/ Resend(a)
    PROVE  OrganPageInv'
<1>1. OrganPageTypeOK /\ OfOne(organPage)
  BY DEF OrganPageInv
<1> DEFINE busy == [organPage EXCEPT !.busy = TRUE]
<1>2. busy \in OrganPages /\ busy.detail = organPage.detail
  BY <1>1, OrganPageFacts DEF OrganPages
<1>3. organPage \in OrganPages /\ organPage.detail.of \in PersonOrNone
  BY <1>1, OrganPageFacts
<1>4. CASE OpenList(a)
  BY <1>3, <1>4, SendStep DEF OpenList, PersonOrNone
<1>5. CASE SearchStaff(a)
  BY <1>2, <1>5, SendStep DEF SearchStaff, RunAction, PersonOrNone
<1>6. ASSUME NEW p \in Person, Submit(a, p) PROVE OrganPageInv'
  BY <1>2, <1>6, SendStep DEF Submit, RunAction, PersonOrNone
<1>7. ASSUME NEW p \in Person, OpenDetail(a, p) PROVE OrganPageInv'
  BY <1>2, <1>7, SendStep DEF OpenDetail, RunAction, PersonOrNone
<1>8. CASE Change(a)
  BY <1>2, <1>3, <1>8, SendStep DEF Change, RunAction
<1>9. CASE LoadPreview(a)
  BY <1>2, <1>3, <1>9, SendStep DEF LoadPreview, RunAction
<1>10. CASE PressEnd(a)
  <2>1. organPage.detail.preview = organPage.detail.of
    BY <1>1, <1>10 DEF PressEnd, OfOne
  <2> QED BY <2>1, <1>2, <1>3, <1>10, SendStep DEF PressEnd, RunAction
<1>11. CASE Resend(a)
  BY <1>2, <1>3, <1>11, SendStep DEF Resend, RunAction
<1> QED BY <1>4, <1>5, <1>6, <1>7, <1>8, <1>9, <1>10, <1>11

\* SQ Hub carries out a request, or reads for it.
LEMMA ServeSteps ==
    ASSUME OrganPageInv, NEW a \in Action, Serve(a) \/ ServeDetail(a) \/ ServeList(a)
    PROVE  OrganPageInv'
<1>1. OrganPageTypeOK /\ OfOne(organPage) /\ \A b \in Action : RunIs(b)
  BY DEF OrganPageInv
<1>2. ASSUME NEW pc \in {"answered", "refreshed", "listed"}, NEW body \in SUBSET Person, Answer(a, pc, body),
             UNCHANGED organPage, memberOf' \in [Person -> {"none", "active", "ended"}]
      PROVE  OrganPageInv'
  <2> DEFINE r == [action[a] EXCEPT !.pc = pc, !.body = body]
  <2>1. r \in ActionRuns /\ r.mounted = action[a].mounted /\ r.of = action[a].of /\ r.kind = action[a].kind
        /\ r.shown = action[a].shown
    BY <1>1, OrganPageFacts DEF ActionRuns
  <2>2. action' = [action EXCEPT ![a] = r]
    BY <1>1, <1>2 DEF Answer, OrganPageTypeOK, ActionRuns
  <2> HIDE DEF r
  <2> QED BY <1>1, <1>2, <2>1, <2>2, RunMoves, OrganPageFacts DEF RunIs
<1>3. CASE Serve(a)
  <2>1. memberOf' \in [Person -> {"none", "active", "ended"}] /\ UNCHANGED organPage
    <3>1. memberOf \in [Person -> {"none", "active", "ended"}]
      BY <1>1 DEF OrganPageTypeOK
    <3>2. \/ UNCHANGED memberOf
          \/ memberOf' = [memberOf EXCEPT ![action[a].of] = "active"]
          \/ memberOf' = [memberOf EXCEPT ![action[a].of] = "ended"]
      BY <1>3 DEF Serve
    <3> QED BY <3>1, <3>2, <1>3 DEF Serve
  <2>2. PICK body \in IF action[a].kind = "search" THEN SUBSET (Person \ OrganOnly)
                       ELSE {IF action[a].kind = "load" THEN Members ELSE Members \cap {action[a].of}} :
             Answer(a, "answered", body)
    BY <1>3 DEF Serve
  <2>3. body \in SUBSET Person
    BY <2>2 DEF Members
  <2> QED BY <1>2, <2>1, <2>2, <2>3
<1>4. CASE ServeDetail(a)
  BY <1>1, <1>2, <1>4 DEF ServeDetail, Members, OrganPageTypeOK
<1>5. CASE ServeList(a)
  BY <1>1, <1>2, <1>5 DEF ServeList, Members, OrganPageTypeOK
<1> QED BY <1>3, <1>4, <1>5

\* A run ends, and the page holds what it brought.
LEMMA FinishStep ==
    ASSUME OrganPageInv, NEW a \in Action, NEW page \in OrganPages, Finish(a, page),
           page.detail.of = organPage.detail.of, OfOne(page)
    PROVE  OrganPageInv'
<1> DEFINE still == [page EXCEPT !.busy = FALSE]
<1>1. still \in OrganPages /\ still.detail = page.detail
  BY DEF OrganPages
<1>2. memberOf' \in [Person -> {"none", "active", "ended"}]
  BY DEF Finish, OrganPageInv, OrganPageTypeOK
<1>3. action' = [action EXCEPT ![a] = NoAction] /\ organPage' = still
  BY DEF Finish
<1> HIDE DEF still
<1> QED BY <1>1, <1>2, <1>3, RunMoves, OrganPageConstants DEF OfOne

\* A run goes on with another request.
LEMMA GoesStep ==
    ASSUME OrganPageInv, NEW a \in Action, NEW page \in OrganPages, NEW pc \in {"refresh", "list"}, Goes(a, pc, page),
           page.detail.of = organPage.detail.of, OfOne(page)
    PROVE  OrganPageInv'
<1>1. OrganPageTypeOK /\ RunIs(a)
  BY DEF OrganPageInv
<1> DEFINE r == [action[a] EXCEPT !.pc = pc, !.body = {}, !.mounted = FALSE]
<1>2. r \in ActionRuns /\ ~r.mounted /\ r.of = action[a].of /\ r.kind = action[a].kind /\ r.shown = action[a].shown
  BY <1>1, OrganPageFacts DEF ActionRuns
<1>3. action' = [action EXCEPT ![a] = r]
  BY <1>1 DEF Goes, OrganPageTypeOK, ActionRuns
<1> HIDE DEF r
<1>4. memberOf' \in [Person -> {"none", "active", "ended"}] /\ organPage' = page
  BY <1>1 DEF Goes, OrganPageTypeOK
<1> QED BY <1>1, <1>2, <1>3, <1>4, RunMoves DEF RunIs

\* What the component of a run sets, it sets for the membership it stands for.
LEMMA OwnIs ==
    ASSUME OrganPageInv, NEW a \in Action, NEW page \in OrganPages,
           action[a].mounted => page.detail.of = organPage.detail.of /\ OfOne(page)
    PROVE  Own(a, page) \in OrganPages /\ Own(a, page).detail.of = organPage.detail.of /\ OfOne(Own(a, page))
<1>1. organPage \in OrganPages /\ OfOne(organPage)
  BY OrganPageFacts DEF OrganPageInv
<1>2. CASE action[a].mounted
  <2>1. Own(a, page) = page
    BY <1>2 DEF Own
  <2> QED BY <2>1, <1>2
<1>3. CASE ~action[a].mounted
  <2>1. Own(a, page) = organPage
    BY <1>3 DEF Own
  <2> QED BY <2>1, <1>1
<1> QED BY <1>2, <1>3

\* The answers, but for the details.
LEMMA ReadSteps ==
    ASSUME OrganPageInv, NEW a \in Action,
           \/ ReadList(a) \/ ReadStaff(a) \/ ReadAdded(a) \/ ReadPreview(a) \/ ReadResent(a) \/ ReadChanged(a)
           \/ Failed(a)
    PROVE  OrganPageInv'
<1>1. /\ OrganPageTypeOK /\ OfOne(organPage) /\ RunIs(a)
      /\ organPage \in OrganPages /\ organPage.detail \in Details /\ action[a].of \in PersonOrNone
      /\ action[a].body \subseteq Person
  BY OrganPageFacts DEF OrganPageInv
<1> DEFINE list == [organPage EXCEPT !.list = action[a].body, !.loaded = TRUE]
           staff == [organPage EXCEPT !.staff = action[a].body, !.chosen = NoPerson]
           preview == [organPage EXCEPT !.detail.preview = action[a].of]
           steps == [organPage EXCEPT !.detail.steps = action[a].of]
<1>2. list \in OrganPages /\ list.detail = organPage.detail /\ staff \in OrganPages /\ staff.detail = organPage.detail
  BY <1>1 DEF OrganPages, PersonOrNone
<1>3. OfOne(list) /\ OfOne(staff)
  BY <1>1, <1>2 DEF OfOne
<1>4. /\ preview \in OrganPages /\ preview.detail.of = organPage.detail.of /\ preview.detail.preview = action[a].of
      /\ preview.detail.steps = organPage.detail.steps /\ preview.detail.confirmed = organPage.detail.confirmed
  BY <1>1 DEF OrganPages, Details
<1>5. /\ steps \in OrganPages /\ steps.detail.of = organPage.detail.of /\ steps.detail.steps = action[a].of
      /\ steps.detail.preview = organPage.detail.preview /\ steps.detail.confirmed = organPage.detail.confirmed
  BY <1>1 DEF OrganPages, Details
<1> HIDE DEF list, staff, preview, steps
<1>6. action[a].mounted => /\ preview.detail.of = organPage.detail.of /\ steps.detail.of = organPage.detail.of
                           /\ OfOne(steps)
  BY <1>1, <1>4, <1>5 DEF RunIs, OfOne
<1>7. CASE ReadList(a)
  <2>1. CASE action[a].pc = "answered" /\ action' = [action EXCEPT ![a] = NoAction] /\ organPage' = list /\ UNCHANGED memberOf
    <3>1. memberOf' \in [Person -> {"none", "active", "ended"}]
      BY <1>1, <2>1 DEF OrganPageTypeOK
    <3> QED BY <2>1, <3>1, <1>2, <1>3, RunMoves, OrganPageConstants
  <2>2. CASE Finish(a, list)
    BY <2>2, <1>2, <1>3, FinishStep
  <2> QED BY <2>1, <2>2, <1>7 DEF ReadList, list
<1>8. CASE ReadStaff(a)
  <2>1. Finish(a, staff)
    BY <1>8 DEF ReadStaff, staff
  <2> QED BY <2>1, <1>2, <1>3, FinishStep
<1>9. CASE ReadAdded(a)
  <2>1. Goes(a, "list", organPage)
    BY <1>9 DEF ReadAdded
  <2> QED BY <2>1, <1>1, GoesStep
<1>10. CASE ReadPreview(a)
  <2>1. Finish(a, Own(a, preview))
    BY <1>10 DEF ReadPreview, preview
  <2>2. action[a].mounted => OfOne(preview)
    BY <1>1, <1>4, OrganPageConstants DEF RunIs, OfOne
  <2> QED BY <2>1, <2>2, <1>4, OwnIs, FinishStep
<1>11. CASE ReadResent(a)
  <2>1. Finish(a, Own(a, steps))
    BY <1>11 DEF ReadResent, steps
  <2> QED BY <2>1, <1>5, <1>6, OwnIs, FinishStep
<1>12. CASE ReadChanged(a)
  <2>1. Goes(a, "refresh", Own(a, steps)) \/ Goes(a, "refresh", organPage)
    BY <1>12 DEF ReadChanged, steps
  <2> QED BY <2>1, <1>1, <1>5, <1>6, OwnIs, GoesStep
<1>13. CASE Failed(a)
  <2>1. CASE Finish(a, organPage)
    BY <2>1, <1>1, FinishStep
  <2>2. CASE action' = [action EXCEPT ![a] = NoAction] /\ UNCHANGED <<memberOf, organPage>>
    <3>1. memberOf' \in [Person -> {"none", "active", "ended"}]
      BY <1>1, <2>2 DEF OrganPageTypeOK
    <3> QED BY <2>2, <3>1, <1>1, RunMoves, OrganPageConstants
  <2> QED BY <2>1, <2>2, <1>13 DEF Failed
<1> QED BY <1>7, <1>8, <1>9, <1>10, <1>11, <1>12, <1>13

\* The details of a membership are shown, whichever were shown before.
LEMMA ShowStep ==
    ASSUME OrganPageInv, NEW a \in Action, ShowDetail(a)
    PROVE  OrganPageInv'
<1>1. /\ OrganPageTypeOK /\ OfOne(organPage) /\ \A b \in Action : RunIs(b)
      /\ organPage \in OrganPages /\ organPage.detail \in Details /\ action[a].of \in PersonOrNone
  BY OrganPageFacts DEF OrganPageInv
<1> DEFINE p == action[a].of
           mount == Mount(organPage, p)
           page == [mount EXCEPT !.detail.active = action[a].body # {}]
           gone == Unmounted(p)
           r == IF gone[a].kind = "open" THEN NoAction ELSE [gone[a] EXCEPT !.pc = "list", !.body = {}]
<1>2. mount \in OrganPages /\ mount.detail.of = p /\ OfOne(mount)
  <2>1. CASE organPage.detail.of = p
    BY <2>1, <1>1 DEF Mount
  <2>2. CASE organPage.detail.of # p
    <3>1. mount = [organPage EXCEPT !.detail = [NoDetail EXCEPT !.of = p]]
      BY <2>2 DEF Mount
    <3>2. [NoDetail EXCEPT !.of = p] \in Details
      BY <1>1, OrganPageConstants DEF Details
    <3>3. mount \in OrganPages /\ mount.detail = [NoDetail EXCEPT !.of = p]
      BY <1>1, <3>1, <3>2 DEF OrganPages
    <3>4. /\ mount.detail.of = p /\ mount.detail.preview = NoPerson /\ mount.detail.steps = NoPerson
          /\ ~mount.detail.confirmed
      BY <3>3, OrganPageConstants DEF Details
    <3> QED BY <3>3, <3>4 DEF OfOne
  <2> QED BY <2>1, <2>2
<1> HIDE DEF mount
<1>3. /\ page \in OrganPages /\ page.detail.of = p /\ page.detail.preview = mount.detail.preview
      /\ page.detail.steps = mount.detail.steps /\ page.detail.confirmed = mount.detail.confirmed
  <2>1. mount.detail \in Details
    BY <1>2 DEF OrganPages
  <2> QED BY <1>2, <2>1 DEF OrganPages, Details
<1> HIDE DEF page
<1>4. /\ organPage' \in OrganPages /\ organPage'.detail = page.detail
  <2>1. organPage' = page \/ organPage' = [page EXCEPT !.busy = FALSE]
    BY DEF ShowDetail, page, mount
  <2> QED BY <2>1, <1>3 DEF OrganPages
<1>5. OfOne(organPage')
  BY <1>2, <1>3, <1>4 DEF OfOne
<1>6. \A b \in Action :
         /\ gone[b] \in ActionRuns /\ gone[b].of = action[b].of /\ gone[b].kind = action[b].kind
         /\ gone[b].shown = action[b].shown
         /\ gone[b].mounted => gone[b].of = p
  <2>1. ASSUME NEW b \in Action, action[b].of # p
        PROVE  /\ gone[b] \in ActionRuns /\ gone[b].of = action[b].of /\ gone[b].kind = action[b].kind
               /\ gone[b].shown = action[b].shown /\ ~gone[b].mounted
    <3>1. gone[b] = [action[b] EXCEPT !.mounted = FALSE] /\ action[b] \in ActionRuns
      BY <1>1, <2>1, OrganPageFacts DEF Unmounted
    <3> HIDE DEF gone
    <3> QED BY <3>1 DEF ActionRuns
  <2>2. ASSUME NEW b \in Action, action[b].of = p PROVE gone[b] = action[b]
    BY <2>2 DEF Unmounted
  <2> SUFFICES ASSUME NEW b \in Action
               PROVE  /\ gone[b] \in ActionRuns /\ gone[b].of = action[b].of /\ gone[b].kind = action[b].kind
                      /\ gone[b].shown = action[b].shown
                      /\ gone[b].mounted => gone[b].of = p
    OBVIOUS
  <2>3. action[b] \in ActionRuns
    BY <1>1, OrganPageFacts
  <2> HIDE DEF gone, p
  <2>4. CASE action[b].of # p
    BY <2>1, <2>4
  <2>5. CASE action[b].of = p
    BY <2>2, <2>3, <2>5, Zenon
  <2> QED BY <2>4, <2>5
<1>7. /\ r \in ActionRuns
      /\ r.mounted => r.of = p
      /\ r.kind = "end" => r.shown = r.of
  <2>1. gone[a].kind = "end" => gone[a].shown = gone[a].of
    BY <1>1, <1>6 DEF RunIs
  <2>2. CASE gone[a].kind = "open"
    BY <2>2, OrganPageConstants
  <2>3. CASE gone[a].kind # "open"
    <3>1. r = [gone[a] EXCEPT !.pc = "list", !.body = {}] /\ gone[a] \in ActionRuns
      BY <2>3, <1>6
    <3>2. r \in ActionRuns /\ r.mounted = gone[a].mounted /\ r.of = gone[a].of /\ r.kind = gone[a].kind
          /\ r.shown = gone[a].shown
      BY <3>1 DEF ActionRuns
    <3> HIDE DEF r, gone
    <3> QED BY <3>2, <2>1, <1>6
  <2> QED BY <2>2, <2>3
<1>8. action' = [gone EXCEPT ![a] = r]
  BY DEF ShowDetail, Unmounted
<1>9. gone \in [Action -> ActionRuns]
  <2>1. gone = [b \in Action |-> gone[b]]
    BY DEF Unmounted
  <2> HIDE DEF gone
  <2> QED BY <2>1, <1>6
<1>10. memberOf' \in [Person -> {"none", "active", "ended"}]
  BY <1>1 DEF ShowDetail, OrganPageTypeOK
<1> HIDE DEF r, gone, p
<1>11. action' \in [Action -> ActionRuns] /\ action'[a] = r /\ \A b \in Action \ {a} : action'[b] = gone[b]
  <2>1. r \in ActionRuns
    BY <1>7
  <2> QED BY <2>1, <1>8, <1>9
<1>12. ASSUME NEW b \in Action PROVE RunIs(b)'
  <2>1. organPage'.detail.of = p
    BY <1>3, <1>4
  <2>2. CASE b = a
    BY <2>1, <2>2, <1>7, <1>11 DEF RunIs
  <2>3. CASE b # a
    <3>1. gone[b].kind = "end" => gone[b].shown = gone[b].of
      BY <1>1, <1>6 DEF RunIs
    <3> QED BY <2>1, <2>3, <3>1, <1>6, <1>11 DEF RunIs
  <2> QED BY <2>2, <2>3
<1> QED BY <1>4, <1>5, <1>10, <1>11, <1>12 DEF OrganPageInv, OrganPageTypeOK, OfOne

\* What is done at the page without a request, and by others.
LEMMA PageSteps ==
    ASSUME OrganPageInv,
           \/ \E p \in Person : ChooseStaff(p) \/ ChangedByOthers(p)
           \/ \E path \in {"existing_staff", "organ_identity"} : ChoosePath(path)
           \/ Confirm \/ LeaveOrganPage
    PROVE  OrganPageInv'
<1>1. /\ OrganPageTypeOK /\ OfOne(organPage) /\ \A b \in Action : RunIs(b)
      /\ organPage \in OrganPages /\ organPage.detail \in Details
  BY OrganPageFacts DEF OrganPageInv
<1>2. ASSUME NEW page \in OrganPages, organPage' = page, UNCHANGED <<memberOf, action>>,
             page.detail.of = organPage.detail.of, OfOne(page)
      PROVE  OrganPageInv'
  <2>1. OrganPageTypeOK'
    BY <1>1, <1>2 DEF OrganPageTypeOK
  <2>2. ASSUME NEW b \in Action PROVE RunIs(b)'
    BY <1>1, <1>2 DEF RunIs
  <2>3. OfOne(organPage)'
    BY <1>2 DEF OfOne
  <2> QED BY <2>1, <2>2, <2>3 DEF OrganPageInv
<1>3. ASSUME NEW p \in Person, ChooseStaff(p) PROVE OrganPageInv'
  <2> DEFINE page == [organPage EXCEPT !.chosen = p]
  <2>1. page \in OrganPages /\ page.detail = organPage.detail
    BY <1>1 DEF OrganPages, PersonOrNone
  <2>2. organPage' = page /\ UNCHANGED <<memberOf, action>>
    BY <1>3 DEF ChooseStaff
  <2> HIDE DEF page
  <2> QED BY <2>1, <2>2, <1>1, <1>2 DEF OfOne
<1>4. ASSUME NEW p \in Person, ChangedByOthers(p) PROVE OrganPageInv'
  <2>1. memberOf' \in [Person -> {"none", "active", "ended"}] /\ UNCHANGED <<organPage, action>>
    BY <1>1, <1>4 DEF ChangedByOthers, OrganPageTypeOK
  <2> QED BY <2>1, <1>1 DEF OrganPageInv, OrganPageTypeOK, RunIs, OfOne
<1>5. ASSUME NEW path \in {"existing_staff", "organ_identity"}, ChoosePath(path) PROVE OrganPageInv'
  <2> DEFINE page == [organPage EXCEPT !.path = path]
  <2>1. page \in OrganPages /\ page.detail = organPage.detail
    BY <1>1 DEF OrganPages
  <2>2. organPage' = page /\ UNCHANGED <<memberOf, action>>
    BY <1>5 DEF ChoosePath
  <2> HIDE DEF page
  <2> QED BY <2>1, <2>2, <1>1, <1>2 DEF OfOne
<1>6. CASE Confirm
  <2> DEFINE page == [organPage EXCEPT !.detail.confirmed = ~@]
  <2>1. /\ page \in OrganPages /\ page.detail.of = organPage.detail.of /\ page.detail.preview = organPage.detail.preview
        /\ page.detail.steps = organPage.detail.steps
    BY <1>1 DEF OrganPages, Details
  <2>2. organPage' = page /\ UNCHANGED <<memberOf, action>> /\ organPage.detail.preview # NoPerson
    BY <1>6 DEF Confirm
  <2> HIDE DEF page
  <2> QED BY <2>1, <2>2, <1>1, <1>2 DEF OfOne
<1>7. CASE LeaveOrganPage
  <2>1. organPage' = NewPage /\ action' = [a \in Action |-> NoAction] /\ UNCHANGED memberOf
    BY <1>7 DEF LeaveOrganPage
  <2>2. OrganPageTypeOK'
    BY <1>1, <2>1, OrganPageConstants DEF OrganPageTypeOK
  <2>3. ASSUME NEW b \in Action PROVE RunIs(b)'
    BY <2>1, OrganPageConstants DEF RunIs
  <2> QED BY <2>1, <2>2, <2>3, OrganPageConstants DEF OrganPageInv, OfOne
<1> QED BY <1>3, <1>4, <1>5, <1>6, <1>7

\* The inductive invariant of the page holds throughout.
THEOREM OrganPageInvariant == OrganPageSpec => []OrganPageInv
<1>1. OrganPageInit => OrganPageInv
  <2> SUFFICES ASSUME OrganPageInit PROVE OrganPageInv
    OBVIOUS
  <2>1. OrganPageTypeOK
    BY OrganPageConstants DEF OrganPageInit, OrganPageTypeOK
  <2> QED BY <2>1, OrganPageConstants DEF OrganPageInit, OrganPageInv, RunIs
<1>2. OrganPageInv /\ [OrganPageNext]_organPageVars => OrganPageInv'
  <2> SUFFICES ASSUME OrganPageInv, [OrganPageNext]_organPageVars PROVE OrganPageInv'
    OBVIOUS
  <2>1. ASSUME NEW a \in Action, OrganPageStep(a) PROVE OrganPageInv'
    BY <2>1, OperationBegins, ServeSteps, ReadSteps, ShowStep DEF OrganPageStep
  <2>2. CASE UNCHANGED organPageVars
    BY <2>2 DEF organPageVars, OrganPageInv, OrganPageTypeOK, RunIs, OfOne
  <2> QED BY <2>1, <2>2, PageSteps DEF OrganPageNext
<1> QED BY <1>1, <1>2, PTL DEF OrganPageSpec

\* Every variable of the page has its type.
THEOREM OrganPageTyped == OrganPageSpec => []OrganPageTypeOK
<1>1. OrganPageInv => OrganPageTypeOK
  BY DEF OrganPageInv
<1> QED BY <1>1, OrganPageInvariant, PTL

\* What stands beside a membership is that membership's, and an end is of the membership whose
\* steps were shown, however many runs of the page cross.
THEOREM EndsOnlyWhatWasShown == OrganPageSpec => []EndsWhatWasShown
<1>1. OrganPageInv => EndsWhatWasShown
  BY DEF OrganPageInv, EndsWhatWasShown, RunIs, OfOne
<1> QED BY <1>1, OrganPageInvariant, PTL
=============================================================================
