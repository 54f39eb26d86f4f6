----------------------------- MODULE OrganMembers -----------------------------
(***************************************************************************)
(* Organ memberships (organ-membership) and the provision of staff         *)
(* (staff-lifecycle): an Akun SQ of Keycloak is found or made for an       *)
(* e-mail, its owner is sent an activation mail, and a membership and      *)
(* grants follow.  Path A is for one who has an Akun SQ, Path B makes it.  *)
(* Hub's own record, and never Keycloak, says which ones Path B made.      *)
(*                                                                         *)
(* A request is a row of steps at Keycloak and in the database.  Each may  *)
(* fail or be the last one, others run in between, and the administrator   *)
(* tries again.                                                            *)
(***************************************************************************)
EXTENDS ApplicationAccess

CONSTANTS
    Caller,     \* requests under way together
    Candidate    \* the people that requests are about

ASSUME MembersAssumption == Candidate \subseteq Email /\ Candidate # {}

VARIABLES
    akun,         \* e-mail -> its Akun SQ at Keycloak
    provisioned,  \* e-mails with an audit row of a successful organ_identity.provision
    membership,       \* e-mail -> its latest organ_memberships row
    ask,          \* request -> how far it is
    mailed,       \* who has an organ activation to answer
    removed       \* history: who took the second factor off the own Akun SQ, and has set up no other

membersVars == <<akun, provisioned, membership, ask, mailed, removed>>

NoAkun == [by |-> "nobody", enabled |-> FALSE, employee |-> FALSE, newPassword |-> FALSE,
           totp |-> FALSE, needsTotp |-> FALSE]
StaffAkun == [NoAkun EXCEPT !.by = "staff", !.enabled = TRUE, !.employee = TRUE]
NoMember == [state |-> "none", path |-> "existing_staff"]
Anyone == CHOOSE e \in Candidate : TRUE
NoAsk == [pc |-> "idle", kind |-> "none", email |-> Anyone, seen |-> {}, apps |-> {}]

\* What a request keeps of the Akun SQ as it has read it.
Seen(a) == {x \in {"employee", "newPassword"} : (x = "employee" /\ a.employee) \/ (x = "newPassword" /\ a.newPassword)}

\* Whoever is staff already may sit in an organ, with a second factor.
MembersInit ==
    /\ akun \in [Candidate -> {NoAkun, StaffAkun, [StaffAkun EXCEPT !.totp = TRUE, !.employee = FALSE]}]
    /\ provisioned = {}
    /\ membership \in [Candidate -> {NoMember, [NoMember EXCEPT !.state = "active"]}]
    /\ \A e \in Candidate : membership[e].state = "active" => akun[e].totp
    /\ ask = [r \in Caller |-> NoAsk]
    /\ mailed = {}
    /\ removed = {}

Of(r) == ask[r].email
At(r, pc) == ask[r].pc = pc

\* What was read before does not matter in the next step, but for the mail.
Goto(r, pc) == ask' = [ask EXCEPT ![r].pc = pc, ![r].seen = {}]
Answered(r) == ask' = [ask EXCEPT ![r] = NoAsk]

\* The request starts with what it reads of the e-mail at Keycloak.
Begin(r, kind, e, pc, apps) ==
    /\ At(r, "idle")
    /\ ask' = [ask EXCEPT ![r] = [pc |-> pc, kind |-> kind, email |-> e, apps |-> apps,
                                   seen |-> IF pc = "mail" THEN Seen(akun[e]) ELSE {}]]

\* An error leaves the request, its process stops, or its answer gets lost.
Throw(r) ==
    /\ ~At(r, "idle")
    /\ Answered(r)
    /\ UNCHANGED <<accessVars, akun, provisioned, membership, mailed, removed>>

-----------------------------------------------------------------------------
(* Path A. *)

\* addExistingStaff: inspect, and the chosen applications.
AddExistingStaff(r, e, apps) ==
    /\ akun[e].by # "nobody"
    /\ apps \subseteq WithSummary
    /\ Begin(r, "existing_staff", e, IF akun[e].totp THEN "member" ELSE "totp", apps)
    /\ UNCHANGED <<accessVars, akun, provisioned, membership, mailed, removed>>

\* requireTotpSetup reads the required actions,
ReadActions(r) ==
    /\ At(r, "totp")
    /\ IF akun[Of(r)].needsTotp THEN Goto(r, "member")
       ELSE ask' = [ask EXCEPT ![r].pc = "require", ![r].seen = Seen(akun[Of(r)])]
    /\ UNCHANGED <<accessVars, akun, provisioned, membership, mailed, removed>>

\* and puts them all back with CONFIGURE_TOTP: an action its owner has done meanwhile
\* comes back.  It is read again, and audited.
RequireTotp(r) ==
    /\ At(r, "require")
    /\ akun' = [akun EXCEPT ![Of(r)].needsTotp = TRUE, ![Of(r)].newPassword = "newPassword" \in ask[r].seen]
    /\ Goto(r, "member")
    /\ UNCHANGED <<accessVars, provisioned, membership, mailed, removed>>

\* Mutant: the membership is made although the requirement is not in place.
GoOnWithout(r) == Goto(r, "member")

GiveUp(r) == Answered(r)

\* The requirement cannot be read, put or audited.
RequireFails(r) ==
    /\ ask[r].pc \in {"totp", "require"}
    /\ GiveUp(r)
    /\ \/ UNCHANGED akun
       \/ At(r, "require") /\ akun' = [akun EXCEPT ![Of(r)].needsTotp = TRUE, ![Of(r)].newPassword = "newPassword" \in ask[r].seen]
    /\ UNCHANGED <<accessVars, provisioned, membership, mailed, removed>>

-----------------------------------------------------------------------------
(* Path B. *)

\* Mutant: any Akun SQ that is no employee's is taken for one of Path B.
EveryOtherAkun(e, seen) == "employee" \notin seen

\* isOrganProvisionedIdentity: no employee when it was read, and in Hub's own record.
IsOrganProvisioned(e, seen) ==
    /\ "employee" \notin seen
    /\ e \in provisioned \/ (membership[e].state # "none" /\ membership[e].path = "organ_identity")

\* addNewIdentity: an e-mail in use is refused, unless Path B made its Akun SQ.
AddNewIdentity(r, e, apps) ==
    /\ apps \subseteq WithSummary
    /\ \/ akun[e].by = "nobody" /\ Begin(r, "organ_identity", e, "create", apps)
       \/ /\ akun[e].by # "nobody" /\ akun[e].enabled /\ IsOrganProvisioned(e, Seen(akun[e]))
          /\ Begin(r, "organ_identity", e, "mail", apps)
    /\ UNCHANGED <<accessVars, akun, provisioned, membership, mailed, removed>>

\* createOrganMember, unless the e-mail is taken meanwhile.
CreateOrganMember(r) ==
    /\ At(r, "create") /\ akun[Of(r)].by = "nobody"
    /\ LET new == [NoAkun EXCEPT !.by = "organ", !.enabled = TRUE, !.newPassword = TRUE, !.needsTotp = TRUE]
       IN /\ akun' = [akun EXCEPT ![Of(r)] = new]
          /\ ask' = [ask EXCEPT ![r].pc = "record", ![r].seen = Seen(new)]
    /\ UNCHANGED <<accessVars, provisioned, membership, mailed, removed>>

RecordProvision(r) ==
    /\ At(r, "record")
    /\ provisioned' = provisioned \cup {Of(r)}
    /\ ask' = [ask EXCEPT ![r].pc = "mail"]
    /\ UNCHANGED <<accessVars, akun, membership, mailed, removed>>

\* sendActivation: only to an Akun SQ of Hub's own record, with a password to make.
DecideActivation(r) ==
    /\ At(r, "mail") /\ IsOrganProvisioned(Of(r), ask[r].seen)
    /\ Goto(r, IF "newPassword" \in ask[r].seen THEN "send" ELSE "member")
    /\ UNCHANGED <<accessVars, akun, provisioned, membership, mailed, removed>>

\* sendOrganActivation: it is looked at once more.  The membership follows in any case.
SendActivation(r) ==
    /\ At(r, "send")
    /\ LET to == akun[Of(r)]
       IN \/ ~to.employee /\ to.newPassword /\ mailed' = mailed \cup {Of(r)}
          \/ UNCHANGED mailed
    /\ Goto(r, "member")
    /\ UNCHANGED <<accessVars, akun, provisioned, membership, removed>>

\* resendActivation, for a membership of Path B: this one step.
ResendActivation(r, e) ==
    /\ membership[e].path = "organ_identity" /\ membership[e].state # "none" /\ akun[e].by # "nobody"
    /\ Begin(r, "resend", e, "mail", {})
    /\ UNCHANGED <<accessVars, akun, provisioned, membership, mailed, removed>>

-----------------------------------------------------------------------------
(* completeMembership, of both paths. *)

ReadMember(r) ==
    /\ At(r, "member")
    /\ IF ask[r].kind = "resend" THEN Answered(r)
       ELSE Goto(r, IF membership[Of(r)].state = "active" THEN "grants" ELSE "insert")
    /\ UNCHANGED <<accessVars, akun, provisioned, membership, mailed, removed>>

\* One active row for a person; ORGAN_MEMBERSHIP_EXISTS for who comes second.
CreateMember(r) ==
    /\ At(r, "insert")
    /\ IF membership[Of(r)].state = "active" THEN Answered(r) /\ UNCHANGED membership
       ELSE /\ membership' = [membership EXCEPT ![Of(r)] = [state |-> "active", path |-> ask[r].kind]]
            /\ Goto(r, "grants")
    /\ UNCHANGED <<accessVars, akun, provisioned, mailed, removed>>

MemberFails(r) ==
    /\ At(r, "insert")
    /\ Answered(r)
    /\ UNCHANGED <<accessVars, akun, provisioned, membership, mailed, removed>>

\* The next application: granted, unless it is active, or not.
GrantAccess(r, a) ==
    /\ At(r, "grants") /\ a \in ask[r].apps
    /\ \/ /\ SetAccess(Of(r), a, "active")
          /\ ask' = [ask EXCEPT ![r].apps = @ \ {a}]
       \/ /\ UNCHANGED access
          /\ ask' = [ask EXCEPT ![r].apps = @ \ {a}]
    /\ UNCHANGED <<registry, akun, provisioned, membership, mailed, removed>>

AnswerRequest(r) ==
    /\ At(r, "grants") /\ ask[r].apps = {}
    /\ Answered(r)
    /\ UNCHANGED <<accessVars, akun, provisioned, membership, mailed, removed>>

\* end of a membership: the row alone for who is staff, and for Path B the
\* offboarding of StaffAccess, which may do a part of its steps only.
EndMembership(e) ==
    /\ membership[e].state = "active"
    /\ IF membership[e].path = "existing_staff" \/ akun[e].employee
       THEN membership' = [membership EXCEPT ![e].state = "ended"] /\ UNCHANGED <<access, akun>>
       ELSE \E row, all, off \in BOOLEAN :
              /\ membership' = IF row THEN [membership EXCEPT ![e].state = "ended"] ELSE membership
              /\ akun' = IF off THEN [akun EXCEPT ![e].enabled = FALSE] ELSE akun
              /\ access' = IF ~all THEN access ELSE
                    [access EXCEPT ![e] = [a \in Application |-> IF @[a] = "active" THEN "revoked" ELSE @[a]]]
    /\ UNCHANGED <<registry, provisioned, ask, mailed, removed>>

-----------------------------------------------------------------------------
(* The provision of staff (staff-lifecycle), for a new NIP. *)

\* provisionVerified: an Akun SQ of Path B is linked, one that is taken refused.
ProvisionStaff(r, e) ==
    /\ \/ akun[e].by = "nobody" /\ Begin(r, "provision", e, "make", {})
       \/ /\ akun[e].by # "nobody" /\ IsOrganProvisioned(e, Seen(akun[e]))
          /\ Begin(r, "provision", e, "link", {})
    /\ UNCHANGED <<accessVars, akun, provisioned, membership, mailed, removed>>

CreateStaff(r) ==
    /\ At(r, "make") /\ akun[Of(r)].by = "nobody"
    /\ \E on \in BOOLEAN :
          akun' = [akun EXCEPT ![Of(r)] = [StaffAkun EXCEPT !.enabled = on, !.newPassword = TRUE]]
    /\ Answered(r)
    /\ UNCHANGED <<accessVars, provisioned, membership, mailed, removed>>

LinkEmployee(r) ==
    /\ At(r, "link")
    /\ akun' = [akun EXCEPT ![Of(r)].employee = TRUE]
    /\ Goto(r, "mark")
    /\ UNCHANGED <<accessVars, provisioned, membership, mailed, removed>>

\* The memberships count as Path A from here on.
MarkExistingStaff(r) ==
    /\ At(r, "mark")
    /\ membership' = [membership EXCEPT ![Of(r)].path = "existing_staff"]
    /\ Answered(r)
    /\ UNCHANGED <<accessVars, akun, provisioned, mailed, removed>>

\* setEnabled, by an administrator.
EnableStaff(e) ==
    /\ akun[e].by # "nobody" /\ ~akun[e].enabled
    /\ akun' = [akun EXCEPT ![e].enabled = TRUE]
    /\ UNCHANGED <<accessVars, provisioned, membership, ask, mailed, removed>>

-----------------------------------------------------------------------------
(* The owner, at Keycloak. *)

MakePassword(e) ==
    /\ akun[e].enabled /\ akun[e].newPassword
    /\ akun' = [akun EXCEPT ![e].newPassword = FALSE]
    /\ mailed' = mailed \ {e}
    /\ UNCHANGED <<accessVars, provisioned, membership, ask, removed>>

SetUpTotp(e) ==
    /\ akun[e].enabled /\ ~akun[e].totp
    /\ akun' = [akun EXCEPT ![e].totp = TRUE, ![e].needsTotp = FALSE]
    /\ removed' = removed \ {e}
    /\ UNCHANGED <<accessVars, provisioned, membership, ask, mailed>>

\* The account page deletes what Keycloak calls removeable, a second factor, too.
RemoveTotp(e) ==
    /\ akun[e].enabled /\ akun[e].totp
    /\ akun' = [akun EXCEPT ![e].totp = FALSE]
    /\ removed' = removed \cup {e}
    /\ UNCHANGED <<accessVars, provisioned, membership, ask, mailed>>

CallStep(r) ==
    \/ Throw(r)
    \/ ReadActions(r) \/ RequireTotp(r) \/ RequireFails(r)
    \/ CreateOrganMember(r) \/ RecordProvision(r) \/ DecideActivation(r) \/ SendActivation(r)
    \/ ReadMember(r) \/ CreateMember(r) \/ MemberFails(r) \/ AnswerRequest(r)
    \/ \E a \in Application : GrantAccess(r, a)
    \/ CreateStaff(r) \/ LinkEmployee(r) \/ MarkExistingStaff(r)

MembersNext ==
    \/ \E r \in Caller :
          \/ CallStep(r)
          \/ \E e \in Candidate :
                \/ \E apps \in SUBSET Application : AddExistingStaff(r, e, apps) \/ AddNewIdentity(r, e, apps)
                \/ ResendActivation(r, e) \/ ProvisionStaff(r, e)
    \/ \E e \in Candidate :
          \/ EndMembership(e) \/ EnableStaff(e) \/ MakePassword(e) \/ SetUpTotp(e) \/ RemoveTotp(e)

MembersSpec == AccessInit /\ MembersInit /\ [][MembersNext]_<<accessVars, membersVars>>

-----------------------------------------------------------------------------
(* Properties. *)

Makers == {"nobody", "staff", "organ"}
Akuns == [by : Makers, enabled : BOOLEAN, employee : BOOLEAN, newPassword : BOOLEAN,
          totp : BOOLEAN, needsTotp : BOOLEAN]

States == {"none", "active", "ended"}
Paths == {"existing_staff", "organ_identity"}
Memberships == [state : States, path : Paths]
AskPcs == {"idle", "totp", "require", "create", "record", "mail", "send", "member", "insert", "grants",
           "make", "link", "mark"}
AskKinds == {"none", "existing_staff", "organ_identity", "resend", "provision"}
Asks == [pc : AskPcs, kind : AskKinds, email : Candidate, seen : SUBSET {"employee", "newPassword"},
         apps : SUBSET Application]

MembersTypeOK ==
    /\ AccessTypeOK
    /\ akun \in [Candidate -> Akuns]
    /\ provisioned \subseteq Candidate /\ mailed \subseteq Candidate /\ removed \subseteq Candidate
    /\ membership \in [Candidate -> Memberships]
    /\ ask \in [Caller -> Asks]

\* HUB-IMPL-021: a second factor is mandatory for organ members.  Whoever has an
\* active membership has one, or is made to set one up at the next sign-in, but for
\* one who removed it; whatever fails and whoever else changes the Akun SQ meanwhile.
MembersNeedTotp ==
    \A e \in Candidate : membership[e].state = "active" => akun[e].totp \/ akun[e].needsTotp \/ e \in removed

\* What Path B does to an Akun SQ -- the activation mail, a membership at whose end
\* it is disabled -- it does to one it made itself, and not to another that came to
\* the e-mail before or meanwhile.
ActsOnItsOwn ==
    \A e \in Candidate :
        /\ e \in mailed \/ (membership[e].state # "none" /\ membership[e].path = "organ_identity") => akun[e].by = "organ"
        /\ akun[e].by = "staff" => e \notin provisioned

=============================================================================
