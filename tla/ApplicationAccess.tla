-------------------------- MODULE ApplicationAccess --------------------------
(***************************************************************************)
(* The registry of applications and who may use which (application-access).*)
(* OrganMembers and Governance build on it: the one grants, the other      *)
(* reads.  Each change and its audit row are one transaction.              *)
(***************************************************************************)
EXTENDS Naturals

CONSTANTS
    Email,        \* people of the staff realm, by their e-mail
    Application   \* application keys

VARIABLES
    registry,     \* applications: status, and whether there is a governance summary
    access        \* application_access

accessVars == <<registry, access>>

NoApplication == [status |-> "none", summary |-> FALSE]

AccessInit ==
    /\ registry = [a \in Application |-> [status |-> "active", summary |-> TRUE]]
    /\ access = [e \in Email |-> [a \in Application |-> "none"]]

Registered(a) == registry[a].status # "none"

\* PUT /admin/applications: what the form does not name of the summary is kept.
UpsertApplication(a, status, summary) ==
    registry' = [registry EXCEPT ![a] =
        [status |-> status, summary |-> IF summary = "kept" THEN @.summary ELSE summary = "given"]]

\* setAccess: one row for a person and an application, UNKNOWN_APPLICATION otherwise.
SetAccess(e, a, status) ==
    /\ Registered(a)
    /\ access' = [access EXCEPT ![e][a] = status]

\* checkAccess, in the order of its answers.
Decision(e, a) ==
    CASE ~Registered(a) -> "UNKNOWN_APPLICATION"
      [] Registered(a) /\ registry[a].status # "active" -> "APPLICATION_INACTIVE"
      [] registry[a].status = "active" /\ access[e][a] = "none" -> "NO_GRANT"
      [] registry[a].status = "active" /\ access[e][a] = "revoked" -> "GRANT_REVOKED"
      [] OTHER -> "active_grant"

\* governanceApplications of the Admin Center.
WithSummary == {a \in Application : registry[a].status = "active" /\ registry[a].summary}

\* listForIdentity of the governance portal: with an active grant, too.
SummariesFor(e) == {a \in WithSummary : Decision(e, a) = "active_grant"}

\* An administrator, whatever else is under way.
ChangeApplication(a) ==
    \E status \in {"active", "inactive"}, summary \in {"kept", "given", "taken"} :
        UpsertApplication(a, status, summary) /\ UNCHANGED access

GrantOrRevoke(e, a) ==
    \E status \in {"active", "revoked"} : SetAccess(e, a, status) /\ UNCHANGED registry

AccessTypeOK ==
    /\ registry \in [Application -> [status : {"none", "active", "inactive"}, summary : BOOLEAN]]
    /\ access \in [Email -> [Application -> {"none", "active", "revoked"}]]
=============================================================================
