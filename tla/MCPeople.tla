------------------------------ MODULE MCPeople ------------------------------
(***************************************************************************)
(* Instances of HcisRoles, OrganMembers (with ApplicationAccess),          *)
(* OrgDirectory, AccountPage and OrganPage for TLC: roles in HCIS,         *)
(* memberships, the directory, the page of the own account, and the page   *)
(* Organ Yayasan, of which a behaviour uses the form or the details; and,  *)
(* so that few runs suffice, one of KirimOutbox, in which one process      *)
(* sends from the queue of a number that stays on.  A behaviour moves one  *)
(* part, chosen at the start, and the others stay as they began.           *)
(***************************************************************************)
EXTENDS HcisRoles, OrganMembers, OrgDirectory, AccountPage, OrganPage, KirimOutbox, TLC

CONSTANTS c1, c2, o1, o2, d1, p1

MCDeviceOf == [o \in Outbox |-> d1]
MCJenisOf == [o \in Outbox |-> IF o = o1 THEN "notifikasi" ELSE "kode"]
MCPriorityOf == [o \in Outbox |-> IF o = o1 THEN 3 ELSE 0]
MCTtlOf == [o \in Outbox |-> IF o = o1 THEN 3 ELSE 2]
MCRetryDelays == <<1>>

\* The number stays connected and unpaused, no receipt arrives, and the process has or has
\* not its provider, also after a restart: what is left is the queue, the worker, the engine
\* and the clock.
NumberStaysOn ==
    /\ UNCHANGED served
    /\ \A d \in Device : connection'[d] = "tersambung" /\ ~paused'[d]
    /\ \A o \in Outbox : recorded'[o] = {}

VARIABLE part

peopleVars == <<accessVars, membersVars, directoryVars, accountVars, organPageVars, vars>>
MCVars == <<part, rolesVars, peopleVars>>

MCInit ==
    /\ part \in {"roles", "members", "directory", "account", "organ form", "organ details", "rate"}
    /\ RolesInit /\ AccessInit /\ MembersInit /\ DirectoryInit /\ AccountInit /\ OrganPageInit /\ Init
    /\ part # "members" => \A e \in Candidate : akun[e] = NoAkun
    /\ \A p \in Person : memberOf[p] = IF part = "organ details" THEN "active" ELSE "none"

MCNext ==
    /\ \/ /\ part = "roles" /\ RolesNext
          /\ UNCHANGED peopleVars
       \/ /\ part = "members" /\ MembersNext
          /\ UNCHANGED <<directoryVars, accountVars, organPageVars, vars>>
       \/ /\ part = "directory" /\ DirectoryNext
          /\ UNCHANGED <<accessVars, membersVars, accountVars, organPageVars, vars>>
       \/ /\ part = "account" /\ AccountNext
          /\ UNCHANGED <<accessVars, membersVars, directoryVars, organPageVars, vars>>
       \/ /\ part \in {"organ form", "organ details"} /\ OrganPageNext
          /\ part = "organ form" => UNCHANGED organPage.detail
          /\ part = "organ details" => UNCHANGED organPage.path
          /\ UNCHANGED <<accessVars, membersVars, directoryVars, accountVars, vars>>
       \/ /\ part = "rate" /\ Next /\ NumberStaysOn
          /\ UNCHANGED <<accessVars, membersVars, directoryVars, accountVars, organPageVars>>
    /\ part # "roles" => UNCHANGED rolesVars
    /\ UNCHANGED part

MCSpec == MCInit /\ [][MCNext]_MCVars

\* No step of the account page reads what is typed, nor does a property: the account
\* without it.
Unnamed(a) == [a EXCEPT !.profile = 0]

\* Only the part that moves tells two states apart, no history that no step reads, and
\* not which of the requests that are alike has come how far.
Moving ==
    CASE part = "roles" -> <<part, formId, chosen, waiting, [p \in Press |-> [press[p] EXCEPT !.visit = 0]],
                             flying, assigned, taken, made, audited>>
      [] part = "members" -> <<part, accessVars, akun, provisioned, membership, mailed, removed,
                               {<<ask[c1], ask[c2]>>, <<ask[c2], ask[c1]>>}>>
      [] part = "account" -> <<part, Unnamed(account),
                               [s \in Screen |-> [screen[s] EXCEPT !.draft = 0, !.shown.of = Unnamed(@)]],
                               {[fetch[f] EXCEPT !.value = 0, !.body.of = Unnamed(@)] : f \in Fetch}>>
      [] part = "directory" -> <<part, directoryVars>>
      [] part \in {"organ form", "organ details"} -> <<part, memberOf, organPage, {action[a] : a \in Action}>>
      [] part = "rate" -> <<part, vars>>
=============================================================================
