---------------------------- MODULE AccountPage ----------------------------
(***************************************************************************)
(* The page of the own Akun SQ: web/src/AccountPage.tsx as the client, the *)
(* account routes of hub-auth and account-self-service, which change the   *)
(* account at Keycloak as the person himself.  Nothing stops a page from   *)
(* having several fetches under way; the person's other devices, Keycloak's*)
(* own pages and the administrators change the same account meanwhile.     *)
(***************************************************************************)
EXTENDS Integers, FiniteSets

CONSTANTS
    Session,     \* the sessions a person has at Keycloak, one per browser
    Screen,      \* those whose browser shows the page
    Fetch,       \* requests of the pages that may be under way, numbered
    Names,       \* what may be typed as the name
    Outside,     \* what of the account is changed elsewhere
    MaxChanges   \* bound: changes of the account

ASSUME AccountPageAssumption ==
    /\ Screen \subseteq Session /\ "nobody" \notin Screen
    /\ Fetch \subseteq Nat /\ Names \subseteq Nat /\ MaxChanges \in Nat
    /\ Outside \subseteq {"name", "email", "nip", "consent", "linked", "otp", "may edit", "session"}

VARIABLES
    account,     \* the account at Keycloak
    screen,      \* what each page shows
    fetch        \* how far each request is

accountVars == <<account, screen, fetch>>

\* A field the form edits, one that only an action of Keycloak changes, and one that
\* is read only; an application's consent, an external account and a second factor.
Field == {"name", "email", "nip"}
Thing == {"consent", "linked", "otp"}
Actions == {"update email", "link", "set up otp", "remove otp"}

\* `open`: the realm lets the person edit the name.  `count`: changes so far.
NewAccount == [profile |-> [f \in Field |-> 0], open |-> TRUE, sessions |-> Session, has |-> Thing, count |-> 0]

\* `from`: the whole account, or what is left without Keycloak's account resources.
NoSnapshot == [from |-> "nowhere", of |-> NewAccount]
NoScreen == [state |-> "closed", shown |-> NoSnapshot, draft |-> 0,
             notice |-> "none", said |-> 0, crossed |-> FALSE]
NoFetch == [pc |-> "free", by |-> "nobody", kind |-> "none", target |-> "none", value |-> 0,
            heard |-> FALSE, told |-> "none", body |-> NoSnapshot, made |-> 0]

AccountInit ==
    /\ account = NewAccount
    /\ screen = [s \in Screen |-> NoScreen]
    /\ fetch = [f \in Fetch |-> NoFetch]

Loads == {"load", "quiet load"}
UnderWay(s) == {f \in Fetch : fetch[f].by = s /\ fetch[f].heard}

-----------------------------------------------------------------------------
(* The page. *)

\* The person may turn to any section of it; without the account resources of Keycloak
\* there is nothing to press in them.
Offers(s) == screen[s].state = "ready" /\ screen[s].shown.from = "keycloak"

OnScreen(s) == screen[s].shown.of

\* fetch() by a page: what was under way before it may still be answered after it.
StartFetch(f, s, kind, target, value, change) ==
    /\ fetch[f].pc = "free"
    /\ \A g \in Fetch : g < f => fetch[g].pc # "free"
    /\ fetch' = [fetch EXCEPT ![f] = [NoFetch EXCEPT !.pc = "sent", !.by = s, !.heard = TRUE, !.kind = kind,
                                                      !.target = target, !.value = value]]
    /\ screen' = [screen EXCEPT ![s] = [change EXCEPT !.crossed = UnderWay(s) # {}]]

\* loadAccount, as the page opens after a sign-in, or "Coba lagi".
OpenAccount(f, s) ==
    /\ screen[s].state = "closed"
    /\ StartFetch(f, s, "load", "none", 0, [NoScreen EXCEPT !.state = "loading"])
    /\ account' = [account EXCEPT !.sessions = @ \cup {s}]

TryAgain(f, s) ==
    /\ screen[s].state = "error"
    /\ StartFetch(f, s, "load", "none", 0, [screen[s] EXCEPT !.state = "loading"])
    /\ UNCHANGED account

\* A section that is turned to is mounted anew: what was typed in another is gone.
ChangeSection(s) ==
    /\ screen[s].state = "ready"
    /\ screen' = [screen EXCEPT ![s].draft = OnScreen(s).profile["name"]]
    /\ UNCHANGED <<account, fetch>>

\* mutate: whatever else is under way.
Mutate(f, s, kind, target, value) ==
    /\ StartFetch(f, s, kind, target, value,
          [screen[s] EXCEPT !.notice = "working", !.said = 0])
    /\ UNCHANGED account

\* The form of the profile.
EditName(s, value) ==
    /\ Offers(s) /\ OnScreen(s).open
    /\ screen' = [screen EXCEPT ![s].draft = value]
    /\ UNCHANGED <<account, fetch>>

CancelEdit(s) ==
    /\ Offers(s) /\ OnScreen(s).open
    /\ screen' = [screen EXCEPT ![s].draft = OnScreen(s).profile["name"]]
    /\ UNCHANGED <<account, fetch>>

SubmitProfile(f, s) ==
    /\ Offers(s) /\ OnScreen(s).open
    /\ Mutate(f, s, "save", "none", screen[s].draft)

PressUpdateEmail(f, s) ==
    Offers(s) /\ Mutate(f, s, "update email", "none", 0)

\* "Tambah" or "Kelola", and "Hapus" of a credential that can be removed.
PressSetUp(f, s) ==
    Offers(s) /\ Mutate(f, s, "set up otp", "none", 0)

PressRemove(f, s) ==
    Offers(s) /\ "otp" \in OnScreen(s).has /\ Mutate(f, s, "remove otp", "none", 0)

\* What is ended or revoked is asked once more: the press here is the second one, which
\* finds the page as it is then.  The current session has no button.
Endable(s) == OnScreen(s).sessions \ {s}

EndSession(f, s, t) ==
    Offers(s) /\ t \in Endable(s) /\ Mutate(f, s, "end session", t, 0)

EndOthers(f, s) ==
    Offers(s) /\ Endable(s) # {} /\ Mutate(f, s, "end others", "others", 0)

RevokeConsent(f, s) ==
    /\ Offers(s) /\ "consent" \in OnScreen(s).has
    /\ Mutate(f, s, "revoke consent", "consent", 0)

\* An external account is put apart without a question.
Unlink(f, s) ==
    Offers(s) /\ "linked" \in OnScreen(s).has /\ Mutate(f, s, "unlink", "none", 0)

PressLink(f, s) ==
    Offers(s) /\ "linked" \notin OnScreen(s).has /\ Mutate(f, s, "link", "none", 0)

\* The page is left: for a sign-in, for an action of Keycloak, or by the person.
\* SQ Hub goes on with what it has; a read nobody waits for changes nothing.
Alone(r) == IF r.pc = "answered" \/ r.kind \in Loads THEN NoFetch ELSE [r EXCEPT !.heard = FALSE]
Left(s) == [f \in Fetch |-> IF fetch[f].by = s THEN Alone(fetch[f]) ELSE fetch[f]]

ToKeycloak(s) ==
    /\ screen' = [screen EXCEPT ![s] = NoScreen]
    /\ fetch' = Left(s)
    /\ UNCHANGED account

\* The links that remain without the account resources of Keycloak.
SignInAgain(s) ==
    screen[s].state = "ready" /\ screen[s].shown.from = "sign in again" /\ ToKeycloak(s)

ToCredentials(s) ==
    screen[s].state = "ready" /\ screen[s].shown.from \in {"sign in again", "unavailable"} /\ ToKeycloak(s)

-----------------------------------------------------------------------------
(* The answers at the page. *)

Ends(f) == fetch' = [fetch EXCEPT ![f] = NoFetch]

\* The end of loadAccount, quiet or not: the state is what this answer says, and the
\* form starts again from it.
ReadSnapshot(f) ==
    LET s == fetch[f].by
    IN /\ fetch[f].pc = "answered" /\ fetch[f].kind \in Loads
       /\ \/ /\ fetch[f].told = "login"
             /\ screen' = [screen EXCEPT ![s] = NoScreen]
             /\ fetch' = [Left(s) EXCEPT ![f] = NoFetch]
          \/ /\ fetch[f].told = "ok"
             /\ screen' = [screen EXCEPT ![s].state = "ready", ![s].shown = fetch[f].body,
                                          ![s].draft = fetch[f].body.of.profile["name"]]
             /\ Ends(f)
       /\ UNCHANGED account

\* Mutant: the account is not loaded again after a change.
SameSnapshot(f, s) == Ends(f)

\* loadAccount(true), in the same place.
LoadAgain(f, s) ==
    fetch' = [fetch EXCEPT ![f] = [NoFetch EXCEPT !.pc = "sent", !.by = s, !.heard = TRUE, !.kind = "quiet load"]]

\* The end of mutate.
ReadMutation(f) ==
    LET s == fetch[f].by
    IN /\ fetch[f].pc = "answered" /\ fetch[f].kind \notin Loads
       /\ \/ /\ fetch[f].told \in {"login", "url"}
             /\ screen' = [screen EXCEPT ![s] = NoScreen]
             /\ fetch' = [Left(s) EXCEPT ![f] = NoFetch]
          \/ /\ fetch[f].told = "error"
             /\ screen' = [screen EXCEPT ![s].notice = "error"]
             /\ Ends(f)
          \/ /\ fetch[f].told = "ok"
             /\ screen' = [screen EXCEPT ![s].notice = "success", ![s].said = fetch[f].made]
             /\ LoadAgain(f, s)
       /\ UNCHANGED account

\* The connection of the page breaks, or SQ Hub answers with an error of its own.
ConnectionLost(f) ==
    /\ fetch[f].pc # "free" /\ fetch[f].heard
    /\ fetch' = [fetch EXCEPT ![f] = Alone(@)]
    /\ LET s == fetch[f].by
       IN screen' = IF fetch[f].kind \in Loads THEN [screen EXCEPT ![s].state = "error"]
                    ELSE [screen EXCEPT ![s].notice = "error"]
    /\ UNCHANGED account

-----------------------------------------------------------------------------
(* SQ Hub and Keycloak. *)

\* The answer, which a page that was left does not hear.
Tell(f, what, body, made) ==
    fetch' = [fetch EXCEPT ![f] = IF @.heard THEN [@ EXCEPT !.pc = "answered", !.told = what, !.body = body, !.made = made]
                                  ELSE NoFetch]
Told(f, what) == Tell(f, what, NoSnapshot, 0) /\ UNCHANGED <<account, screen>>

\* getSession: this browser has no session at SQ Hub any more.
NoHubSession(f) == fetch[f].pc = "sent" /\ Told(f, "login")

\* GET /account goes on without Keycloak's account resources.
Fallback(f, why) ==
    /\ Tell(f, "ok", [from |-> why, of |-> account], 0)
    /\ UNCHANGED <<account, screen>>

\* getAccountAccess and Keycloak's 401: the token of a session that was ended is worth nothing.
MustSignInAgain(f) ==
    /\ fetch[f].pc \in {"sent", "token", "read"} /\ fetch[f].by \notin account.sessions
    /\ IF fetch[f].kind \in Loads THEN Fallback(f, "sign in again") ELSE Told(f, "login")

AccountAccess(f) ==
    /\ fetch[f].pc = "sent" /\ fetch[f].by \in account.sessions
    /\ fetch' = [fetch EXCEPT ![f].pc = "token"]
    /\ UNCHANGED <<account, screen>>

\* Keycloak does not answer, or refuses.
KeycloakFails(f) ==
    /\ fetch[f].pc \in {"token", "read"}
    /\ IF fetch[f].kind \in Loads THEN Fallback(f, "unavailable") ELSE Told(f, "error")

AtKeycloak(f) == fetch[f].by \in account.sessions

\* snapshot: its reads, which go out together, as one.
Snapshot(f) ==
    /\ fetch[f].pc = "token" /\ fetch[f].kind \in Loads /\ AtKeycloak(f)
    /\ Tell(f, "ok", [from |-> "keycloak", of |-> account], 0)
    /\ UNCHANGED <<account, screen>>

\* Every change but the end of the other sessions begins with a read: is what is to be
\* changed there?  Then the change itself follows, or the person is sent to Keycloak for it.
FirstRead(f, kind, there) ==
    /\ fetch[f].pc = "token" /\ fetch[f].kind = kind /\ AtKeycloak(f)
    /\ IF ~there THEN Told(f, "error")
       ELSE IF kind \in Actions THEN Told(f, "url")
       ELSE fetch' = [fetch EXCEPT ![f].pc = "read"] /\ UNCHANGED <<account, screen>>

UpdateProfile(f) == FirstRead(f, "save", account.open)
ProfileAction(f) == FirstRead(f, "update email", TRUE)
DeleteSession(f) == FirstRead(f, "end session", fetch[f].target \in account.sessions \ {fetch[f].by})
DeleteConsent(f) == FirstRead(f, "revoke consent", TRUE)
DeleteLinkedAccount(f) == FirstRead(f, "unlink", "linked" \in account.has)
LinkAccount(f) == FirstRead(f, "link", "linked" \notin account.has)
CredentialAction(f) == FirstRead(f, "set up otp", TRUE)
DeleteCredential(f) == FirstRead(f, "remove otp", "otp" \in account.has)

\* updateProfile sends the whole profile it read, with the name put in: Keycloak keeps
\* the fields that are not the person's to edit.
Merged(f) == [account.profile EXCEPT !["name"] = fetch[f].value]

Carried(f) ==
    CASE fetch[f].kind = "save" -> [account EXCEPT !.profile = Merged(f)]
      [] fetch[f].kind = "end session" -> [account EXCEPT !.sessions = @ \ {fetch[f].target}]
      [] fetch[f].kind = "end others" -> [account EXCEPT !.sessions = {fetch[f].by}]
      [] fetch[f].kind = "revoke consent" -> [account EXCEPT !.has = @ \ {"consent"}]
      [] fetch[f].kind = "unlink" -> [account EXCEPT !.has = @ \ {"linked"}]

\* Keycloak carries the change out; its answer comes back, or does not.
Carry(f, answer) ==
    /\ fetch[f].pc = IF fetch[f].kind = "end others" THEN "token" ELSE "read"
    /\ fetch[f].kind \notin Loads /\ AtKeycloak(f) /\ account.count < MaxChanges
    /\ account' = [Carried(f) EXCEPT !.count = @ + 1]
    /\ Tell(f, answer, NoSnapshot, account.count + 1)
    /\ UNCHANGED screen

-----------------------------------------------------------------------------
(* Elsewhere: the pages of Keycloak an action leads to, the person's other browsers, *)
(* the administrators of the realm. *)
ChangedElsewhere(x) ==
    CASE x \in Field -> {[account EXCEPT !.profile[x] = 1 - @]}
      [] x \in Thing -> {[account EXCEPT !.has = (@ \ {x}) \cup ({x} \ @)]}
      [] x = "may edit" -> {[account EXCEPT !.open = ~@]}
      [] x = "session" -> {[account EXCEPT !.sessions = @ \ {t}] : t \in account.sessions}

Elsewhere ==
    /\ account.count < MaxChanges
    /\ \E x \in Outside : \E a \in ChangedElsewhere(x) : account' = [a EXCEPT !.count = account.count + 1]
    /\ UNCHANGED <<screen, fetch>>

PageStep ==
    \E s \in Screen :
        \/ ChangeSection(s)
        \/ \E v \in Names : EditName(s, v)
        \/ CancelEdit(s)
        \/ SignInAgain(s) \/ ToCredentials(s)
        \/ \E f \in Fetch :
              \/ OpenAccount(f, s) \/ TryAgain(f, s)
              \/ SubmitProfile(f, s) \/ PressUpdateEmail(f, s)
              \/ PressSetUp(f, s) \/ PressRemove(f, s)
              \/ \E t \in Session : EndSession(f, s, t)
              \/ EndOthers(f, s) \/ RevokeConsent(f, s)
              \/ Unlink(f, s) \/ PressLink(f, s)

FetchStep ==
    \E f \in Fetch :
        \/ NoHubSession(f) \/ MustSignInAgain(f) \/ AccountAccess(f) \/ KeycloakFails(f)
        \/ Snapshot(f)
        \/ UpdateProfile(f) \/ ProfileAction(f) \/ DeleteSession(f) \/ DeleteConsent(f)
        \/ DeleteLinkedAccount(f) \/ LinkAccount(f) \/ CredentialAction(f) \/ DeleteCredential(f)
        \/ \E answer \in {"ok", "error"} : Carry(f, answer)
        \/ ReadSnapshot(f) \/ ReadMutation(f) \/ ConnectionLost(f)

AccountNext == PageStep \/ FetchStep \/ Elsewhere

AccountSpec == AccountInit /\ [][AccountNext]_accountVars

-----------------------------------------------------------------------------
(* Properties. *)

Accounts == [profile : [Field -> Int], open : BOOLEAN, sessions : SUBSET Session, has : SUBSET Thing,
             count : 0..MaxChanges]
Sources == {"nowhere", "keycloak", "sign in again", "unavailable"}
Snapshots == [from : Sources, of : Accounts]
ScreenStates == {"closed", "loading", "ready", "error"}
Notices == {"none", "working", "success", "error"}
Screens == [state : ScreenStates, shown : Snapshots, draft : Int, notice : Notices, said : 0..MaxChanges,
            crossed : BOOLEAN]
FetchPcs == {"free", "sent", "token", "read", "answered"}
FetchKinds == Loads \cup Actions \cup {"none", "save", "end session", "end others", "revoke consent", "unlink"}
FetchAnswers == {"none", "login", "error", "ok", "url"}
Fetches == [pc : FetchPcs, by : Screen \cup {"nobody"}, kind : FetchKinds,
            target : Session \cup {"none", "others", "consent"}, value : Int, heard : BOOLEAN,
            told : FetchAnswers, body : Snapshots, made : 0..MaxChanges]

AccountTypeOK ==
    /\ account \in Accounts
    /\ screen \in [Screen -> Screens]
    /\ fetch \in [Fetch -> Fetches]

\* What the page says and what it shows agree (mutate: "Perubahan berhasil disimpan." and
\* the account loaded again): success is said only of a change Keycloak carried out; and
\* once it is said and nothing is under way, the account on the screen is one Keycloak
\* gave after that change, unless the change was pressed while another fetch was
\* unanswered, or the account could not be read again.
SaidAndShown ==
    \A s \in Screen :
        screen[s].notice = "success" =>
            /\ screen[s].said \in 1 .. account.count
            /\ screen[s].state = "ready" /\ screen[s].shown.from = "keycloak" /\ ~screen[s].crossed /\ UnderWay(s) = {}
                   => screen[s].shown.of.count >= screen[s].said
=============================================================================
