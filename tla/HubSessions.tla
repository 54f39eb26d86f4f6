----------------------------- MODULE HubSessions -----------------------------
(***************************************************************************)
(* Sessions of SQ Hub (hub-auth) and what they carry: a refresh token of   *)
(* Akun SQ, which every request about the account exchanges at Keycloak    *)
(* and which Keycloak may replace by a new one each time.  A login that is *)
(* begun from a session (to confirm an account action, or to sign in       *)
(* again) replaces that session when it is completed.                      *)
(*                                                                         *)
(* A login and an account request are several steps with an answer of      *)
(* Keycloak or of the database in between, and others run meanwhile.       *)
(***************************************************************************)
EXTENDS Naturals, FiniteSets

CONSTANTS
    Login,            \* rows of hub_oidc_transactions in the order of their creation, and the
                      \* SSO session each leads to
    Person,
    AccountCall,      \* account requests that can be under way together
    MaxAge, Idle,     \* sessionMaxHours, sessionIdleHours
    LoginTime,        \* transactionTtlMinutes
    OneUse,           \* Keycloak accepts only the latest refresh token of a login
    MaxNow, MaxRotations, MaxCuts  \* bounds: the clock, refreshes of a login, stops

ASSUME SessionsAssumption ==
    /\ Login \subseteq Nat \ {0} /\ Person # {}
    /\ OneUse \in BOOLEAN
    /\ {MaxAge, Idle, LoginTime, MaxNow, MaxRotations, MaxCuts} \subseteq Nat

VARIABLES
    login,            \* login -> its transaction and how far it is
    session,          \* login -> the hub_sessions row it created
    sso,              \* login -> the latest refresh token Keycloak gave for it
    calls,            \* account request -> how far it is
    clock,
    cut               \* history: sessions whose new token a stop has lost

sessionsVars == <<login, session, sso, calls, clock, cut>>

None == 0
NoToken == [of |-> None, k |-> 0]
NoSession == [state |-> "none", who |-> None, until |-> 0, seen |-> 0, token |-> NoToken, first |-> None]
NoCall == [pc |-> "idle", session |-> None, token |-> NoToken]

NoLogin == [pc |-> "none", replaces |-> None, expects |-> None, until |-> 0, who |-> None, token |-> NoToken]
EndedLogin == [NoLogin EXCEPT !.pc = "ended"]
First == CHOOSE l \in Login : \A k \in Login : l <= k

\* One person has signed in; the others are still to come.
SessionsInit ==
    /\ session = [l \in Login |-> IF l # First THEN NoSession ELSE
                     [state |-> "live", who |-> CHOOSE p \in Person : TRUE, until |-> MaxAge, seen |-> 0,
                      first |-> l, token |-> [of |-> l, k |-> 0]]]
    /\ sso = [l \in Login |-> 0]
    /\ login = [l \in Login |-> IF l = First THEN EndedLogin ELSE NoLogin]
    /\ calls = [c \in AccountCall |-> NoCall]
    /\ clock = 0
    /\ cut = {}

Existing == {s \in Login : session[s].state # "none"}

\* getSession: neither revoked, nor expired, nor idle for too long.
Alive(s) ==
    /\ session[s].state = "live"
    /\ session[s].until > clock
    /\ session[s].seen + Idle > clock

\* Whoever finds the session alive also moves last_seen_at.
Touched(s) == [session EXCEPT ![s].seen = clock]

-----------------------------------------------------------------------------
(* Logins. *)

\* createTransaction: the session to replace, and its identity.
CreateTransaction(l, s) ==
    /\ login[l].pc = "none" /\ \A k \in Login : k < l => login[k].pc # "none"
    /\ login' = [login EXCEPT ![l].pc = "open", ![l].until = clock + LoginTime,
                              ![l].replaces = s,
                              ![l].expects = IF s = None THEN None ELSE session[s].who]

EndLogin(l) == login' = [login EXCEPT ![l] = EndedLogin]

\* beginLogin: the session to replace is one that can still be used.
BeginLogin(l, s) ==
    /\ s # None => Alive(s)
    /\ CreateTransaction(l, s)
    /\ session' = IF s = None THEN session ELSE Touched(s)

\* A login from the start page, or to the account page without a usable session.
StartLogin(l) ==
    /\ BeginLogin(l, None)
    /\ UNCHANGED <<sso, calls, clock, cut>>

\* GET /auth/oidc/start?returnTo=account and /auth/oidc/action/..., with a session.
StartAction(l, s) ==
    /\ BeginLogin(l, s)
    /\ UNCHANGED <<sso, calls, clock, cut>>

\* The callback deletes the transaction, so that it serves once, even when it is
\* expired or the login at Keycloak has failed.
CallbackFails(l) ==
    /\ login[l].pc \in {"open", "create"}
    /\ EndLogin(l)
    /\ UNCHANGED <<session, sso, calls, clock, cut>>

\* consumeTransaction, and the check of its age.
Consumable(l) == login[l].pc = "open" /\ login[l].until > clock

\* completeAuthorization: the code is exchanged for a refresh token, or for none.
RefreshTokens(l) == {NoToken, [of |-> l, k |-> 0]}

\* An action is completed by whoever began it.
SameIdentity(l, p) == login[l].expects \in {None, p}

\* p has signed in; nobody else can use the transaction or the code in between.
CompleteLogin(l, p) ==
    /\ Consumable(l)
    /\ IF SameIdentity(l, p)
       THEN \E t \in RefreshTokens(l) :
               login' = [login EXCEPT ![l].pc = "create", ![l].until = 0, ![l].who = p, ![l].token = t]
       ELSE EndLogin(l)
    /\ UNCHANGED <<session, sso, calls, clock, cut>>

\* Mutant: a session that is revoked already can be replaced once more.
ReplaceableOnceMore(l) ==
    LET old == session[login[l].replaces] IN old.who = login[l].who /\ old.until > clock

Replaceable(l) ==
    LET old == session[login[l].replaces]
    IN old.state = "live" /\ old.who = login[l].who /\ old.until > clock

Revoked(row) == [row EXCEPT !.state = "revoked", !.token = NoToken]

\* The new row: the replaced session's end stays the end.
NewSession(l) ==
    LET s == login[l].replaces
    IN [state |-> "live", who |-> login[l].who, seen |-> clock, token |-> login[l].token,
        until |-> IF s = None THEN clock + MaxAge ELSE session[s].until,
        first |-> IF s = None THEN l ELSE session[s].first]

\* createSession, one transaction: nothing is created when there is nothing to replace.
CreateSession(l) ==
    /\ login[l].pc = "create"
    /\ LET s == login[l].replaces
       IN session' = IF s = None THEN [session EXCEPT ![l] = NewSession(l)]
                     ELSE IF Replaceable(l) THEN [session EXCEPT ![s] = Revoked(@), ![l] = NewSession(l)]
                     ELSE session
    /\ EndLogin(l)
    /\ UNCHANGED <<sso, calls, clock, cut>>

\* POST /auth/logout.
Logout(s) ==
    /\ session[s].state = "live"
    /\ session' = [session EXCEPT ![s] = Revoked(@)]
    /\ UNCHANGED <<login, sso, calls, clock, cut>>

-----------------------------------------------------------------------------
(* Requests with a session. *)

\* GET /workspace: every page begins so.
ShowWorkspace(s) ==
    /\ Alive(s)
    /\ session' = Touched(s)
    /\ UNCHANGED <<login, sso, calls, clock, cut>>

\* getAccountAccess, up to the call of Keycloak; without a token the answer is 428.
AskAccount(c, s) ==
    /\ calls[c].pc = "idle"
    /\ Alive(s) /\ session[s].token # NoToken
    /\ session' = Touched(s)
    /\ calls' = [calls EXCEPT ![c] = [pc |-> "refresh", session |-> s, token |-> session[s].token]]
    /\ UNCHANGED <<login, sso, clock, cut>>

Closed(c) == calls' = [calls EXCEPT ![c] = NoCall]

\* refreshTokenGrant: with rotation, the latest token only.
Accepted(t) == OneUse => t.k = sso[t.of]

\* The request has what it asked for; from here on only its session matters.
Granted(c) == calls' = [calls EXCEPT ![c].pc = "granted", ![c].token = NoToken]

\* Keycloak refuses, or cannot be reached: 428.
AccessRefused(c) ==
    /\ calls[c].pc = "refresh"
    /\ Closed(c)
    /\ UNCHANGED <<login, session, sso, clock, cut>>

\* Keycloak gives an access token and, or not, another refresh token.
RefreshAccess(c) ==
    /\ calls[c].pc = "refresh" /\ Accepted(calls[c].token)
    /\ LET l == calls[c].token.of
       IN \/ Granted(c) /\ UNCHANGED sso
          \/ /\ sso[l] < MaxRotations
             /\ sso' = [sso EXCEPT ![l] = @ + 1]
             /\ calls' = [calls EXCEPT ![c].pc = "store", ![c].token.k = sso[l] + 1]
    /\ UNCHANGED <<login, session, clock, cut>>

\* Mutant: the session keeps the token it had.
TokenAsRead(c) == session[calls[c].session].token

NewToken(c) == calls[c].token

\* updateAccountRefreshToken, for a session that is not revoked meanwhile.
StoreToken(c) ==
    /\ calls[c].pc = "store"
    /\ session' = IF session[calls[c].session].state # "live" THEN session
                  ELSE [session EXCEPT ![calls[c].session].token = NewToken(c)]
    /\ Granted(c)
    /\ UNCHANGED <<login, sso, clock, cut>>

\* The process stops, or an answer is lost, between the two: 428 from then on.
TokenLost(c) ==
    /\ calls[c].pc = "store"
    /\ Cardinality(cut) < MaxCuts
    /\ cut' = cut \cup {calls[c].session}
    /\ Closed(c)
    /\ UNCHANGED <<login, session, sso, clock>>

\* The account page.
ShowAccount(c) ==
    /\ calls[c].pc = "granted"
    /\ Closed(c)
    /\ UNCHANGED <<login, session, sso, clock, cut>>

\* A changed profile, an ended device session, a withdrawn consent, an unlinked
\* account: at Keycloak only (AccountPage).
ChangeAccount(c) ==
    /\ calls[c].pc = "granted"
    /\ Closed(c)
    /\ UNCHANGED <<login, session, sso, clock, cut>>

\* A profile, link or credential action: the session is asked for again, after
\* Keycloak's answers.
BeginAction(c, l) ==
    /\ calls[c].pc = "granted"
    /\ IF Alive(calls[c].session)
       THEN BeginLogin(l, calls[c].session)
       ELSE UNCHANGED <<login, session>>
    /\ Closed(c)
    /\ UNCHANGED <<sso, clock, cut>>

TimePasses ==
    /\ clock < MaxNow
    /\ clock' = clock + 1
    /\ UNCHANGED <<login, session, sso, calls, cut>>

SessionsNext ==
    \/ \E l \in Login :
          \/ StartLogin(l) \/ CallbackFails(l) \/ CreateSession(l)
          \/ \E p \in Person : CompleteLogin(l, p)
          \/ \E s \in Existing : StartAction(l, s)
    \/ \E s \in Existing : Logout(s) \/ ShowWorkspace(s)
    \/ \E c \in AccountCall :
          \/ \E s \in Existing : AskAccount(c, s)
          \/ AccessRefused(c) \/ RefreshAccess(c) \/ StoreToken(c) \/ TokenLost(c) \/ ShowAccount(c) \/ ChangeAccount(c)
          \/ \E l \in Login : BeginAction(c, l)
    \/ TimePasses

SessionsSpec == SessionsInit /\ [][SessionsNext]_sessionsVars

-----------------------------------------------------------------------------
(* Properties. *)

Tokens == [of : Login \cup {None}, k : 0..MaxRotations]

LoginRows == [pc : {"none", "open", "create", "ended"}, replaces : Login \cup {None}, expects : Person \cup {None},
              until : Nat, who : Person \cup {None}, token : Tokens]
SessionRows == [state : {"none", "live", "revoked"}, who : Person \cup {None}, until : Nat, seen : Nat, token : Tokens,
                first : Login \cup {None}]
AccountCalls == [pc : {"idle", "refresh", "store", "granted"}, session : Login \cup {None}, token : Tokens]

SessionsTypeOK ==
    /\ login \in [Login -> LoginRows] /\ session \in [Login -> SessionRows]
    /\ sso \in [Login -> 0..MaxRotations] /\ calls \in [AccountCall -> AccountCalls]
    /\ clock \in 0..MaxNow /\ cut \subseteq Login

\* The sessions that continue one login belong to one person and end together,
\* one of them at most can be used, and one that was replaced or logged out
\* holds no token, whatever logins and account requests of it were under way.
OneSessionPerLogin ==
    \A s, n \in Existing : session[s].first = session[n].first =>
        /\ session[s].who = session[n].who /\ session[s].until = session[n].until
        /\ session[s].state = "live" /\ session[n].state = "live" => s = n
        /\ session[s].state = "revoked" => session[s].token = NoToken

\* Requests that exchange one token together do not leave the session with a
\* dead one: what it holds Keycloak still accepts, or the request that has the
\* next one is about to store it, unless a stop lost it.
TokenKept ==
    \A s \in Existing : session[s].state = "live" /\ session[s].token # NoToken =>
        \/ Accepted(session[s].token) \/ s \in cut
        \/ \E c \in AccountCall : calls[c].pc = "store" /\ calls[c].session = s /\ Accepted(calls[c].token)
=============================================================================
