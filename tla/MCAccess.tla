------------------------------ MODULE MCAccess ------------------------------
(***************************************************************************)
(* Instances of StaffAccess, HubSessions, OtpCodes and TrustedDevices for  *)
(* TLC: what a member of the staff may do, how a person signs in, proves   *)
(* his number, is known on his devices.  A behaviour moves one of them,    *)
(* chosen at the start, and the others stay as they began.  Of the codes   *)
(* the clock moves twice, or Keluarga SQ changes the numbers once.         *)
(***************************************************************************)
EXTENDS StaffAccess, HubSessions, OtpCodes, TrustedDevices, TLC

CONSTANTS hcis, h1, h2, u1, u2, n1, n2, c1, c2

VARIABLE part

MCOrder == [r \in Resource |->
              CASE r = "admin" -> 2 [] r = "organ" -> 3 [] r = "identity" -> 4 [] OTHER -> 1]
MCFirstNumbers == <<n1, n2>>

MCVars == <<part, vars, sessionsVars, otpVars, trustVars>>

MCInit ==
    /\ part \in {"access", "sessions", "codes", "devices"}
    /\ Init /\ SessionsInit /\ OtpInit /\ TrustInit

MCNext ==
    /\ \/ part = "access" /\ Next /\ UNCHANGED <<sessionsVars, otpVars, trustVars>>
       \/ part = "sessions" /\ SessionsNext /\ UNCHANGED <<vars, otpVars, trustVars>>
       \/ part = "codes" /\ OtpNext /\ 2 * moves' + tick' <= 2 /\ UNCHANGED <<vars, sessionsVars, trustVars>>
       \/ part = "devices" /\ TrustNext /\ UNCHANGED <<vars, sessionsVars, otpVars>>
    /\ UNCHANGED part

MCSpec == MCInit /\ [][MCNext]_MCVars

\* Which of the requests, or of the tabs, that are alike does what makes no difference.
Symmetric == Permutations(Handler)
Either(f) == {<<f[c1], f[c2]>>, <<f[c2], f[c1]>>}

\* Only the part that moves tells two states apart.
Moving ==
    CASE part = "access" -> <<part, vars>>
      [] part = "sessions" -> <<part, login, session, sso, clock, cut, Either(calls)>>
      [] part = "codes" -> <<part, numbers, verified, counted, resets, moves, tick, Either(tab)>>
      [] part = "devices" -> <<part, trustVars>>
=============================================================================
