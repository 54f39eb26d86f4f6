---------------------------- MODULE KirimNumbers ----------------------------
(***************************************************************************)
(* The WhatsApp numbers of Kirim and the cards that use them               *)
(* (kirim/admin.ts, kirim/cards.ts).  A number is run by one tenant of the *)
(* engine and owned by one module; another module may send through it with *)
(* a route; a module's card shows the number it sends through.             *)
(*                                                                         *)
(* A change is one transaction under a row lock.  Pairing, reconnecting,   *)
(* disconnecting and reading the status ask the engine first and write the *)
(* answer afterwards: a job, and other changes happen in between.          *)
(***************************************************************************)
EXTENDS Integers, FiniteSets

CONSTANTS
    Module,       \* modules with a card
    Numbers,      \* numbers there can be, in the order of their creation
    EngineTenant, \* tenants of the engine
    Typed,        \* those an operator types as provider_ref, another number's or not
    Handset,      \* WhatsApp phones
    Admin,        \* jobs that can be under way together
    MaxTurns      \* bound: jobs begun and changes of the engine, together

ASSUME NumbersAssumption ==
    /\ Numbers \subseteq Nat /\ MaxTurns \in Nat /\ Typed \subseteq EngineTenant
    /\ Numbers \cap {-1} = {} /\ "nobody" \notin Module

VARIABLES
    owner,        \* number -> pemilik_consumer_id, NoModule when there is no such row
    deviceStatus, \* number -> status
    runsOn,       \* number -> provider_ref
    linked,       \* number -> the phone it was last seen linked to (nomor_hmac)
    filled,       \* numbers that hold conversations or a queue
    card,         \* module -> nomor_device_id
    routes,       \* kirim_routes: <<module, number>>
    engine,       \* tenant -> the engine's session
    job,          \* admin -> the call under way
    turns

numbersVars == <<owner, deviceStatus, runsOn, linked, filled, card, routes, engine, job, turns>>

NoModule == "nobody"
NoNumber == -1
NoPhone == "no phone"
NoTenant == "no tenant"
NoJob == [pc |-> "idle"]
Exists(n) == owner[n] # NoModule
Live == {n \in Numbers : Exists(n) /\ deviceStatus[n] # "nonaktif"}

\* A tenant of the engine may be older than Kirim, with or without a phone.
NumbersInit ==
    /\ owner = [n \in Numbers |-> NoModule]
    /\ deviceStatus = [n \in Numbers |-> "belum_dipasang"]
    /\ runsOn = [n \in Numbers |-> NoTenant]
    /\ linked = [n \in Numbers |-> NoPhone]
    /\ filled = {}
    /\ card = [m \in Module |-> NoNumber]
    /\ routes = {}
    /\ engine \in [EngineTenant -> {[session |-> "absent", phone |-> NoPhone], [session |-> "off", phone |-> NoPhone]}
                                    \cup [session : {"connected"}, phone : Handset]]
    /\ job = [a \in Admin |-> NoJob]
    /\ turns = 0

\* setDeviceStatus: a number that is nonaktif keeps its status.
StatusOnce(n, s) == IF deviceStatus[n] = "nonaktif" THEN deviceStatus ELSE [deviceStatus EXCEPT ![n] = s]

\* deviceSharers: modules that use the number of another one.
Sharers(n) == {m \in Module \ {owner[n]} : card[m] = n \/ <<m, n>> \in routes}

\* Tenants no number names (freeIdentifier).
FreeTenants == EngineTenant \ {runsOn[n] : n \in {x \in Numbers : Exists(x)}}

\* freeTenant: and the engine has no device for it either.
UnknownTenants == {t \in FreeTenants : engine[t].session = "absent"}

\* samePhoneDevices: o is an older number, last seen linked to the phone of n.
SamePhoneBefore(o, n) == linked[n] # NoPhone /\ linked[o] = linked[n] /\ o < n

Turn == turns < MaxTurns /\ turns' = turns + 1

-----------------------------------------------------------------------------
(* The engine and its users. *)

\* mapDeviceState, and 404 for a tenant without a device.
StatusOf(session) == CASE session = "absent" -> "belum_dipasang"
                       [] session = "pairing" -> "menunggu_pairing"
                       [] session = "connected" -> "tersambung"
                       [] session = "off" -> "terputus"

Scan(t, f) ==
    /\ engine[t].session = "pairing"
    /\ engine' = [engine EXCEPT ![t] = [session |-> "connected", phone |-> f]]
    /\ UNCHANGED <<owner, deviceStatus, runsOn, linked, filled, card, routes, job, turns>>

Drop(t) ==
    /\ engine[t].session = "connected"
    /\ Turn
    /\ engine' = [engine EXCEPT ![t].session = "off"]
    /\ UNCHANGED <<owner, deviceStatus, runsOn, linked, filled, card, routes, job>>

\* A message arrives or is queued.
Fill(n) ==
    /\ n \in Live /\ n \notin filled
    /\ Turn
    /\ filled' = filled \cup {n}
    /\ UNCHANGED <<owner, deviceStatus, runsOn, linked, card, routes, engine, job>>

\* The worker learnt from a send that the session was gone; by now it may be back.
MarkDisconnected(n) ==
    /\ n \in Live
    /\ Turn
    /\ deviceStatus' = StatusOnce(n, "terputus")
    /\ UNCHANGED <<owner, runsOn, linked, filled, card, routes, engine, job>>

-----------------------------------------------------------------------------
(* Changes of one transaction. *)

InsertDevice(m, n, t) ==
    /\ ~Exists(n) /\ \A k \in Numbers : k < n => Exists(k)
    /\ owner' = [owner EXCEPT ![n] = m]
    /\ deviceStatus' = [deviceStatus EXCEPT ![n] = "belum_dipasang"]
    /\ runsOn' = [runsOn EXCEPT ![n] = t]
    /\ linked' = [linked EXCEPT ![n] = NoPhone]
    /\ UNCHANGED <<filled, routes, engine, job, turns>>

\* Whatever tenant was typed.
CreateDevice(m, n, t) == t \in Typed /\ InsertDevice(m, n, t) /\ UNCHANGED card

\* "Sambungkan nomor baru": the card takes the number it makes.
ConnectNewNumber(m, n, t) ==
    /\ card[m] = NoNumber
    /\ t \in FreeTenants
    /\ InsertDevice(m, n, t)
    /\ card' = [card EXCEPT ![m] = n]

\* Mutant: the previous owner's card keeps the number it has no route to.
CardsStay(n, m) ==
    card' = [card EXCEPT ![m] = IF @ = NoNumber THEN n ELSE @]

\* The card follows the owner; the previous one's is emptied unless it has a route.
CardsFollow(n, m) ==
    card' = [x \in Module |->
               IF x = m /\ card[x] = NoNumber THEN n
               ELSE IF x = owner[n] /\ card[x] = n /\ <<x, n>> \notin routes THEN NoNumber
               ELSE card[x]]

ChangeOwner(n, m) ==
    /\ Exists(n) /\ owner[n] # m
    /\ owner' = [owner EXCEPT ![n] = m]
    /\ CardsFollow(n, m)
    /\ UNCHANGED <<deviceStatus, runsOn, linked, filled, routes, engine, job, turns>>

\* updateDevice with another provider_ref, on a paused number without hand-overs.
ChangeTenant(n, t) ==
    /\ Exists(n) /\ t \in Typed \ {runsOn[n]}
    /\ Turn
    /\ runsOn' = [runsOn EXCEPT ![n] = t]
    /\ deviceStatus' = StatusOnce(n, "belum_dipasang")
    /\ UNCHANGED <<owner, linked, filled, card, routes, engine, job>>

\* releaseBorrowed: not from a number of its own; every route to a number it
\* neither owns nor takes goes.
MayTake(m, n) == card[m] \notin {NoNumber, n} => owner[card[m]] # m
RoutesReleased(m, n) == {r \in routes : r[1] # m \/ r[2] = n \/ owner[r[2]] = m}

\* "Pakai nomor lama".
UseOwnNumber(m, n) ==
    /\ Exists(n) /\ owner[n] = m /\ MayTake(m, n)
    /\ routes' = RoutesReleased(m, n)
    /\ deviceStatus' = [deviceStatus EXCEPT ![n] = IF @ = "nonaktif" THEN "terputus" ELSE @]
    /\ card' = [card EXCEPT ![m] = n]
    /\ UNCHANGED <<owner, runsOn, linked, filled, engine, job, turns>>

\* "Pakai nomor yang sudah aktif".
UseNumber(m, n) ==
    /\ n \in Live /\ owner[n] # m /\ MayTake(m, n)
    /\ routes' = RoutesReleased(m, n) \cup {<<m, n>>}
    /\ card' = [card EXCEPT ![m] = n]
    /\ UNCHANGED <<owner, deviceStatus, runsOn, linked, filled, engine, job, turns>>

\* "Putuskan" on a card that uses another module's number.
LetGo(m) ==
    /\ card[m] # NoNumber /\ owner[card[m]] # m
    /\ routes' = routes \ {<<m, card[m]>>}
    /\ card' = [card EXCEPT ![m] = NoNumber]
    /\ UNCHANGED <<owner, deviceStatus, runsOn, linked, filled, engine, job, turns>>

Deactivate(n) ==
    /\ Exists(n) /\ Sharers(n) = {}
    /\ deviceStatus' = [deviceStatus EXCEPT ![n] = "nonaktif"]
    /\ card' = [m \in Module |-> IF card[m] = n THEN NoNumber ELSE card[m]]
    /\ UNCHANGED <<owner, runsOn, linked, filled, routes, engine, job, turns>>

\* useExistingNumber: the older number takes over the newer one's session, cards
\* and routes, and the newer row is removed.
UseExistingNumber(new, old) ==
    /\ Exists(new) /\ Exists(old) /\ SamePhoneBefore(old, new)
    /\ owner[new] = owner[old]
    /\ new \notin filled
    /\ card' = [m \in Module |-> IF card[m] = new THEN old ELSE card[m]]
    /\ routes' = {r \in routes : r[2] # new} \cup {<<r[1], old>> : r \in {x \in routes : x[2] = new}}
    /\ runsOn' = [runsOn EXCEPT ![old] = runsOn[new], ![new] = NoTenant]
    /\ deviceStatus' = [deviceStatus EXCEPT ![old] = IF deviceStatus[new] = "nonaktif" THEN "terputus" ELSE deviceStatus[new],
                                ![new] = "belum_dipasang"]
    /\ owner' = [owner EXCEPT ![new] = NoModule]
    /\ linked' = [linked EXCEPT ![new] = NoPhone]
    /\ UNCHANGED <<filled, engine, job, turns>>

-----------------------------------------------------------------------------
(* Jobs: read the number, call the engine, write. *)

Read(a, kind, n, t) ==
    /\ job[a].pc = "idle"
    /\ Turn
    /\ job' = [job EXCEPT ![a] = [pc |-> kind, called |-> FALSE, n |-> n, on |-> runsOn[n], to |-> t,
                                  connected |-> deviceStatus[n] = "tersambung"]]
    /\ UNCHANGED <<owner, deviceStatus, runsOn, linked, filled, card, routes, engine>>

BeginProvision(a, n) == Exists(n) /\ Read(a, "provision", n, runsOn[n])

BeginPairing(a, n) == n \in Live /\ Read(a, "pair", n, runsOn[n])

\* The session is reset, or with "perangkat baru" the number moves to a fresh tenant.
BeginReconnect(a, n) ==
    /\ n \in Live /\ deviceStatus[n] # "belum_dipasang"
    /\ \E t \in {runsOn[n]} \cup UnknownTenants : Read(a, "reconnect", n, t)

BeginDisconnect(a, n) ==
    /\ Exists(n) /\ Sharers(n) = {}
    /\ Read(a, "disconnect", n, runsOn[n])

\* The session after the calls of a job that the engine accepts (provision,
\* resetSession, startPairing, disconnect); a tenant without a device knows only the first.
SessionAfter(kind, session) ==
    CASE kind = "provision" -> IF session = "absent" THEN "off" ELSE session
      [] kind = "pair" -> IF session = "connected" THEN session ELSE "pairing"
      [] kind = "reconnect" -> "pairing"
      [] kind = "disconnect" -> "off"

Refuses(kind, session) == session = "absent" /\ kind \in {"pair", "disconnect"}

EngineAccepts(a) ==
    /\ job[a].pc \in {"provision", "pair", "reconnect", "disconnect"} /\ ~job[a].called
    /\ ~Refuses(job[a].pc, engine[job[a].to].session)
    /\ engine' = [engine EXCEPT ![job[a].to].session = SessionAfter(job[a].pc, @)]
    /\ job' = [job EXCEPT ![a].called = TRUE]
    /\ UNCHANGED <<owner, deviceStatus, runsOn, linked, filled, card, routes, turns>>

\* Refused or unreachable; of a reconnect the reset may be done, and the pairing not.
EngineFails(a) ==
    /\ job[a].pc \in {"provision", "pair", "reconnect", "disconnect"} /\ ~job[a].called
    /\ engine' \in {engine, IF job[a].pc = "reconnect" THEN [engine EXCEPT ![job[a].to].session = "off"] ELSE engine}
    /\ job' = [job EXCEPT ![a] = NoJob]
    /\ UNCHANGED <<owner, deviceStatus, runsOn, linked, filled, card, routes, turns>>

EndJob(a) == job' = [job EXCEPT ![a] = NoJob]

\* provision goes on with a status of the number: SeenState, when a refresh ends.
StoreProvision(a) ==
    /\ job[a].pc = "provision" /\ job[a].called
    /\ EndJob(a)
    /\ UNCHANGED <<owner, deviceStatus, runsOn, linked, filled, card, routes, engine, turns>>

\* A number that was connected when it was read stays so.
StorePairing(a) ==
    /\ job[a].pc = "pair" /\ job[a].called
    /\ deviceStatus' = IF Exists(job[a].n) /\ ~job[a].connected
                 THEN StatusOnce(job[a].n, "menunggu_pairing") ELSE deviceStatus
    /\ EndJob(a)
    /\ UNCHANGED <<owner, runsOn, linked, filled, card, routes, engine, turns>>

\* Refused when the number was moved or deactivated meanwhile.
StoreReconnect(a) ==
    /\ job[a].pc = "reconnect" /\ job[a].called
    /\ LET n == job[a].n
       IN IF n \in Live /\ runsOn[n] = job[a].on
          THEN /\ runsOn' = [runsOn EXCEPT ![n] = job[a].to]
               /\ deviceStatus' = StatusOnce(n, "menunggu_pairing")
          ELSE UNCHANGED <<runsOn, deviceStatus>>
    /\ EndJob(a)
    /\ UNCHANGED <<owner, linked, filled, card, routes, engine, turns>>

\* Refused, the session being gone already, when a module took the number meanwhile.
StoreDisconnect(a) ==
    /\ job[a].pc = "disconnect" /\ job[a].called
    /\ deviceStatus' = IF Exists(job[a].n) /\ Sharers(job[a].n) = {}
                 THEN StatusOnce(job[a].n, "terputus") ELSE deviceStatus
    /\ EndJob(a)
    /\ UNCHANGED <<owner, runsOn, linked, filled, card, routes, engine, turns>>

\* refreshStatus, from its timer or from the Nomor page: the engine's answer, then the row.
BeginRefresh(a, n) ==
    /\ n \in Live
    /\ job[a].pc = "idle"
    /\ job' = [job EXCEPT ![a] = [pc |-> "refresh", n |-> n, saw |-> engine[runsOn[n]]]]
    /\ UNCHANGED <<owner, deviceStatus, runsOn, linked, filled, card, routes, engine, turns>>

\* Mutant: a refresh keeps the phone and leaves the status to those who change it.
PhoneOnly(n, saw) ==
    /\ linked' = IF saw.phone = NoPhone THEN linked ELSE [linked EXCEPT ![n] = saw.phone]
    /\ UNCHANGED deviceStatus

SeenState(n, saw) ==
    /\ linked' = IF saw.phone = NoPhone THEN linked ELSE [linked EXCEPT ![n] = saw.phone]
    /\ deviceStatus' = StatusOnce(n, StatusOf(saw.session))

StoreRefresh(a) ==
    /\ job[a].pc = "refresh"
    /\ IF Exists(job[a].n) THEN SeenState(job[a].n, job[a].saw) ELSE UNCHANGED <<linked, deviceStatus>>
    /\ EndJob(a)
    /\ UNCHANGED <<owner, runsOn, filled, card, routes, engine, turns>>

JobStep(a) ==
    \/ EngineAccepts(a) \/ EngineFails(a)
    \/ StoreProvision(a) \/ StorePairing(a) \/ StoreReconnect(a) \/ StoreDisconnect(a) \/ StoreRefresh(a)

NumbersNext ==
    \/ \E t \in EngineTenant : Drop(t) \/ \E f \in Handset : Scan(t, f)
    \/ \E n \in Numbers : Fill(n) \/ MarkDisconnected(n) \/ Deactivate(n)
    \/ \E n \in Numbers, m \in Module : ChangeOwner(n, m) \/ UseOwnNumber(m, n) \/ UseNumber(m, n)
    \/ \E n \in Numbers, t \in EngineTenant : ChangeTenant(n, t) \/ \E m \in Module : CreateDevice(m, n, t) \/ ConnectNewNumber(m, n, t)
    \/ \E m \in Module : LetGo(m)
    \/ \E n, o \in Numbers : UseExistingNumber(n, o)
    \/ \E a \in Admin : JobStep(a)
    \/ \E a \in Admin, n \in Numbers : BeginProvision(a, n) \/ BeginPairing(a, n) \/ BeginReconnect(a, n)
                                          \/ BeginDisconnect(a, n) \/ BeginRefresh(a, n)

\* Calls to the engine end, and the timer reads every number once a minute.
NumbersFairness ==
    /\ \A a \in Admin : WF_numbersVars(JobStep(a))
    /\ \A n \in Numbers : SF_numbersVars(\E a \in Admin : BeginRefresh(a, n))

NumbersSpec == NumbersInit /\ [][NumbersNext]_numbersVars /\ NumbersFairness

-----------------------------------------------------------------------------
(* Properties. *)

NumbersTypeOK ==
    /\ owner \in [Numbers -> Module \cup {NoModule}]
    /\ deviceStatus \in [Numbers -> {"belum_dipasang", "menunggu_pairing", "tersambung", "terputus", "nonaktif"}]
    /\ runsOn \in [Numbers -> EngineTenant \cup {NoTenant}]
    /\ linked \in [Numbers -> Handset \cup {NoPhone}]
    /\ filled \subseteq Numbers /\ card \in [Module -> Numbers \cup {NoNumber}]
    /\ routes \subseteq Module \X Numbers
    /\ \A t \in EngineTenant : engine[t].session \in {"absent", "pairing", "connected", "off"}
    /\ turns \in 0..MaxTurns

\* A card never shows a number its module cannot send through: the number is
\* there, and it is the module's own or the module has a route to it, after any
\* sequence of owner changes, takeovers, merges and releases.
CardsReach ==
    \A m \in Module : card[m] # NoNumber =>
        Exists(card[m]) /\ (owner[card[m]] = m \/ <<m, card[m]>> \in routes)

\* A number's status comes to be what the engine says, although late answers of
\* sends and of the administrators' calls were written over it meanwhile.
StatusCatchesUp ==
    \A n \in Numbers, t \in EngineTenant :
        LET Calm == n \in Live /\ runsOn[n] = t /\ engine[t].session = "connected"
        IN <>[]Calm => <>[](deviceStatus[n] = "tersambung")

\* A new number's tenant is not one another number holds (freeIdentifier).
TenantsApart ==
    \A n, o \in {x \in Numbers : Exists(x)} : n # o => runsOn[n] # runsOn[o]
=============================================================================
