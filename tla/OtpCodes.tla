------------------------------- MODULE OtpCodes -------------------------------
(***************************************************************************)
(* The six-digit codes of an external account (realm sq-keluarga, which    *)
(* keeps several WhatsApp numbers): "Lupa kata sandi" by code, and the     *)
(* verification of a number at sign-in.  A browser tab is one              *)
(* authentication session and holds one code in its notes.  Several tabs   *)
(* and Keluarga SQ itself change the numbers of the account meanwhile.     *)
(***************************************************************************)
EXTENDS Integers, Sequences, FiniteSets, SequencesExt

CONSTANTS
    Number, Tab,
    FirstNumbers,                        \* the numbers the account begins with
    HasEmail,                          \* and whether it has an email
    MaxWrong, CodesPerHour,            \* MAX_WRONG, CODES_PER_ACCOUNT_PER_HOUR
    Validity, ResendAfter, CodeWindow, \* VALIDITY, RESEND_AFTER, CODE_WINDOW, in ticks
    MaxTick, MaxMoves                  \* bounds: the clock, changes made by Keluarga SQ

ASSUME OtpAssumption ==
    /\ HasEmail \in BOOLEAN
    /\ FirstNumbers \in Seq(Number) /\ IsInjective(FirstNumbers)
    /\ {MaxWrong, CodesPerHour, Validity, ResendAfter, CodeWindow, MaxTick, MaxMoves} \subseteq Nat
    /\ Number \cap {"kk", "email", "account", "none"} = {}

VARIABLES
    numbers,     \* waAttribute: the WhatsApp numbers of the account, in order
    verified,    \* WA_VERIFIED: those that have passed a code
    tab,         \* the notes of each authentication session, and its page
    counted,     \* RateLimiter: when the codes of each key were counted
    resets,      \* when a code to reset the password left for the account
    moves, tick

otpVars == <<numbers, verified, tab, counted, resets, moves, tick>>

\* What may be typed in "Lupa kata sandi", a number that is not the account's among
\* them; "account" is the second key of the limiter.
Typed == {"kk"} \cup Number \cup (IF HasEmail THEN {"email"} ELSE {})
Key == Typed \cup {"account"}

\* The ids of the channels: an email, and a "whatsapp" of every number, in their order.
Email == <<"email", 0>>
WhatsApp(i) == <<"whatsapp", i>>
NoChannel == <<"none", 0>>
AnyChannel == <<"any", 0>>

\* `to` is where the code went and `moved` whether the account's numbers have changed since.
NoCode == [channel |-> NoChannel, to |-> "none", issued |-> 0, wrong |-> 0, moved |-> FALSE]
NoTab == [step |-> "identifier", typed |-> "kk", only |-> AnyChannel, decoy |-> FALSE, code |-> NoCode, hash |-> FALSE]

OtpInit ==
    /\ numbers = FirstNumbers
    /\ verified = {}
    /\ tab = [t \in Tab |-> NoTab]
    /\ counted = [k \in Key |-> <<>>]
    /\ resets = <<>>
    /\ moves = 0 /\ tick = 0

-----------------------------------------------------------------------------
(* The account. *)

\* The first number of s that has not passed a code.
FirstUnproved(s, done) ==
    LET rest == {k \in DOMAIN s : s[k] \notin done}
    IN IF rest = {} THEN "none" ELSE s[Min(rest)]
NumberToVerify == FirstUnproved(numbers, verified)

\* Where the verified numbers are; all of them when none is.
ResetNumbers ==
    LET proved == {k \in DOMAIN numbers : numbers[k] \in verified}
    IN IF proved = {} THEN DOMAIN numbers ELSE proved

\* k is the Place-th of these places.
Place(k, places) == Cardinality({j \in places : j <= k})

\* Channel id -> what is behind it now.
AvailableChannels ==
    [id \in (IF HasEmail THEN {Email} ELSE {}) \cup {WhatsApp(Place(k, ResetNumbers)) : k \in ResetNumbers} |->
        IF id = Email THEN "email"
        ELSE numbers[CHOOSE k \in ResetNumbers : id = WhatsApp(Place(k, ResetNumbers))]]

\* All of them, or only the one that was typed.
Channels(t) ==
    LET all == AvailableChannels
    IN IF tab[t].only = AnyChannel THEN all ELSE [id \in DOMAIN all \cap {tab[t].only} |-> all[id]]

\* replaceNumber: in its place, without a duplicate.
Replaced(old, new) ==
    LET put == [i \in DOMAIN numbers |-> IF numbers[i] = old THEN new ELSE numbers[i]]
        first == {i \in DOMAIN put : \A j \in 1..(i - 1) : put[j] # put[i]}
    IN [i \in 1..Cardinality(first) |-> put[CHOOSE k \in first : Place(k, first) = i]]

\* What comes next in this browser has other notes.
Ended(t) == [tab EXCEPT ![t] = NoTab]

\* Every code that is out was sent before this change of the numbers.
Moved(f) == [t \in Tab |-> IF f[t].hash THEN [f[t] EXCEPT !.code.moved = TRUE] ELSE f[t]]

-----------------------------------------------------------------------------
(* The limiter. *)

\* prune: what is older than the window leaves, up to the first that is not.
Cutoff == tick - CodeWindow
Pruned(s) ==
    CHOOSE n \in 0..Len(s) : /\ \A i \in 1..n : s[i] <= Cutoff
                             /\ n = Len(s) \/ s[n + 1] > Cutoff
Recent(s) == SubSeq(s, Pruned(s) + 1, Len(s))
RoomFor(k) == Len(Recent(counted[k])) < CodesPerHour

\* Mutant: one of the two limits is thought enough.
TypedOnly(t) == <<tab[t].typed>>

\* Limited per typed identifier and per account.
ResetKeys(t) == <<tab[t].typed, "account">>

\* tryCodeRequest of each in turn, up to the first that has no room.
TakeFrom(keys) ==
    LET got == {i \in DOMAIN keys : \A j \in 1..i : RoomFor(keys[j])}
    IN [k \in Key |-> IF \E i \in got : keys[i] = k THEN Append(Recent(counted[k]), tick) ELSE Recent(counted[k])]
Allowed(keys) == \A i \in DOMAIN keys : RoomFor(keys[i])

-----------------------------------------------------------------------------
(* A code. *)

Issued(channel, to) == [channel |-> channel, to |-> to, issued |-> tick, wrong |-> 0, moved |-> FALSE]
\* A code that is out, and the notes of one that is not.
With(f, t, code) == [f EXCEPT ![t].code = code, ![t].hash = TRUE]
Emptied(f, t, code) == [f EXCEPT ![t].code = code, ![t].hash = FALSE]

\* Only the channel and the moment of issue stay of a code that is used up.
Without(f, t) == Emptied(f, t, [NoCode EXCEPT !.channel = f[t].code.channel, !.issued = f[t].code.issued])

\* otp.verify(entry): what comes of it, and of the notes.
Expired(t) == tick - tab[t].code.issued > Validity
Check(t, right) ==
    CASE ~tab[t].hash -> "none"
      [] tab[t].hash /\ Expired(t) -> "expired"
      [] tab[t].hash /\ ~Expired(t) /\ right -> "valid"
      [] OTHER -> "wrong"
AfterWrong(t) ==
    IF tab[t].code.wrong + 1 < MaxWrong THEN [tab EXCEPT ![t].code.wrong = @ + 1] ELSE Without(tab, t)
AfterRefusal(t, check) == IF check = "wrong" THEN AfterWrong(t) ELSE Without(tab, t)
MayResend(t) == tab[t].code = NoCode \/ tick >= tab[t].code.issued + ResendAfter

\* send: limited, or issued and delivered, or issued and not delivered, which
\* forgets it.  `next` is the tab after a delivery, and `back` after none.
Send(t, channel, to, keys, next, back) ==
    /\ counted' = TakeFrom(keys)
    /\ \/ ~Allowed(keys) /\ tab' = back
       \/ Allowed(keys) /\ tab' = With(next, t, Issued(channel, to))
       \/ Allowed(keys) /\ tab' = Emptied(back, t, NoCode)

SendReset(t, channel, next, back) ==
    /\ Send(t, channel, Channels(t)[channel], ResetKeys(t), next, back)
    /\ resets' = IF tab' = With(next, t, Issued(channel, Channels(t)[channel])) /\ Allowed(ResetKeys(t))
                 THEN Append(Recent(resets), tick) ELSE Recent(resets)

-----------------------------------------------------------------------------
(* "Lupa kata sandi". *)

OpenReset(t) ==
    /\ tab' = [tab EXCEPT ![t] = NoTab]
    /\ UNCHANGED <<numbers, verified, counted, resets, moves, tick>>

\* startDecoy: the page that says a code was sent if the account exists.
StartDecoy(t, typed) ==
    LET decoy == [tab EXCEPT ![t] = [@ EXCEPT !.step = "code", !.typed = typed, !.only = AnyChannel, !.decoy = TRUE]]
    IN /\ counted' = TakeFrom(<<typed>>)
       /\ tab' = IF RoomFor(typed) THEN With(decoy, t, Issued(NoChannel, "none")) ELSE decoy
       /\ UNCHANGED resets

\* enterNik: the KK leads to the channels, a contact of the account has its code
\* sent at once, and anything else ends on the decoy.
EnterIdentifier(t, typed) ==
    /\ tab[t].step = "identifier"
    /\ LET behind == {id \in DOMAIN AvailableChannels : AvailableChannels[id] = typed}
           asked == [tab EXCEPT ![t].typed = typed, ![t].only = AnyChannel]
       IN \/ /\ typed = "kk" /\ DOMAIN AvailableChannels = {}
             /\ tab' = asked
             /\ UNCHANGED <<counted, resets>>
          \/ /\ typed = "kk" /\ DOMAIN AvailableChannels # {}
             /\ tab' = [asked EXCEPT ![t].step = "channel"]
             /\ UNCHANGED <<counted, resets>>
          \/ typed # "kk" /\ behind = {} /\ StartDecoy(t, typed)
          \/ /\ typed # "kk" /\ behind # {}
             /\ LET id == CHOOSE id \in behind : TRUE
                    only == [asked EXCEPT ![t].only = id, ![t].step = "code"]
                    keys == <<typed, "account">>
                IN /\ Send(t, id, typed, keys, only, asked)
                   /\ resets' = IF tab'[t].step = "code" THEN Append(Recent(resets), tick) ELSE Recent(resets)
    /\ UNCHANGED <<numbers, verified, moves, tick>>

ChooseChannel(t, id) ==
    /\ tab[t].step = "channel" /\ id \in DOMAIN Channels(t)
    /\ SendReset(t, id, [tab EXCEPT ![t].step = "code"], tab)
    /\ UNCHANGED <<numbers, verified, moves, tick>>

ChangeChannel(t) ==
    /\ tab[t].step = "code" /\ ~tab[t].decoy /\ tab[t].only = AnyChannel
    /\ tab' = [tab EXCEPT ![t].step = "channel"]
    /\ UNCHANGED <<numbers, verified, counted, resets, moves, tick>>

\* "Kirim ulang"; the number behind the channel is looked up again.
Resend(t) ==
    /\ tab[t].step = "code" /\ MayResend(t)
    /\ LET id == tab[t].code.channel
       IN \/ tab[t].decoy /\ StartDecoy(t, tab[t].typed)
          \/ ~tab[t].decoy /\ id \in DOMAIN Channels(t) /\ SendReset(t, id, tab, tab)
    /\ UNCHANGED <<numbers, verified, moves, tick>>

\* enterCode: the number behind the channel has proved itself, and the reset ends.
EnterCode(t, right) ==
    /\ tab[t].step = "code"
    /\ LET found == Check(t, right)
           check == IF tab[t].decoy /\ found = "valid" THEN "wrong" ELSE found
           id == tab[t].code.channel
           proved == IF id \in DOMAIN Channels(t) /\ id # Email THEN {Channels(t)[id]} ELSE {}
       IN \/ /\ check = "valid"
             /\ verified' = verified \cup proved
             /\ tab' = Ended(t)
          \/ check # "valid" /\ tab' = AfterRefusal(t, found) /\ UNCHANGED verified
    /\ UNCHANGED <<numbers, counted, resets, moves, tick>>

-----------------------------------------------------------------------------
(* The verification of a number at sign-in. *)

\* The code of the account is counted under its KK.
SendVerify(t, number, from) == Send(t, WhatsApp(1), number, <<"kk">>, from, from)

\* requiredActionChallenge, when the page opens or is loaded again.
OpenVerify(t) ==
    /\ tab[t].step \in {"identifier", "verify"}
    /\ NumberToVerify # "none"
    /\ LET opened == [tab EXCEPT ![t].step = "verify", ![t].typed = "kk"]
       IN \/ tab[t].hash /\ tab' = opened /\ UNCHANGED counted
          \/ ~tab[t].hash /\ SendVerify(t, NumberToVerify, opened)
    /\ UNCHANGED <<numbers, verified, resets, moves, tick>>

\* processAction finds nothing left to verify.
NothingToVerify(t) ==
    /\ tab[t].step = "verify" /\ NumberToVerify = "none"
    /\ tab' = Ended(t)
    /\ UNCHANGED <<numbers, verified, counted, resets, moves, tick>>

VerifyResend(t) ==
    /\ tab[t].step = "verify" /\ NumberToVerify # "none" /\ MayResend(t)
    /\ SendVerify(t, NumberToVerify, tab)
    /\ UNCHANGED <<numbers, verified, resets, moves, tick>>

\* A right code marks the number that is to be verified now, wherever it went.
VerifyCode(t, right) ==
    /\ tab[t].step = "verify" /\ NumberToVerify # "none"
    /\ LET check == Check(t, right)
       IN \/ /\ check = "valid"
             /\ verified' = verified \cup {NumberToVerify}
             /\ tab' = Ended(t)
          \/ check # "valid" /\ tab' = AfterRefusal(t, check) /\ UNCHANGED verified
    /\ UNCHANGED <<numbers, counted, resets, moves, tick>>

\* Mutant: the code that is out is left in the notes.
CodeKept(f, t) == f

\* otp.clear() of changeNumber.
CodeForgotten(f, t) == Emptied(f, t, NoCode)

\* "Ganti nomor": another number takes the place of the one to be verified, and has
\* a code sent, without the wait, if it has not passed one before.
ChangeNumber(t, new) ==
    /\ tab[t].step = "verify" /\ NumberToVerify \notin {"none", new}
    /\ numbers' = Replaced(NumberToVerify, new)
    /\ LET next == FirstUnproved(numbers', verified)
           others == Moved([tab EXCEPT ![t].hash = FALSE])
           changed == CodeForgotten([others EXCEPT ![t] = tab[t]], t)
       IN \/ next = "none" /\ tab' = [changed EXCEPT ![t] = NoTab] /\ UNCHANGED counted
          \/ next # "none" /\ SendVerify(t, next, changed)
    /\ UNCHANGED <<verified, resets, moves, tick>>

-----------------------------------------------------------------------------
(* Elsewhere. *)

\* Keluarga SQ writes the numbers of the account, and drops what is no longer one.
AppChangesNumbers ==
    /\ moves < MaxMoves
    /\ \E new \in {s \in SeqOf(Number, 2) : IsInjective(s)} :
          numbers' = new /\ verified' = verified \cap Range(new)
    /\ numbers' # numbers
    /\ tab' = Moved(tab)
    /\ moves' = moves + 1
    /\ UNCHANGED <<counted, resets, tick>>

TickPasses ==
    /\ tick < MaxTick
    /\ tick' = tick + 1
    /\ UNCHANGED <<numbers, verified, tab, counted, resets, moves>>

OtpNext ==
    \/ \E t \in Tab :
          \/ OpenReset(t) \/ ChangeChannel(t) \/ Resend(t)
          \/ OpenVerify(t) \/ NothingToVerify(t) \/ VerifyResend(t)
          \/ \E typed \in Typed : EnterIdentifier(t, typed)
          \/ \E id \in DOMAIN AvailableChannels : ChooseChannel(t, id)
          \/ \E right \in BOOLEAN : EnterCode(t, right) \/ VerifyCode(t, right)
          \/ \E n \in Number : ChangeNumber(t, n)
    \/ AppChangesNumbers \/ TickPasses

OtpSpec == OtpInit /\ [][OtpNext]_otpVars

-----------------------------------------------------------------------------
(* Properties. *)

\* n is marked by a right code of tab t.
MarkedBy(t, n) == tab[t].hash /\ ~tab'[t].hash /\ n \in verified' \ verified

\* Whatever is reset, resent, changed or verified in however many tabs, a number is
\* marked as verified by the code that went to it.  Two cases are left out, as the code
\* reads the number again when it is answered: the numbers of the account have changed
\* since the code was sent, or, at sign-in, the number it was sent to has been verified
\* in another tab meanwhile, and the next one is marked in its place (OwnCodeOnly).
NumberProved ==
    [][\A n \in verified' \ verified :
          \E t \in Tab :
             /\ MarkedBy(t, n)
             /\ \/ tab[t].code.to = n
                \/ tab[t].code.moved
                \/ tab[t].step = "verify" /\ tab[t].code.to \in verified]_otpVars

\* wa_verified lists the numbers that passed a code: while the numbers of the account
\* stay as they are, each is marked by a code of its own.
OwnCodeOnly ==
    [][\A n \in verified' \ verified :
          \E t \in Tab : MarkedBy(t, n) /\ (tab[t].code.to = n \/ tab[t].code.moved)]_otpVars

\* Whatever identifiers are typed in however many tabs, no more than CodesPerHour codes
\* to reset the password leave for the account within one window.
FiveCodesAnHour == Len(Recent(resets)) <= CodesPerHour
=============================================================================
