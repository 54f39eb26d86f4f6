---------------------------- MODULE TrustedDevices ----------------------------
(***************************************************************************)
(* "Percayai perangkat ini selama 30 hari": a browser that has entered the *)
(* one-time password of its user, with the box ticked, keeps a signed proof *)
(* in a cookie and skips that page next time.  Keycloak keeps a record of  *)
(* each proof in one attribute of the user, which a request reads at its   *)
(* beginning and writes whole at its end; requests of several browsers, of *)
(* one user, run together.                                                 *)
(***************************************************************************)
EXTENDS Integers, Sequences, FiniteSets, SequencesExt, FiniteSetsExt

CONSTANTS
    Device,                  \* browsers of the user
    Lifetime, MaxDevices,    \* LIFETIME_SECONDS in days, MAX_DEVICES
    MaxNonce, MaxReplaced, MaxDate  \* bounds: proofs in use, credentials replaced, the clock

ASSUME TrustAssumption ==
    /\ {Lifetime, MaxReplaced, MaxDate} \subseteq Nat
    /\ {MaxDevices, MaxNonce} \subseteq Nat \ {0}

VARIABLES
    secret,      \* how often password and OTP credential were replaced
    records,     \* the attribute of the user: a record of each proof
    proof,       \* device -> what its cookie holds
    visit,       \* device -> its request to Keycloak
    earned,      \* device -> the secrets it last entered an OTP with, box ticked, and when it was last trusted
    date

trustVars == <<secret, records, proof, visit, earned, date>>

Secrets == [password : 0..MaxReplaced, otp : 0..MaxReplaced]
NoRecord == [nonce |-> 0, expires |-> 0, print |-> <<>>]
NoVisit == [pc |-> "idle", secret |-> [password |-> 0, otp |-> 0], records |-> <<>>]
Unearned == [secret |-> [password |-> MaxReplaced + 1, otp |-> 0], day |-> 0]

TrustInit ==
    /\ secret = [password |-> 0, otp |-> 0]
    /\ records = <<>>
    /\ proof = [d \in Device |-> NoRecord]
    /\ visit = [d \in Device |-> NoVisit]
    /\ earned = [d \in Device |-> Unearned]
    /\ date = 0

-----------------------------------------------------------------------------
(* TrustedDeviceManager. *)

\* Mutant: only the password counts.
PrintOfPassword(s) == <<s.password>>

\* credentialFingerprint: of the password and of the OTP credential.
Fingerprint(s) == <<s.password, s.otp>>

InUse == Range([i \in DOMAIN records |-> records[i].nonce]) \cup {proof[d].nonce : d \in Device}
    \cup UNION {{visit[d].records[i].nonce : i \in DOMAIN visit[d].records} : d \in Device}
FreshNonces == 1..MaxNonce \ InUse

Current(r) == r.expires > date /\ r.expires <= date + Lifetime
Prune(list, print) == SelectSeq(list, LAMBDA r : Current(r) /\ r.print = print)

\* issue: the newest MaxDevices records stay.
WithRecord(list, r) ==
    LET all == Append(list, r)
    IN IF Len(all) > MaxDevices THEN Tail(all) ELSE all
NewRecord(print) == [nonce |-> Min(FreshNonces), expires |-> date + Lifetime, print |-> print]

-----------------------------------------------------------------------------
(* A request of a device, one transaction. *)

\* It reads the user, his credentials and the attribute.
Read(d, pc) ==
    visit' = [visit EXCEPT ![d] = [pc |-> pc, secret |-> secret, records |-> records]]
ReadPrint(d) == Fingerprint(visit[d].secret)

\* validateAndRotate, up to the rotation: the cookie is current, of these credentials,
\* and one of the records.
Valid(d) ==
    /\ proof[d] # NoRecord /\ Current(proof[d])
    /\ proof[d].print = ReadPrint(d)
    /\ proof[d] \in Range(Prune(visit[d].records, ReadPrint(d)))

\* authenticate(), after the password; or action(), with an OTP that is right.
BeginAuthenticate(d) ==
    /\ visit[d].pc = "idle"
    /\ Read(d, "authenticate")
    /\ UNCHANGED <<secret, records, proof, earned, date>>
EnterOtp(d) ==
    /\ visit[d].pc = "otp"
    /\ Read(d, "action")
    /\ UNCHANGED <<secret, records, proof, earned, date>>

\* persistRecords: the rows of the attribute are deleted and the new ones inserted;
\* rows that another request has committed since may or may not be among the deleted.
Persist(d, list) ==
    LET since == SelectSeq(records, LAMBDA r : r \notin Range(visit[d].records))
    IN records' \in {list, since \o SelectSeq(list, LAMBDA r : r \notin Range(since))}

NextVisit(d, pc) == visit' = [visit EXCEPT ![d] = [NoVisit EXCEPT !.pc = pc]]

\* The account is disabled, at any time: no way in, and the cookie goes.
Disabled(d) ==
    /\ visit[d].pc \in {"authenticate", "action"}
    /\ proof' = [proof EXCEPT ![d] = NoRecord]
    /\ NextVisit(d, "idle")
    /\ UNCHANGED <<secret, records, earned, date>>

\* The proof is accepted and rotated; the OTP page is not shown.
Trusted(d) ==
    /\ visit[d].pc = "authenticate" /\ Valid(d)
    /\ FreshNonces # {}
    /\ LET new == NewRecord(ReadPrint(d))
           rest == SelectSeq(Prune(visit[d].records, ReadPrint(d)), LAMBDA r : r # proof[d])
       IN Persist(d, WithRecord(rest, new)) /\ proof' = [proof EXCEPT ![d] = new]
    /\ NextVisit(d, "idle")
    /\ earned' = [earned EXCEPT ![d].day = date]
    /\ UNCHANGED <<secret, date>>

\* The OTP page; a cookie that proved nothing goes.
AskOtp(d) ==
    /\ visit[d].pc = "authenticate" /\ ~Valid(d)
    /\ Persist(d, Prune(visit[d].records, ReadPrint(d)))
    /\ proof' = [proof EXCEPT ![d] = NoRecord]
    /\ NextVisit(d, "otp")
    /\ UNCHANGED <<secret, earned, date>>

\* The OTP is right; with the box ticked the device is trusted from now on.
PassOtp(d, ticked) ==
    /\ visit[d].pc = "action"
    /\ ticked => FreshNonces # {}
    /\ IF ticked
       THEN LET new == NewRecord(ReadPrint(d))
            IN /\ Persist(d, WithRecord(Prune(visit[d].records, ReadPrint(d)), new))
               /\ proof' = [proof EXCEPT ![d] = new]
               /\ earned' = [earned EXCEPT ![d] = [secret |-> visit[d].secret, day |-> date]]
       ELSE UNCHANGED <<records, proof, earned>>
    /\ NextVisit(d, "idle")
    /\ UNCHANGED <<secret, date>>

\* The page is left, or the transaction rolled back.
LeavePage(d) ==
    /\ visit[d].pc # "idle"
    /\ NextVisit(d, "idle")
    /\ UNCHANGED <<secret, records, proof, earned, date>>

-----------------------------------------------------------------------------
(* Meanwhile. *)

Replace(which) ==
    /\ secret.password + secret.otp < MaxReplaced
    /\ secret' = [secret EXCEPT ![which] = @ + 1]
    /\ UNCHANGED <<records, proof, visit, earned, date>>

\* A request does not outlast the day.
DayPasses ==
    /\ date < MaxDate
    /\ \A d \in Device : visit[d].pc \in {"idle", "otp"}
    /\ date' = date + 1
    /\ UNCHANGED <<secret, records, proof, visit, earned>>

TrustNext ==
    \/ \E d \in Device :
          \/ BeginAuthenticate(d) \/ EnterOtp(d) \/ Disabled(d) \/ Trusted(d) \/ AskOtp(d) \/ LeavePage(d)
          \/ \E ticked \in BOOLEAN : PassOtp(d, ticked)
    \/ \E which \in {"password", "otp"} : Replace(which)
    \/ DayPasses

TrustSpec == TrustInit /\ [][TrustNext]_trustVars

-----------------------------------------------------------------------------
(* Properties. *)

\* A device skips the OTP only when the user had entered an OTP on this device, box
\* ticked, with the very credentials the request found, and it was used within Lifetime;
\* whatever other requests wrote to the one attribute.
TrustIsEarned ==
    \A d \in Device : visit[d].pc = "authenticate" /\ Valid(d) =>
        /\ earned[d].secret = visit[d].secret
        /\ date < earned[d].day + Lifetime
=============================================================================
