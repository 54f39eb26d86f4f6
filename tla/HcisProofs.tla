----------------------------- MODULE HcisProofs -----------------------------
(***************************************************************************)
(* Theorems about what SQ Hub has of HCIS and of its applications: the     *)
(* page of the roles says what happened to a press (HcisRoles), the pages  *)
(* of the directory are of one version of it (OrgDirectory), and a card of *)
(* the portal is one's own (Governance).                                   *)
(***************************************************************************)
EXTENDS HcisRoles, OrgDirectory, Governance, FiniteSetTheorems, WellFoundedInduction, TLAPS

-----------------------------------------------------------------------------
(* The roles of HCIS and the batch that changes them. *)

\* The page shows a person with a form that has an id, and waits for a press of its own.
PageWaits ==
    /\ chosen # Nobody => formId >= 1
    /\ waiting # Nobody =>
          /\ press[waiting].pc # "none"
          /\ press[waiting].kind = "grant" => formId = press[waiting].id
    /\ \A p \in Press : press[p].pc # "none" =>
          press[p].id \in 1..MaxIds /\ press[p].who \in Staff /\ press[p].role \in Role

\* A change that has left SQ Hub and not reached HCIS is one SQ Hub waits for or gave up on;
\* HCIS carries a requestId out once.
Flights ==
    /\ \A p \in flying : p \notin made /\ (Waits(p) \/ (press[p].pc = "answered" /\ press[p].told = "unknown"))
    /\ \A p \in Press : Waits(p) => p \in flying
    /\ \A p \in made : press[p].pc \notin {"none", "begin", "again"}
    /\ taken = {RequestId(p) : p \in made}
    /\ \A p, q \in made : RequestId(p) = RequestId(q) => p = q

\* What HCIS answered a press with is what it did.
SaidTruly(p) ==
    /\ press[p].told = "done" => p \in made
    /\ press[p].told = "recorded" => \E q \in made : q # p /\ RequestId(q) = RequestId(p)
    /\ press[p].told = "nothing changed" => p \notin made
    /\ press[p].pc = "told" => press[p].told \in {"done", "recorded", "nothing changed"}

\* What SQ Hub passes on, and what it records, is what HCIS did.
SaysTrue ==
    \A p \in Press :
        /\ press[p].pc \in {"told", "answered"} => SaidTruly(p)
        /\ audited[p] = "succeeded" => p \in made

\* The inductive invariant.
RolesInv == RolesTypeOK /\ PageWaits /\ Flights /\ SaysTrue

\* What a press of a button leaves of the presses.
NewPress(p, kind, id, who, role, count) ==
    /\ press' \in [Press -> Presses]
    /\ press'[p] = [pc |-> "begin", kind |-> kind, id |-> id, who |-> who, role |-> role, visit |-> count, told |-> "none"]
    /\ \A q \in Press \ {p} : press'[q] = press[q]

\* Only press p moves: to x, having been told y.
Moves(p, x, y) ==
    /\ press' \in [Press -> Presses]
    /\ press'[p].pc = x /\ press'[p].told = y
    /\ press'[p].kind = press[p].kind /\ press'[p].id = press[p].id /\ press'[p].who = press[p].who
    /\ press'[p].role = press[p].role /\ press'[p].visit = press[p].visit
    /\ \A q \in Press \ {p} : press'[q] = press[q]

\* An update of one field is such a move.
LEMMA PcOnly ==
    ASSUME press \in [Press -> Presses], NEW p \in Press, NEW x \in Pcs, press' = [press EXCEPT ![p].pc = x]
    PROVE  Moves(p, x, press[p].told)
BY DEF Moves, Presses

\* An update of two fields is such a move.
LEMMA PcTold ==
    ASSUME press \in [Press -> Presses], NEW p \in Press, NEW x \in Pcs, NEW y \in Tolds,
           press' = [press EXCEPT ![p].pc = x, ![p].told = y]
    PROVE  Moves(p, x, y)
BY DEF Moves, Presses

\* A button makes one new press.
LEMMA NewOne ==
    ASSUME RolesTypeOK, PageWaits, NEW p \in Press, NEW k \in {"grant", "revoke"}, NEW i \in 1..MaxIds,
           NEW r \in Role, chosen \in Staff, Pressed(p, k, i, r)
    PROVE  NewPress(p, k, i, chosen, r, visit.count)
<1> DEFINE new == [pc |-> "begin", kind |-> k, id |-> i, who |-> chosen, role |-> r, visit |-> visit.count, told |-> "none"]
<1>1. visit.count \in Nat /\ i \in 0..MaxIds
  BY RolesAssumption DEF RolesTypeOK
<1>2. new \in Presses
  BY <1>1 DEF Presses, Pcs, Tolds
<1>3. press \in [Press -> Presses] /\ press' = [press EXCEPT ![p] = new]
  BY DEF RolesTypeOK, Pressed
<1> HIDE DEF new
<1>4. press' \in [Press -> Presses] /\ press'[p] = new /\ \A q \in Press \ {p} : press'[q] = press[q]
  BY <1>2, <1>3
<1> QED BY <1>4 DEF NewPress, new

\* How SQ Hub ends a press: what it answers with, and when that is "unknown".
LEMMA HubMoves ==
    ASSUME RolesInv, NEW p \in Press,
           NotAuthorized(p) \/ RefusedBefore(p) \/ GiveUpWaiting(p) \/ GotServerError(p) \/ GotAnswer(p)
    PROVE  /\ \E y \in {"done", "recorded", "nothing changed", "unknown"} :
                 /\ Moves(p, "answered", y)
                 /\ \/ y = press[p].told /\ press[p].pc = "told"
                    \/ y = "unknown" /\ press[p].pc \in {"first", "second", "told", "told server error"}
                    \/ y = "nothing changed" /\ press[p].pc \in {"begin", "again"}
                 /\ \E w \in {"none", "failed", "succeeded"} :
                       /\ w = "succeeded" => y = "done"
                       /\ audited' = [audited EXCEPT ![p] = w] \/ audited' = audited
           /\ UNCHANGED <<formId, chosen, visit, waiting, flying, assigned, taken, made>>
<1>0. /\ press \in [Press -> Presses]
      /\ {"done", "recorded", "nothing changed", "unknown"} \subseteq Tolds /\ "answered" \in Pcs
  BY DEF Pcs, Tolds, RolesInv, RolesTypeOK
<1>a. ASSUME NEW y \in {"done", "recorded", "nothing changed", "unknown"}, Answers(p, y)
      PROVE  /\ Moves(p, "answered", y)
             /\ \E w \in {"none", "failed", "succeeded"} :
                       /\ w = "succeeded" => y = "done"
                       /\ audited' = [audited EXCEPT ![p] = w] \/ audited' = audited
  <2>1. Moves(p, "answered", y)
    BY <1>a, <1>0, PcTold DEF Answers
  <2> QED BY <1>a, <2>1 DEF Answers, Audit
<1>1. CASE NotAuthorized(p)
  <2>1. Moves(p, "answered", "nothing changed")
    BY <1>1, <1>0, PcTold DEF NotAuthorized
  <2> QED BY <1>1, <2>1 DEF NotAuthorized
<1>2. CASE RefusedBefore(p)
  BY <1>2, <1>a DEF RefusedBefore
<1>3. CASE GiveUpWaiting(p)
  BY <1>3, <1>a DEF GiveUpWaiting
<1>4. CASE GotServerError(p)
  BY <1>4, <1>a DEF GotServerError, ServerError
<1>5. CASE GotAnswer(p)
  <2>1. press[p].told \in {"done", "recorded", "nothing changed"}
    BY <1>5 DEF GotAnswer, RolesInv, SaysTrue, SaidTruly
  <2> QED BY <1>5, <2>1, <1>a DEF GotAnswer
<1> QED BY <1>1, <1>2, <1>3, <1>4, <1>5

\* A press that leaves, and what HCIS does with it.
LEMMA LeaveMoves ==
    ASSUME RolesInv, NEW p \in Press, LookUp(p) \/ SendAgain(p)
    PROVE  /\ press[p].pc \in {"begin", "again"}
           /\ \/ press[p].pc = "begin" /\ Moves(p, "first", press[p].told)
              \/ press[p].pc = "again" /\ Moves(p, "second", press[p].told)
           /\ flying' = flying \cup {p}
           /\ UNCHANGED <<formId, chosen, visit, waiting, assigned, taken, made, audited>>
<1>0. press \in [Press -> Presses] /\ {"first", "second"} \subseteq Pcs
  BY DEF Pcs, RolesInv, RolesTypeOK
<1>1. CASE LookUp(p)
  <2>1. Moves(p, "first", press[p].told)
    BY <1>0, <1>1, PcOnly DEF LookUp
  <2> QED BY <1>1, <2>1 DEF LookUp
<1>2. CASE SendAgain(p)
  <2>1. Moves(p, "second", press[p].told)
    BY <1>0, <1>2, PcOnly DEF SendAgain
  <2> QED BY <1>2, <2>1 DEF SendAgain
<1> QED BY <1>1, <1>2

\* An answer of HCIS reaches a press that waits for it, and no other.
LEMMA ReplyMoves ==
    ASSUME RolesInv, NEW p \in Press, NEW y \in {"done", "recorded", "nothing changed"}, Reply(p, y)
    PROVE  \/ Waits(p) /\ Moves(p, "told", y)
           \/ ~Waits(p) /\ press' = press
<1>0. press \in [Press -> Presses] /\ "told" \in Pcs /\ y \in Tolds
  BY DEF Pcs, Tolds, RolesInv, RolesTypeOK
<1>1. CASE Waits(p)
  <2>1. Moves(p, "told", y)
    BY <1>0, <1>1, PcTold DEF Reply
  <2> QED BY <1>1, <2>1
<1> QED BY <1>1 DEF Reply

\* What HCIS does with a change that reaches it.
LEMMA HcisMoves ==
    ASSUME RolesInv, NEW p \in Press,
           Carries(p) \/ Replays(p) \/ Refuses(p) \/ WantsAnother(p) \/ Fails(p)
    PROVE  /\ p \in flying /\ flying' = flying \ {p}
           /\ UNCHANGED <<formId, chosen, visit, waiting, audited>>
           /\ \/ ~Waits(p) /\ press' = press
              \/ /\ Waits(p)
                 /\ \E y \in {"done", "recorded", "nothing changed"} :
                       /\ Moves(p, "told", y)
                       /\ y = "done" => Carries(p)
                       /\ y = "recorded" => RequestId(p) \in taken
                       /\ y = "nothing changed" => ~Carries(p)
              \/ Waits(p) /\ Moves(p, "told server error", press[p].told)
              \/ Waits(p) /\ ~Carries(p) /\ Moves(p, "again", press[p].told)
           /\ Carries(p) \/ UNCHANGED <<assigned, taken, made>>
<1>0. press \in [Press -> Presses] /\ {"told", "told server error", "again"} \subseteq Pcs
  BY DEF Pcs, RolesInv, RolesTypeOK
<1>a. ASSUME press' = [press EXCEPT ![p].pc = "told server error"]
      PROVE  Moves(p, "told server error", press[p].told)
  BY <1>0, <1>a, PcOnly
<1>1. CASE Carries(p)
  <2>1. CASE Reply(p, "done")
    BY <1>1, <2>1, ReplyMoves DEF Carries
  <2>2. CASE Waits(p) /\ press' = [press EXCEPT ![p].pc = "told server error"]
    BY <1>1, <2>2, <1>a DEF Carries
  <2> QED BY <1>1, <2>1, <2>2 DEF Carries
<1>2. CASE Replays(p)
  <2>1. ~Carries(p)
    BY <1>2 DEF Carries, Replays
  <2> QED BY <1>2, <2>1, ReplyMoves DEF Replays
<1>b. made' = made => ~Carries(p)
  BY DEF Carries, RolesInv, Flights
<1>3. CASE Refuses(p)
  BY <1>3, <1>b, ReplyMoves DEF Refuses
<1>4. CASE WantsAnother(p)
  <2>1. CASE press[p].pc = "first"
    <3>1. Moves(p, "again", press[p].told)
      BY <1>0, <1>4, <2>1, PcOnly DEF WantsAnother
    <3> QED BY <1>4, <1>b, <2>1, <3>1 DEF WantsAnother, Waits
  <2>2. CASE press[p].pc # "first"
    BY <1>4, <1>b, <2>2, ReplyMoves DEF WantsAnother
  <2> QED BY <2>1, <2>2
<1>5. CASE Fails(p)
  BY <1>5, <1>a DEF Fails
<1> QED BY <1>1, <1>2, <1>3, <1>4, <1>5

\* A move keeps what was asked, and with it what the page waits for.
LEMMA MovesKeep ==
    ASSUME RolesInv, NEW p \in Press, NEW x \in Pcs \ {"none"}, NEW y \in Tolds, Moves(p, x, y), press[p].pc # "none"
    PROVE  /\ \A q \in Press : /\ RequestId(q)' = RequestId(q)
                               /\ press'[q].pc = "none" <=> press[q].pc = "none"
                               /\ press'[q].kind = press[q].kind /\ press'[q].id = press[q].id
                               /\ press'[q].who = press[q].who /\ press'[q].role = press[q].role
           /\ UNCHANGED <<formId, chosen, waiting>> => PageWaits'
<1>1. \A q \in Press : /\ press'[q].pc = "none" <=> press[q].pc = "none"
                      /\ press'[q].kind = press[q].kind /\ press'[q].id = press[q].id
                      /\ press'[q].who = press[q].who /\ press'[q].role = press[q].role
  BY DEF Moves
<1>2. waiting \in Press \cup {Nobody}
  BY DEF RolesInv, RolesTypeOK
<1>3. ASSUME UNCHANGED <<formId, chosen, waiting>> PROVE PageWaits'
  BY <1>1, <1>2, <1>3 DEF RolesInv, PageWaits
<1> QED BY <1>1, <1>3 DEF RequestId

\* Every step keeps the types and the page.
LEMMA RolesTypesPage ==
    ASSUME RolesInv, [RolesNext]_rolesVars PROVE RolesTypeOK' /\ PageWaits'
<1> USE RolesAssumption DEF Nobody
<1>1. ASSUME NEW s \in Staff, PickPerson(s) PROVE RolesTypeOK' /\ PageWaits'
  BY <1>1 DEF PickPerson, Shown, RolesTypeOK, PageWaits, RolesInv
<1>2. CASE Search
  BY <1>2 DEF Search, RolesTypeOK, PageWaits, RolesInv
<1>3. ASSUME NEW p \in Press, NEW k \in {"grant", "revoke"}, NEW i \in 1..MaxIds, NEW r \in Role, chosen \in Staff,
             k = "grant" => i = formId, Pressed(p, k, i, r)
      PROVE  RolesTypeOK' /\ PageWaits'
  <2>1. /\ NewPress(p, k, i, chosen, r, visit.count) /\ waiting' = p
        /\ UNCHANGED <<formId, chosen, visit, flying, assigned, taken, made, audited>>
    BY <1>3, NewOne DEF Pressed, RolesInv
  <2>2. RolesTypeOK'
    BY <2>1 DEF NewPress, RolesTypeOK, RolesInv
  <2>3. PageWaits'
    BY <2>1, <1>3 DEF NewPress, PageWaits, RolesInv
  <2> QED BY <2>2, <2>3
<1>4. ASSUME NEW p \in Press, ReadAnswer(p) PROVE RolesTypeOK' /\ PageWaits'
  <2>1. p # Nobody /\ press[p].id <= MaxIds
    BY <1>4 DEF ReadAnswer, RolesInv, PageWaits
  <2> QED BY <1>4, <2>1 DEF ReadAnswer, Shown, RolesTypeOK, PageWaits, RolesInv
<1>5. ASSUME NEW p \in Press, AnswerLostOnTheWay(p) PROVE RolesTypeOK' /\ PageWaits'
  BY <1>5 DEF AnswerLostOnTheWay, RolesTypeOK, PageWaits, RolesInv
<1>6. ASSUME NEW p \in Press, NotAuthorized(p) \/ RefusedBefore(p) \/ GiveUpWaiting(p) \/ GotServerError(p) \/ GotAnswer(p)
      PROVE  RolesTypeOK' /\ PageWaits'
  <2>1. PICK y \in Tolds : Moves(p, "answered", y) /\ press[p].pc # "none"
    BY <1>6, HubMoves DEF Tolds
  <2>2. PageWaits'
    BY <1>6, <2>1, HubMoves, MovesKeep DEF Pcs
  <2>3. audited' \in [Press -> {"none", "succeeded", "failed"}]
    <3>1. audited \in [Press -> {"none", "succeeded", "failed"}]
      BY DEF RolesInv, RolesTypeOK
    <3>2. PICK w \in {"none", "failed", "succeeded"} : \/ audited' = [audited EXCEPT ![p] = w]
                                                      \/ audited' = audited
      BY <1>6, HubMoves
    <3> QED BY <3>1, <3>2
  <2>4. press' \in [Press -> Presses]
    BY <2>1 DEF Moves
  <2>5. UNCHANGED <<formId, chosen, visit, waiting, flying, assigned, taken, made>>
    BY <1>6, HubMoves
  <2> QED BY <2>2, <2>3, <2>4, <2>5 DEF RolesInv, RolesTypeOK
<1>7. ASSUME NEW p \in Press, LookUp(p) \/ SendAgain(p) PROVE RolesTypeOK' /\ PageWaits'
  <2>1. PICK x \in {"first", "second"} : Moves(p, x, press[p].told) /\ press[p].pc # "none"
    BY <1>7, LeaveMoves
  <2>2. press[p].told \in Tolds
    BY DEF RolesInv, RolesTypeOK, Presses
  <2>3. PageWaits'
    BY <1>7, <2>1, <2>2, LeaveMoves, MovesKeep DEF Pcs
  <2>4. press' \in [Press -> Presses]
    BY <2>1 DEF Moves
  <2>5. flying' = flying \cup {p} /\ UNCHANGED <<formId, chosen, visit, waiting, assigned, taken, made, audited>>
    BY <1>7, LeaveMoves
  <2> QED BY <2>3, <2>4, <2>5 DEF RolesInv, RolesTypeOK
<1>8. ASSUME NEW p \in Press, Carries(p) \/ Replays(p) \/ Refuses(p) \/ WantsAnother(p) \/ Fails(p)
      PROVE  RolesTypeOK' /\ PageWaits'
  <2>1. press[p].pc # "none" /\ press[p].told \in Tolds
    BY <1>8, HcisMoves DEF RolesInv, RolesTypeOK, Presses, Flights, Waits
  <2>2. PageWaits' /\ press' \in [Press -> Presses]
    <3>1. CASE press' = press
      BY <1>8, <3>1, HcisMoves DEF RolesInv, RolesTypeOK, PageWaits
    <3>2. ASSUME NEW x \in {"told", "told server error", "again"}, NEW y \in Tolds, Moves(p, x, y)
          PROVE  PageWaits' /\ press' \in [Press -> Presses]
      <4>1. x \in Pcs \ {"none"}
        BY DEF Pcs
      <4> QED BY <1>8, <2>1, <3>2, <4>1, HcisMoves, MovesKeep DEF Moves
    <3>3. {"done", "recorded", "nothing changed"} \subseteq Tolds
      BY DEF Tolds
    <3> QED BY <1>8, <2>1, <3>1, <3>2, <3>3, HcisMoves
  <2>3. CASE Carries(p)
    <3>1. Assignment(p) \in [id : 1..MaxIds, who : Staff, role : Role] /\ RequestId(p) \in {"grant", "revoke"} \X (1..MaxIds)
      BY <2>1 DEF RolesInv, PageWaits, Assignment, RequestId, RolesTypeOK, Presses
    <3> QED BY <1>8, <2>2, <2>3, <3>1, HcisMoves DEF Carries, RolesInv, RolesTypeOK
  <2>4. CASE ~Carries(p)
    BY <1>8, <2>2, <2>4, HcisMoves DEF RolesInv, RolesTypeOK
  <2> QED BY <2>2, <2>3, <2>4
<1>9. CASE UNCHANGED rolesVars
  BY <1>9 DEF rolesVars, RolesTypeOK, PageWaits, RolesInv
<1>10. ASSUME NEW p \in Press, NEW r \in Role, formId <= MaxIds, PressGrant(p, r) PROVE RolesTypeOK' /\ PageWaits'
  <2>1. chosen \in Staff /\ formId \in 1..MaxIds
    BY <1>10 DEF PressGrant, RolesInv, RolesTypeOK, PageWaits
  <2> QED BY <1>3, <1>10, <2>1 DEF PressGrant
<1>11. ASSUME NEW p \in Press, NEW a \in assigned, PressRevoke(p, a) PROVE RolesTypeOK' /\ PageWaits'
  <2>1. a.who \in Staff /\ a.id \in 1..MaxIds /\ a.role \in Role
    BY DEF RolesInv, RolesTypeOK
  <2> QED BY <1>3, <1>11, <2>1 DEF PressRevoke
<1> QED BY <1>1, <1>2, <1>4, <1>5, <1>6, <1>7, <1>8, <1>9, <1>10, <1>11 DEF RolesNext

\* HCIS has carried the requestId of p out for another press.
Repeated(p) == \E q \in made : q # p /\ RequestId(q) = RequestId(p)

\* A step of the page alone keeps what HCIS and SQ Hub said.
LEMMA RolesStill ==
    ASSUME RolesInv, UNCHANGED <<press, flying, made, taken, audited>>
    PROVE  Flights' /\ SaysTrue'
<1>1. \A p : RequestId(p)' = RequestId(p) /\ Waits(p)' = Waits(p) /\ SaidTruly(p)' = SaidTruly(p)
  BY DEF RequestId, Waits, SaidTruly
<1> QED BY <1>1 DEF RolesInv, Flights, SaysTrue

\* A new press has been told nothing yet.
LEMMA RolesPressed ==
    ASSUME RolesInv, NEW p \in Press, NEW k, NEW i, NEW w, NEW r, NEW c,
           press[p].pc = "none", NewPress(p, k, i, w, r, c), UNCHANGED <<flying, made, taken, audited>>
    PROVE  Flights' /\ SaysTrue'
<1>1. p \notin made /\ p \notin flying
  BY DEF RolesInv, Flights, Waits
<1>2. \A q \in Press \ {p} : RequestId(q)' = RequestId(q) /\ Waits(q)' = Waits(q) /\ press'[q] = press[q]
  BY DEF NewPress, RequestId, Waits
<1>3. made \subseteq Press \ {p} /\ flying \subseteq Press \ {p}
  BY <1>1 DEF RolesInv, RolesTypeOK
<1>4. press'[p].pc = "begin" /\ press'[p].told = "none" /\ ~Waits(p)'
  BY DEF NewPress, Waits
<1>5. {RequestId(q)' : q \in made} = {RequestId(q) : q \in made}
  BY <1>2, <1>3
<1>6. Flights'
  BY <1>2, <1>3, <1>4, <1>5 DEF RolesInv, Flights
<1>7. ASSUME NEW q \in Press \ {p} PROVE SaidTruly(q)' <=> SaidTruly(q)
  <2>1. Repeated(q)' <=> Repeated(q)
    BY <1>2, <1>3 DEF Repeated
  <2> QED BY <1>2, <2>1 DEF SaidTruly, Repeated
<1>8. SaysTrue'
  BY <1>1, <1>2, <1>4, <1>7 DEF RolesInv, SaysTrue
<1> QED BY <1>6, <1>8

\* The requestIds HCIS has taken stay those of the presses it made.
LEMMA SameRequests ==
    ASSUME RolesInv, UNCHANGED <<taken, made>>, \A q \in Press : RequestId(q)' = RequestId(q)
    PROVE  /\ taken' = {RequestId(q) : q \in made}'
           /\ \A q, z \in made' : RequestId(q)' = RequestId(z)' => q = z
<1>1. made \subseteq Press /\ made' = made
  BY DEF RolesInv, RolesTypeOK
<1>2. {RequestId(q)' : q \in made'} = {RequestId(q) : q \in made}
  BY <1>1
<1>3. \A q, z \in made : RequestId(q) = RequestId(z) => q = z
  BY DEF RolesInv, Flights
<1>4. \A q, z \in made' : RequestId(q)' = RequestId(z)' => q = z
  BY <1>1, <1>3
<1>5. taken' = {RequestId(q)' : q \in made'}
  BY <1>2 DEF RolesInv, Flights
<1> QED BY <1>4, <1>5

\* The end of a press at SQ Hub.
LEMMA RolesAnswered ==
    ASSUME RolesInv, NEW p \in Press,
           NotAuthorized(p) \/ RefusedBefore(p) \/ GiveUpWaiting(p) \/ GotServerError(p) \/ GotAnswer(p)
    PROVE  Flights' /\ SaysTrue'
<1>1. PICK y \in {"done", "recorded", "nothing changed", "unknown"} :
        /\ Moves(p, "answered", y)
        /\ \/ y = press[p].told /\ press[p].pc = "told"
           \/ y = "unknown" /\ press[p].pc \in {"first", "second", "told", "told server error"}
           \/ y = "nothing changed" /\ press[p].pc \in {"begin", "again"}
        /\ \E w \in {"none", "failed", "succeeded"} :
              /\ w = "succeeded" => y = "done"
              /\ audited' = [audited EXCEPT ![p] = w] \/ audited' = audited
  BY HubMoves
<1>2. UNCHANGED <<flying, made, taken>>
  BY HubMoves
<1>3. "answered" \in Pcs \ {"none"} /\ y \in Tolds /\ press[p].pc # "none"
  BY <1>1 DEF Pcs, Tolds
<1>4. \A q \in Press : RequestId(q)' = RequestId(q)
  BY <1>1, <1>3, MovesKeep
<1>5. made \subseteq Press /\ flying \subseteq Press /\ audited \in [Press -> {"none", "succeeded", "failed"}]
  BY DEF RolesInv, RolesTypeOK
<1>6. \A q \in Press \ {p} : Waits(q)' = Waits(q) /\ press'[q] = press[q]
  BY <1>1 DEF Moves, Waits
<1>7. press'[p].pc = "answered" /\ press'[p].told = y /\ ~Waits(p)'
  BY <1>1 DEF Moves, Waits
<1>8. Flights'
  <2>2. taken' = {RequestId(q) : q \in made}' /\ \A q, z \in made' : RequestId(q)' = RequestId(z)' => q = z
    BY <1>2, <1>4, SameRequests
  <2>3. \A q \in flying' : q \notin made' /\ (Waits(q)' \/ (press'[q].pc = "answered" /\ press'[q].told = "unknown"))
    <3>1. p \notin made \/ p \notin flying
      BY DEF RolesInv, Flights
    <3>2. y = "unknown" \/ press[p].pc \in {"told", "begin", "again"}
      BY <1>1
    <3>3. y = "unknown" \/ p \notin flying
      BY <3>2 DEF RolesInv, Flights, Waits
    <3> QED BY <1>2, <1>5, <1>6, <1>7, <3>1, <3>3 DEF RolesInv, Flights
  <2>4. \A q \in Press : Waits(q)' => q \in flying'
    BY <1>2, <1>6, <1>7 DEF RolesInv, Flights
  <2>5. \A q \in made' : press'[q].pc \notin {"none", "begin", "again"}
    BY <1>2, <1>5, <1>6, <1>7 DEF RolesInv, Flights
  <2> QED BY <2>2, <2>3, <2>4, <2>5 DEF Flights
<1>9. \A q \in Press : Repeated(q)' <=> Repeated(q)
  BY <1>2, <1>4, <1>5 DEF Repeated
<1>10. \A q \in Press \ {p} : SaidTruly(q)' <=> SaidTruly(q)
  BY <1>2, <1>6, <1>9 DEF SaidTruly, Repeated
<1>11. SaidTruly(p)'
  <2>1. CASE press[p].pc = "told" /\ y = press[p].told
    BY <1>2, <1>7, <1>9, <2>1 DEF RolesInv, SaysTrue, SaidTruly, Repeated
  <2>2. CASE y = "unknown"
    BY <1>7, <2>2 DEF SaidTruly
  <2>3. CASE y = "nothing changed" /\ press[p].pc \in {"begin", "again"}
    BY <1>2, <1>7, <2>3 DEF RolesInv, Flights, SaidTruly
  <2> QED BY <1>1, <2>1, <2>2, <2>3
<1>12. \A q \in Press : audited'[q] = "succeeded" => q \in made'
  <2>1. PICK w \in {"none", "failed", "succeeded"} :
              /\ w = "succeeded" => y = "done"
              /\ audited' = [audited EXCEPT ![p] = w] \/ audited' = audited
    BY <1>1
  <2>2. y = "done" => p \in made
    BY <1>1 DEF RolesInv, SaysTrue, SaidTruly
  <2> QED BY <1>2, <1>5, <2>1, <2>2 DEF RolesInv, SaysTrue
<1> QED BY <1>6, <1>8, <1>10, <1>11, <1>12 DEF RolesInv, SaysTrue

\* A change leaves SQ Hub, or leaves it a second time.
LEMMA RolesLeft ==
    ASSUME RolesInv, NEW p \in Press, LookUp(p) \/ SendAgain(p)
    PROVE  Flights' /\ SaysTrue'
<1>1. PICK x \in {"first", "second"} : press[p].pc \in {"begin", "again"} /\ Moves(p, x, press[p].told)
  BY LeaveMoves
<1>2. UNCHANGED <<made, taken, audited>> /\ flying' = flying \cup {p}
  BY LeaveMoves
<1>3. x \in Pcs \ {"none"} /\ press[p].told \in Tolds /\ press[p].pc # "none"
  BY <1>1 DEF Pcs, RolesInv, RolesTypeOK, Presses
<1>4. \A q \in Press : RequestId(q)' = RequestId(q)
  BY <1>1, <1>3, MovesKeep
<1>5. made \subseteq Press /\ flying \subseteq Press /\ p \notin made
  BY <1>1 DEF RolesInv, RolesTypeOK, Flights
<1>6. \A q \in Press \ {p} : Waits(q)' = Waits(q) /\ press'[q] = press[q]
  BY <1>1 DEF Moves, Waits
<1>7. press'[p].pc = x /\ Waits(p)'
  BY <1>1 DEF Moves, Waits
<1>8. Flights'
  <2>2. taken' = {RequestId(q) : q \in made}' /\ \A q, z \in made' : RequestId(q)' = RequestId(z)' => q = z
    BY <1>2, <1>4, SameRequests
  <2>3. \A q \in flying' : q \notin made' /\ (Waits(q)' \/ (press'[q].pc = "answered" /\ press'[q].told = "unknown"))
    BY <1>2, <1>5, <1>6, <1>7 DEF RolesInv, Flights
  <2>4. \A q \in Press : Waits(q)' => q \in flying'
    BY <1>2, <1>6 DEF RolesInv, Flights
  <2>5. \A q \in made' : press'[q].pc \notin {"none", "begin", "again"}
    BY <1>2, <1>5, <1>6 DEF RolesInv, Flights
  <2> QED BY <2>2, <2>3, <2>4, <2>5 DEF Flights
<1>9. \A q \in Press : Repeated(q)' <=> Repeated(q)
  BY <1>2, <1>4, <1>5 DEF Repeated
<1>10. \A q \in Press \ {p} : SaidTruly(q)' <=> SaidTruly(q)
  BY <1>2, <1>6, <1>9 DEF SaidTruly, Repeated
<1> QED BY <1>2, <1>6, <1>7, <1>8, <1>10 DEF RolesInv, SaysTrue

\* A change reaches HCIS.
LEMMA RolesAtHcis ==
    ASSUME RolesInv, NEW p \in Press,
           Carries(p) \/ Replays(p) \/ Refuses(p) \/ WantsAnother(p) \/ Fails(p)
    PROVE  Flights' /\ SaysTrue'
<1>1. /\ p \in flying /\ flying' = flying \ {p} /\ UNCHANGED audited
      /\ Carries(p) \/ UNCHANGED <<taken, made>>
  BY HcisMoves
<1>2. /\ p \notin made
      /\ press[p].pc # "none"
      /\ ~Waits(p) => press[p].pc = "answered" /\ press[p].told = "unknown"
  BY <1>1 DEF RolesInv, Flights, Waits
<1>3. made \subseteq Press /\ flying \subseteq Press /\ press[p].told \in Tolds
  BY DEF RolesInv, RolesTypeOK, Presses
<1>4. \/ ~Waits(p) /\ press' = press
      \/ \E x \in {"told", "told server error", "again"}, y \in Tolds : Waits(p) /\ Moves(p, x, y)
  <2>1. {"done", "recorded", "nothing changed"} \subseteq Tolds
    BY DEF Tolds
  <2> QED BY <1>3, <2>1, HcisMoves
<1>5. \A q \in Press : RequestId(q)' = RequestId(q)
  <2>1. CASE press' = press
    BY <2>1 DEF RequestId
  <2>2. ASSUME NEW x \in {"told", "told server error", "again"}, NEW y \in Tolds, Moves(p, x, y)
        PROVE  \A q \in Press : RequestId(q)' = RequestId(q)
    <3>1. x \in Pcs \ {"none"}
      BY DEF Pcs
    <3> QED BY <1>2, <2>2, <3>1, MovesKeep
  <2> QED BY <1>4, <2>1, <2>2
<1>6. \A q \in Press \ {p} : Waits(q)' = Waits(q) /\ press'[q] = press[q]
  BY <1>4 DEF Moves, Waits
<1>7. ~Waits(p)' /\ (Carries(p) => press'[p].pc \notin {"none", "begin", "again"})
  BY <1>2, HcisMoves DEF Moves, Waits
<1>8. \A q \in made' : q \in made \/ (q = p /\ Carries(p))
  BY <1>1 DEF Carries
<1>9. made \subseteq made' /\ (Carries(p) => p \in made')
  BY <1>1 DEF Carries
<1>10. Flights'
  <2>1. taken' = {RequestId(q) : q \in made}' /\ \A q, z \in made' : RequestId(q)' = RequestId(z)' => q = z
    <3>1. {RequestId(q)' : q \in made'} = {RequestId(q) : q \in made'}
      BY <1>3, <1>5, <1>8
    <3>2. CASE Carries(p)
      <4>1. made' = made \cup {p} /\ taken' = taken \cup {RequestId(p)} /\ RequestId(p) \notin taken
        BY <3>2 DEF Carries
      <4>2. {RequestId(q) : q \in made'} = {RequestId(q) : q \in made} \cup {RequestId(p)}
        BY <4>1
      <4> QED BY <1>3, <1>5, <3>1, <4>1, <4>2 DEF RolesInv, Flights
    <3>3. CASE UNCHANGED <<taken, made>>
      BY <1>5, <3>3, SameRequests
    <3> QED BY <1>1, <3>2, <3>3
  <2>2. \A q \in flying' : q \notin made' /\ (Waits(q)' \/ (press'[q].pc = "answered" /\ press'[q].told = "unknown"))
    BY <1>1, <1>3, <1>6, <1>8 DEF RolesInv, Flights
  <2>3. \A q \in Press : Waits(q)' => q \in flying'
    BY <1>1, <1>6, <1>7 DEF RolesInv, Flights
  <2>4. \A q \in made' : press'[q].pc \notin {"none", "begin", "again"}
    BY <1>2, <1>3, <1>6, <1>7, <1>8 DEF RolesInv, Flights
  <2> QED BY <2>1, <2>2, <2>3, <2>4 DEF Flights
<1>11. \A q \in Press : Repeated(q) => Repeated(q)'
  BY <1>3, <1>5, <1>9 DEF Repeated
<1>12. ASSUME NEW q \in Press \ {p}, SaidTruly(q) PROVE SaidTruly(q)'
  <2>1. press'[q] = press[q] /\ (q \in made' => q \in made)
    BY <1>6, <1>8
  <2> QED BY <1>9, <1>11, <1>12, <2>1 DEF SaidTruly, Repeated
<1>13. press'[p].pc \in {"told", "answered"} => SaidTruly(p)'
  <2>1. CASE ~Waits(p)
    <3>1. press' = press
      BY <2>1, HcisMoves
    <3> QED BY <1>2, <2>1, <3>1 DEF SaidTruly
  <2>2. ASSUME NEW y \in {"done", "recorded", "nothing changed"}, Moves(p, "told", y), y = "done" => Carries(p),
               y = "recorded" => RequestId(p) \in taken, y = "nothing changed" => ~Carries(p)
        PROVE  SaidTruly(p)'
    <3>1. press'[p].told = y
      BY <2>2 DEF Moves
    <3>2. y = "recorded" => Repeated(p)
      BY <1>2, <2>2 DEF RolesInv, Flights, Repeated
    <3>3. y = "nothing changed" => p \notin made'
      BY <1>2, <1>8, <2>2
    <3>4. y = "recorded" => Repeated(p)'
      BY <1>11, <3>2
    <3> QED BY <1>9, <2>2, <3>1, <3>3, <3>4 DEF SaidTruly, Repeated
  <2>3. CASE Moves(p, "told server error", press[p].told) \/ Moves(p, "again", press[p].told)
    BY <2>3 DEF Moves
  <2> QED BY <2>1, <2>2, <2>3, HcisMoves
<1> QED BY <1>1, <1>6, <1>9, <1>10, <1>12, <1>13 DEF RolesInv, SaysTrue

\* Every step keeps the inductive invariant.
LEMMA RolesStep == ASSUME RolesInv, [RolesNext]_rolesVars PROVE RolesInv'
<1>1. RolesTypeOK' /\ PageWaits'
  BY RolesTypesPage
<1>2. Flights' /\ SaysTrue'
  <2>1. ASSUME NEW p \in Press, NEW kind, NEW id, NEW r, Pressed(p, kind, id, r),
               kind \in {"grant", "revoke"}, id \in 1..MaxIds, r \in Role, chosen \in Staff
        PROVE  Flights' /\ SaysTrue'
    <3>1. press[p].pc = "none" /\ UNCHANGED <<flying, made, taken, audited>>
      BY <2>1 DEF Pressed, NextPress
    <3>2. NewPress(p, kind, id, chosen, r, visit.count)
      BY <2>1, NewOne DEF RolesInv
    <3> QED BY <3>1, <3>2, RolesPressed
  <2>2. ASSUME NEW p \in Press, NEW r \in Role, formId <= MaxIds, PressGrant(p, r) PROVE Flights' /\ SaysTrue'
    <3>1. chosen \in Staff /\ formId \in 1..MaxIds
      BY <2>2, RolesAssumption DEF PressGrant, RolesInv, RolesTypeOK, PageWaits
    <3> QED BY <2>1, <2>2, <3>1 DEF PressGrant
  <2>3. ASSUME NEW p \in Press, NEW a \in assigned, PressRevoke(p, a) PROVE Flights' /\ SaysTrue'
    <3>1. a.who \in Staff /\ a.id \in 1..MaxIds /\ a.role \in Role
      BY DEF RolesInv, RolesTypeOK
    <3> QED BY <2>1, <2>3, <3>1 DEF PressRevoke
  <2>4. ASSUME NEW s \in Staff, PickPerson(s) PROVE Flights' /\ SaysTrue'
    BY <2>4, RolesStill DEF PickPerson
  <2>5. ASSUME NEW p \in Press, ReadAnswer(p) \/ AnswerLostOnTheWay(p) PROVE Flights' /\ SaysTrue'
    BY <2>5, RolesStill DEF ReadAnswer, AnswerLostOnTheWay
  <2>6. CASE Search \/ UNCHANGED rolesVars
    BY <2>6, RolesStill DEF Search, rolesVars
  <2> QED BY <2>2, <2>3, <2>4, <2>5, <2>6, RolesAnswered, RolesLeft, RolesAtHcis DEF RolesNext
<1> QED BY <1>1, <1>2 DEF RolesInv

\* It holds at the start.
LEMMA RolesStart == RolesInit => RolesInv
<1> SUFFICES ASSUME RolesInit PROVE RolesInv
  OBVIOUS
<1>1. press = [p \in Press |-> NoPress] /\ NoPress \in Presses
  BY RolesAssumption DEF RolesInit, NoPress, Presses, Pcs, Tolds, Nobody
<1>2. \A p \in Press : press[p].pc = "none" /\ press[p].told = "none"
  BY <1>1 DEF NoPress
<1>3. RolesTypeOK
  BY <1>1, RolesAssumption DEF RolesInit, RolesTypeOK, Nobody
<1>4. PageWaits /\ Flights /\ SaysTrue
  BY <1>2 DEF RolesInit, PageWaits, Flights, SaysTrue, Waits, Nobody
<1> QED BY <1>3, <1>4 DEF RolesInv

\* The inductive invariant of the roles holds throughout.
THEOREM RolesInvariant == RolesSpec => []RolesInv
BY RolesStart, RolesStep, PTL DEF RolesSpec

\* Every variable of the roles has its type.
THEOREM RolesTyped == RolesSpec => []RolesTypeOK
<1>1. RolesInv => RolesTypeOK
  BY DEF RolesInv
<1> QED BY <1>1, RolesInvariant, PTL

\* What a page of the roles says happened to a press did happen: "done" and "recorded" mean that
\* HCIS made the assignment, "nothing changed" that it did not and will not by this press, whatever was
\* lost between SQ Hub and HCIS and however often the press was repeated.
THEOREM ToldIsTrue == RolesSpec => []ToldWhatHappened
<1>1. RolesInv => ToldWhatHappened
  BY DEF RolesInv, RolesTypeOK, Flights, SaysTrue, SaidTruly, ToldWhatHappened, Waits
<1> QED BY <1>1, RolesInvariant, PTL

-----------------------------------------------------------------------------
(* The copy of the organization directory. *)

\* A set of natural numbers has a least one.
LEMMA LeastOf ==
    ASSUME NEW S, S \subseteq Nat, S # {}
    PROVE  \E x \in S : \A y \in S : x <= y
<1>1. PICK x \in S : \A y \in S : <<y, x>> \notin OpToRel(<, Nat)
  BY NatLessThanWellFounded, WFMin
<1>2. \A y \in S : ~(y < x)
  BY <1>1 DEF OpToRel
<1> QED BY <1>2

\* A finite set of natural numbers has a greatest one.
LEMMA GreatestOf ==
    ASSUME NEW S, S \subseteq Nat, IsFiniteSet(S), S # {}
    PROVE  Max(S) \in S /\ \A y \in S : Max(S) >= y
<1> DEFINE Above(x) == {y \in S : y > x}
           Counts == {Cardinality(Above(x)) : x \in S}
<1>1. \A x \in S : IsFiniteSet(Above(x)) /\ Cardinality(Above(x)) \in Nat
  BY FS_Subset, FS_CardinalityType
<1>2. PICK x \in S : \A y \in S : Cardinality(Above(x)) <= Cardinality(Above(y))
  <2>1. Counts \subseteq Nat /\ Counts # {}
    BY <1>1
  <2> HIDE DEF Counts
  <2>2. PICK c \in Counts : \A d \in Counts : c <= d
    BY <2>1, LeastOf
  <2> QED BY <2>2 DEF Counts
<1>3. ASSUME NEW z \in S, z > x PROVE FALSE
  <2>1. Above(z) \subseteq Above(x) \ {z}
    <3>1. x \in Nat /\ z \in Nat /\ \A y \in Above(z) : y \in Nat /\ y \in S /\ y > z
      OBVIOUS
    <3>2. \A y \in Above(z) : y > x /\ y # z
      BY <1>3, <3>1
    <3> QED BY <3>1, <3>2
  <2>2. z \in Above(x)
    BY <1>3
  <2> HIDE DEF Above
  <2>3. Cardinality(Above(x) \ {z}) = Cardinality(Above(x)) - 1 /\ IsFiniteSet(Above(x) \ {z})
    <3>1. IsFiniteSet(Above(x))
      BY <1>1
    <3> QED BY <2>2, <3>1, FS_RemoveElement
  <2>4. Cardinality(Above(z)) <= Cardinality(Above(x)) - 1
    BY <2>1, <2>3, FS_Subset
  <2> QED BY <1>1, <1>2, <2>4
<1>4. x \in S /\ \A y \in S : x >= y
  BY <1>3
<1> QED BY <1>4 DEF Max

\* A synchronization that pulls holds the lock, and knows the copy as it is.
HoldsLock ==
    \A i \in Instance : run[i].pc \in {"pull", "pulled"} => lock = i /\ run[i].previous = projection

\* The copy is of a version HCIS has had, and a pull of one at least as late.
Edits ==
    /\ projection.edit <= hcis.edit
    /\ projection.edit = 0 => projection = NoProjection
    /\ \A m \in projection.gone : projection.of.people[m] = "absent"
    /\ \A i \in Instance : run[i].pc = "pulled" =>
          run[i].edit >= 1 /\ projection.edit <= run[i].edit /\ run[i].edit <= hcis.edit

\* l has of the people its version v mentions, up to where it is, those of its kind.
GotUpTo(l, v, after) ==
    \A m \in Member : v.people[m] # "absent" =>
        /\ m \in l.got => v.people[m] = l.kind
        /\ m <= after /\ v.people[m] = l.kind => m \in l.got

\* What a reader has got of the version it reads.
Pages ==
    \A r \in Reader :
        /\ list[r].kind \in {"active", "inactive"}
        /\ list[r].pc = "start" => list[r].got = {} /\ list[r].after = 0
        /\ list[r].pc = "next" => GotUpTo(list[r], list[r].version, list[r].after)
        /\ list[r].pc = "done" => \A m \in Member : list[r].version.people[m] # "absent" =>
              (m \in list[r].got <=> list[r].version.people[m] = list[r].kind)

\* The inductive invariant.
DirectoryInv == DirectoryTypeOK /\ HoldsLock /\ Edits /\ Pages

\* What a step leaves of a synchronization: only i's changes.
OnlyRun(i, new) == run' \in [Instance -> Runs] /\ run'[i] = new /\ \A j \in Instance \ {i} : run'[j] = run[j]

\* The records the module names have their types.
LEMMA DirectoryTypes ==
    /\ NoProjection \in Rows /\ NoRun \in Runs /\ NoContent \in Content
    /\ \A k \in RunStatus : [NoList EXCEPT !.kind = k] \in Lists
<1>1. 0 \in 0..MaxDay /\ 0 \in 0..MaxRevision /\ 0 \in 0..MaxEdits
  BY DirectoryAssumption
<1>2. NoContent \in Content
  BY <1>1 DEF NoContent, Content, RunStatus
<1>3. NoProjection \in Rows
  BY <1>1, <1>2 DEF NoProjection, Rows
<1>4. NoRun \in Runs
  BY <1>1, <1>2, <1>3 DEF NoRun, Runs, RunPcs
<1>5. NoList \in Lists
  BY <1>2 DEF NoList, Lists, ListPcs, RunStatus
<1>6. \A k \in RunStatus : [NoList EXCEPT !.kind = k] \in Lists
  BY <1>5 DEF Lists
<1> QED BY <1>2, <1>3, <1>4, <1>6

\* The inductive invariant holds at the start.
LEMMA DirectoryStart == DirectoryInit => DirectoryInv
<1> SUFFICES ASSUME DirectoryInit PROVE DirectoryInv
  OBVIOUS
<1>1. 1 \in 0..MaxEdits /\ 1 \in 1..MaxEdits /\ 1 \in 1..MaxRevision /\ 1 \in 1..MaxDay
  BY DirectoryAssumption
<1>2. hcis \in [edit : 1..MaxEdits, revision : 1..MaxRevision, people : [Member -> RunStatus]] /\ hcis.edit = 1
  BY <1>1 DEF DirectoryInit, RunStatus
<1>3. run \in [Instance -> Runs] /\ \A i \in Instance : run[i].pc = "idle"
  BY DirectoryTypes DEF DirectoryInit, NoRun
<1>4. projection \in Rows /\ projection = NoProjection /\ projection.edit = 0 /\ projection.gone = {}
  BY DirectoryTypes DEF DirectoryInit, NoProjection
<1>5. ASSUME NEW r \in Reader
      PROVE  /\ list[r] \in Lists
             /\ list[r].kind \in {"active", "inactive"} /\ list[r].pc = "start"
             /\ list[r].got = {} /\ list[r].after = 0
  <2>1. PICK k \in {"active", "inactive"} : list[r] = [NoList EXCEPT !.kind = k]
    BY DEF DirectoryInit
  <2> QED BY <2>1, DirectoryTypes DEF NoList, RunStatus
<1>6. list \in [Reader -> Lists]
  BY <1>5 DEF DirectoryInit
<1>7. DirectoryTypeOK
  BY <1>1, <1>2, <1>3, <1>4, <1>6 DEF DirectoryInit, DirectoryTypeOK
<1>8. HoldsLock /\ Edits
  BY <1>2, <1>3, <1>4 DEF HoldsLock, Edits
<1>9. Pages
  BY <1>5 DEF Pages
<1> QED BY <1>7, <1>8, <1>9 DEF DirectoryInv

\* A synchronization moves without writing the copy.
LEMMA DirectoryRunStep ==
    ASSUME DirectoryInv, NEW i \in Instance,
           StartRun(i) \/ BeginPull(i) \/ SkipRun(i) \/ HcisAnswers(i) \/ FailRun(i)
           \/ LoseConnection(i) \/ FindConnectionLost(i) \/ Restart(i)
    PROVE  DirectoryTypeOK' /\ HoldsLock' /\ Edits'
<1>0. /\ run \in [Instance -> Runs] /\ run[i] \in Runs /\ projection \in Rows /\ lock \in Instance \cup {Free}
      /\ Free \notin Instance
  BY DirectoryAssumption DEF DirectoryInv, DirectoryTypeOK, Free
<1>1. UNCHANGED <<hcis, today, projection, list>>
  BY DEF StartRun, BeginPull, SkipRun, HcisAnswers, FailRun, LoseConnection, FindConnectionLost, Restart
<1>a. ASSUME NEW new \in Runs, OnlyRun(i, new),
             lock' = lock \/ (lock = Free /\ lock' = i) \/ lock' = IF lock = i THEN Free ELSE lock,
             new.pc \in {"pull", "pulled"} => lock' = i /\ new.previous = projection,
             new.pc = "pulled" => new.edit = hcis.edit
      PROVE  DirectoryTypeOK' /\ HoldsLock' /\ Edits'
  <2>1. lock' \in Instance \cup {Free}
    BY <1>0, <1>a
  <2>2. DirectoryTypeOK'
    BY <1>1, <1>a, <2>1 DEF OnlyRun, DirectoryInv, DirectoryTypeOK
  <2>3. ASSUME NEW j \in Instance, run'[j].pc \in {"pull", "pulled"} PROVE lock' = j /\ run'[j].previous = projection'
    <3>1. CASE j = i
      BY <1>1, <1>a, <2>3, <3>1 DEF OnlyRun
    <3>2. CASE j # i
      BY <1>0, <1>1, <1>a, <2>3, <3>2 DEF OnlyRun, DirectoryInv, HoldsLock
    <3> QED BY <3>1, <3>2
  <2>4. hcis.edit \in Nat /\ hcis.edit >= 1 /\ projection.edit <= hcis.edit
    BY DirectoryAssumption DEF DirectoryInv, DirectoryTypeOK, Edits
  <2>5. Edits'
    BY <1>1, <1>a, <2>4 DEF OnlyRun, DirectoryInv, Edits
  <2> QED BY <2>2, <2>3, <2>5 DEF HoldsLock
<1>2. CASE run' = [run EXCEPT ![i] = NoRun] /\ (lock' = lock \/ lock' = IF lock = i THEN Free ELSE lock)
  <2>1. OnlyRun(i, NoRun) /\ NoRun.pc = "idle"
    BY <1>0, <1>2, DirectoryTypes DEF OnlyRun, NoRun
  <2> QED BY <1>2, <1>a, <2>1, DirectoryTypes
<1>3. CASE StartRun(i)
  <2> DEFINE new == [NoRun EXCEPT !.pc = "begin", !.asOf = today]
  <2>1. today \in 0..MaxDay /\ "begin" \in RunPcs
    BY DEF RunPcs, DirectoryInv, DirectoryTypeOK
  <2>2. new \in Runs /\ new.pc = "begin"
    BY <2>1, DirectoryTypes DEF Runs
  <2>3. run' = [run EXCEPT ![i] = new] /\ lock' = lock
    BY <1>3 DEF StartRun
  <2> HIDE DEF new
  <2>4. OnlyRun(i, new)
    BY <1>0, <2>2, <2>3 DEF OnlyRun
  <2> QED BY <1>a, <2>2, <2>3, <2>4
<1>4. CASE BeginPull(i)
  <2>1. run' = [run EXCEPT ![i].pc = "pull", ![i].previous = projection] /\ lock = Free /\ lock' = i
    BY <1>4 DEF BeginPull, TakeLock
  <2>2. "pull" \in RunPcs
    BY DEF RunPcs
  <2>3. run'[i] \in Runs /\ run'[i].pc = "pull" /\ run'[i].previous = projection /\ OnlyRun(i, run'[i])
    BY <1>0, <2>1, <2>2 DEF OnlyRun, Runs
  <2> QED BY <1>a, <2>1, <2>3
<1>5. CASE HcisAnswers(i)
  <2> DEFINE c == [asOf |-> run[i].asOf, revision |-> hcis.revision, people |-> hcis.people]
  <2>1. run' = [run EXCEPT ![i].pc = "pulled", ![i].edit = hcis.edit, ![i].of = c] /\ lock' = lock /\ run[i].pc = "pull"
    BY <1>5 DEF HcisAnswers
  <2>2. "pulled" \in RunPcs /\ hcis.edit \in 0..MaxEdits
    BY DEF RunPcs, DirectoryInv, DirectoryTypeOK
  <2>3. c \in Content
    BY <1>0, DirectoryAssumption DEF Content, Runs, DirectoryInv, DirectoryTypeOK
  <2> HIDE DEF c
  <2>4. run'[i] \in Runs /\ run'[i].pc = "pulled" /\ run'[i].edit = hcis.edit /\ run'[i].previous = run[i].previous
        /\ OnlyRun(i, run'[i])
    BY <1>0, <2>1, <2>2, <2>3 DEF OnlyRun, Runs
  <2>5. lock = i /\ run[i].previous = projection
    BY <2>1 DEF DirectoryInv, HoldsLock
  <2> QED BY <1>a, <2>1, <2>4, <2>5
<1>6. CASE FailRun(i)
  <2>1. PICK next \in {"idle", "stopped"} : run' = [run EXCEPT ![i] = [NoRun EXCEPT !.pc = next]]
    BY <1>6 DEF FailRun
  <2> DEFINE new == [NoRun EXCEPT !.pc = next]
  <2>2. next \in RunPcs
    BY DEF RunPcs
  <2>3. new \in Runs /\ new.pc = next
    BY <2>2, DirectoryTypes DEF Runs
  <2> HIDE DEF new
  <2>4. OnlyRun(i, new)
    BY <1>0, <2>1, <2>3 DEF OnlyRun, new
  <2> QED BY <1>a, <1>6, <2>3, <2>4 DEF FailRun
<1>7. CASE LoseConnection(i)
  <2>1. "cut" \in RunPcs
    BY DEF RunPcs
  <2>2. run'[i] \in Runs /\ run'[i].pc = "cut" /\ OnlyRun(i, run'[i])
    BY <1>0, <1>7, <2>1 DEF LoseConnection, OnlyRun, Runs
  <2> QED BY <1>a, <1>7, <2>2 DEF LoseConnection
<1> QED BY <1>2, <1>3, <1>4, <1>5, <1>6, <1>7 DEF SkipRun, FindConnectionLost, Restart

\* A synchronization writes the copy: it moves forward, and nobody in it is forgotten.
LEMMA DirectoryApplyStep ==
    ASSUME DirectoryInv, NEW i \in Instance, Apply(i)
    PROVE  /\ DirectoryTypeOK' /\ HoldsLock' /\ Edits'
           /\ projection'.edit >= projection.edit
           /\ projection'.of.asOf >= projection.of.asOf /\ projection'.of.revision >= projection.of.revision
           /\ \A m \in Member : projection.of.people[m] # "absent" \/ m \in projection.gone =>
                 projection'.of.people[m] # "absent" \/ m \in projection'.gone
<1>0. /\ run \in [Instance -> Runs] /\ run[i] \in Runs /\ projection \in Rows /\ lock \in Instance \cup {Free}
      /\ Free \notin Instance
  BY DirectoryAssumption DEF DirectoryInv, DirectoryTypeOK, Free
<1>1. /\ lock = i /\ run[i].previous = projection /\ run[i].pc = "pulled"
      /\ run[i].edit >= 1 /\ projection.edit <= run[i].edit /\ run[i].edit <= hcis.edit
  BY DEF Apply, DirectoryInv, HoldsLock, Edits
<1>2. /\ ~(Stored(projection) /\ Regresses(run[i].of, projection.of))
      /\ projection' = IF Stored(projection) /\ projection.of = run[i].of
                       THEN [projection EXCEPT !.edit = run[i].edit]
                       ELSE [of |-> run[i].of, edit |-> run[i].edit, gone |-> Tombstones(projection, run[i].of)]
      /\ lock' = Free /\ run' = [run EXCEPT ![i] = NoRun] /\ UNCHANGED <<hcis, today, list>>
  BY <1>1 DEF Apply
<1>3. /\ run[i].of \in Content /\ run[i].edit \in 0..MaxEdits /\ projection.of \in Content
      /\ projection.edit \in 0..MaxEdits /\ projection.gone \subseteq Member
  BY <1>0 DEF Runs, Rows
<1>4. OnlyRun(i, NoRun) /\ NoRun.pc = "idle"
  BY <1>0, <1>2, DirectoryTypes DEF OnlyRun, NoRun
<1>5. /\ projection' \in Rows /\ projection'.edit = run[i].edit /\ projection'.of = run[i].of
      /\ \/ projection'.gone = projection.gone /\ projection.of = run[i].of
         \/ projection'.gone = Tombstones(projection, run[i].of)
  <2>1. Tombstones(projection, run[i].of) \subseteq Member
    BY DEF Tombstones
  <2>2. CASE Stored(projection) /\ projection.of = run[i].of
    BY <1>0, <1>2, <1>3, <2>2 DEF Rows
  <2>3. CASE ~(Stored(projection) /\ projection.of = run[i].of)
    BY <1>2, <1>3, <2>1, <2>3 DEF Rows
  <2> QED BY <2>2, <2>3
<1>6. DirectoryTypeOK'
  BY <1>2, <1>4, <1>5 DEF OnlyRun, DirectoryInv, DirectoryTypeOK
<1>7. \A j \in Instance : run'[j].pc \notin {"pull", "pulled"}
  BY <1>1, <1>4 DEF OnlyRun, DirectoryInv, HoldsLock
<1>8. \A m \in projection'.gone : projection'.of.people[m] = "absent"
  BY <1>5 DEF Tombstones, DirectoryInv, Edits
<1>9. HoldsLock' /\ Edits'
  <2>1. projection'.edit >= 1 /\ projection'.edit <= hcis'.edit /\ projection'.edit \in Nat
    BY <1>1, <1>2, <1>3, <1>5
  <2>2. projection'.edit # 0
    BY <2>1
  <2> QED BY <1>7, <1>8, <2>1, <2>2 DEF HoldsLock, Edits
<1>10. projection'.of.asOf >= projection.of.asOf /\ projection'.of.revision >= projection.of.revision
  <2>1. /\ run[i].of.asOf \in Nat /\ projection.of.asOf \in Nat
        /\ run[i].of.revision \in Nat /\ projection.of.revision \in Nat
    BY <1>3, DirectoryAssumption DEF Content
  <2>2. CASE projection.edit = 0
    <3>1. projection.of.asOf = 0 /\ projection.of.revision = 0
      BY <2>2 DEF DirectoryInv, Edits, NoProjection, NoContent
    <3> QED BY <1>5, <2>1, <3>1
  <2>3. CASE projection.edit # 0
    BY <1>2, <1>3, <1>5, <2>1, <2>3 DEF Stored, Regresses
  <2> QED BY <2>2, <2>3
<1>11. projection'.edit >= projection.edit
  BY <1>1, <1>3, <1>5
<1>12. \A m \in Member : projection.of.people[m] # "absent" \/ m \in projection.gone =>
                 projection'.of.people[m] # "absent" \/ m \in projection'.gone
  BY <1>5 DEF Tombstones
<1> QED BY <1>6, <1>9, <1>10, <1>11, <1>12

\* What the assumption says of people and pages.
LEMMA MembersAreNumbers ==
    /\ IsFiniteSet(Member) /\ Member \subseteq Nat /\ \A m \in Member : m >= 1
    /\ PageSize \in Nat /\ PageSize >= 1
<1>1. PageSize \in Nat \ {0}
  BY DirectoryAssumption
<1>2. \A m \in Member : m \in Nat /\ m # 0
  BY DirectoryAssumption
<1> QED BY <1>1, <1>2, DirectoryAssumption

\* A page is not empty while there is somebody left, and leaves nobody before its last out.
LEMMA PageIsLeast ==
    ASSUME NEW rest, rest \subseteq Member,
           NEW batch, batch = {m \in rest : Cardinality({k \in rest : k <= m}) <= PageSize}
    PROVE  /\ rest # {} => batch # {} /\ Max(batch) \in batch
           /\ \A m \in rest, x \in batch : m <= x => m \in batch
<1> DEFINE UpTo(m) == {k \in rest : k <= m}
<1>1. rest \subseteq Nat /\ IsFiniteSet(rest) /\ batch \subseteq rest /\ PageSize \in Nat /\ PageSize >= 1
  <2>1. IsFiniteSet(rest)
    BY MembersAreNumbers, FS_Subset
  <2> QED BY <2>1, MembersAreNumbers
<1>2. \A m : IsFiniteSet(UpTo(m)) /\ Cardinality(UpTo(m)) \in Nat
  BY <1>1, FS_Subset, FS_CardinalityType
<1>3. \A m : m \in batch <=> m \in rest /\ Cardinality(UpTo(m)) <= PageSize
  OBVIOUS
<1>4. ASSUME NEW m \in rest, NEW x \in batch, m <= x PROVE m \in batch
  <2>1. UpTo(m) \subseteq UpTo(x)
    <3>1. m \in Nat /\ x \in Nat /\ \A k \in UpTo(m) : k \in Nat /\ k \in rest /\ k <= m
      BY <1>1
    <3>2. \A k \in UpTo(m) : k <= x
      BY <1>4, <3>1
    <3> QED BY <3>1, <3>2
  <2> HIDE DEF UpTo
  <2>2. Cardinality(UpTo(m)) <= Cardinality(UpTo(x))
    BY <1>2, <2>1, FS_Subset
  <2> QED BY <1>1, <1>2, <1>3, <2>2
<1>5. ASSUME rest # {} PROVE batch # {} /\ Max(batch) \in batch
  <2>1. PICK x \in rest : \A y \in rest : x <= y
    BY <1>1, <1>5, LeastOf
  <2>2. UpTo(x) = {x}
    <3>1. x \in Nat /\ \A y \in rest : y \in Nat /\ x <= y
      BY <1>1, <2>1
    <3>2. \A y \in rest : y <= x => y = x
      BY <3>1
    <3>3. x <= x
      BY <3>1
    <3> QED BY <3>2, <3>3
  <2>3. x \in batch
    <3> HIDE DEF UpTo
    <3>1. Cardinality(UpTo(x)) = 1
      BY <2>2, FS_Singleton
    <3> QED BY <1>1, <1>3, <3>1
  <2>4. IsFiniteSet(batch) /\ batch \subseteq Nat
    BY <1>1, FS_Subset
  <2> QED BY <2>3, <2>4, GreatestOf
<1> QED BY <1>4, <1>5

\* A reader that reads a page has everybody up to its last.
LEMMA ReadPageStep ==
    ASSUME DirectoryInv, NEW r \in Reader, ReadPage(r)
    PROVE  DirectoryTypeOK' /\ Pages'
<1> DEFINE l == list[r]
           listed == Listed(l.kind)
           rest == {m \in listed : m > l.after}
           batch == PageOf(r)
           more == \E m \in listed \ batch : m > l.after
           v == projection.of
<1>0. /\ list \in [Reader -> Lists] /\ l \in Lists /\ projection \in Rows
      /\ l.kind \in {"active", "inactive"} /\ l.after \in Member \cup {0} /\ l.got \subseteq Member
  BY DEF DirectoryInv, DirectoryTypeOK, Pages, Lists
<1>1. /\ l.pc \in {"start", "next"} /\ (l.pc = "next" => l.version = v)
      /\ list' = [list EXCEPT ![r].pc = IF more THEN "next" ELSE "done",
                              ![r].version = v,
                              ![r].after = IF more THEN Max(batch) ELSE 0,
                              ![r].got = @ \cup batch]
      /\ UNCHANGED <<hcis, today, run, lock, projection>>
  BY DEF ReadPage, CursorHolds
<1>2. listed \subseteq Member /\ \A m \in Member : v.people[m] # "absent" => (m \in listed <=> v.people[m] = l.kind)
  BY <1>0 DEF Listed, DirectoryInv, Edits, Rows
<1>3. batch = {m \in rest : Cardinality({k \in rest : k <= m}) <= PageSize}
  BY DEF PageOf
<1>4. rest \subseteq Member /\ batch \subseteq rest
  BY <1>2, <1>3
<1> HIDE DEF batch, rest, listed
<1>5. /\ rest # {} => batch # {} /\ Max(batch) \in batch
      /\ \A m \in rest, x \in batch : m <= x => m \in batch
  BY <1>3, <1>4, PageIsLeast
<1>6. \A m : m \in rest <=> m \in listed /\ m > l.after
  BY DEF rest
<1>7. more => Max(batch) \in batch
  BY <1>5, <1>6
<1>8. GotUpTo(l, v, l.after)
  <2>1. CASE l.pc = "start"
    <3>1. l.got = {} /\ l.after = 0
      BY <2>1 DEF DirectoryInv, Pages
    <3>2. \A m \in Member : ~(m <= 0)
      BY MembersAreNumbers
    <3> QED BY <3>1, <3>2 DEF GotUpTo
  <2>2. CASE l.pc = "next"
    BY <1>1, <2>2 DEF DirectoryInv, Pages
  <2> QED BY <1>1, <2>1, <2>2
<1> DEFINE n == list'[r]
<1>9. /\ n.kind = l.kind /\ n.version = v /\ n.got = l.got \cup batch
      /\ n.pc = IF more THEN "next" ELSE "done"
      /\ n.after = IF more THEN Max(batch) ELSE 0
      /\ \A q \in Reader \ {r} : list'[q] = list[q]
      /\ list' \in [Reader -> Lists]
  <2> HIDE DEF more
  <2> DEFINE newpc == IF more THEN "next" ELSE "done"
             newafter == IF more THEN Max(batch) ELSE 0
  <2>1. newpc \in ListPcs /\ newafter \in Member \cup {0} /\ v \in Content /\ batch \subseteq Member
    BY <1>0, <1>4, <1>7 DEF ListPcs, Rows
  <2>2. list' = [list EXCEPT ![r].pc = newpc, ![r].version = v, ![r].after = newafter, ![r].got = @ \cup batch]
    BY <1>1
  <2> HIDE DEF newpc, newafter
  <2>3. list' \in [Reader -> Lists] /\ n.kind = l.kind /\ n.version = v /\ n.got = l.got \cup batch /\ n.pc = newpc
        /\ n.after = newafter /\ \A q \in Reader \ {r} : list'[q] = list[q]
    BY <1>0, <2>1, <2>2 DEF Lists
  <2> QED BY <2>3 DEF newpc, newafter
<1>10. \A m \in Member : v.people[m] # "absent" /\ m \in l.got \cup batch => v.people[m] = l.kind
  BY <1>2, <1>4, <1>6, <1>8 DEF GotUpTo
<1>11. Member \subseteq Nat /\ l.after \in Nat
  <2>1. l.after \in Member \cup {0}
    BY <1>0
  <2>2. Member \cup {0} \subseteq Nat
    BY MembersAreNumbers
  <2> QED BY <2>1, <2>2
<1>14. DirectoryTypeOK'
  <2>1. list' \in [Reader -> Lists]
    BY <1>9
  <2>2. UNCHANGED <<hcis, today, run, lock, projection>>
    BY <1>1
  <2> QED BY <2>1, <2>2 DEF DirectoryInv, DirectoryTypeOK
<1>15. \A q \in Reader \ {r} : list'[q] = list[q]
  BY <1>9
<1>12. CASE more
  <2>1. \A m \in Member : v.people[m] = l.kind /\ m <= Max(batch) => m \in l.got \cup batch
    <3> SUFFICES ASSUME NEW m \in Member, v.people[m] = l.kind, m <= Max(batch) PROVE m \in l.got \cup batch
      OBVIOUS
    <3>1. v.people[m] # "absent" /\ m \in listed
      BY <1>0, <1>2
    <3>2. CASE m <= l.after
      BY <1>8, <3>1, <3>2 DEF GotUpTo
    <3>3. CASE m > l.after
      BY <1>5, <1>6, <1>7, <1>12, <3>1, <3>3
    <3> QED BY <1>11, <3>2, <3>3
  <2>2. GotUpTo(n, n.version, n.after) /\ n.pc = "next"
    BY <1>9, <1>10, <1>12, <2>1 DEF GotUpTo
  <2>3. n.kind \in {"active", "inactive"}
    BY <1>0, <1>9
  <2> QED BY <1>14, <1>15, <2>2, <2>3 DEF DirectoryInv, Pages
<1>13. CASE ~more
  <2>1. \A m \in Member : v.people[m] = l.kind => m \in l.got \cup batch
    <3> SUFFICES ASSUME NEW m \in Member, v.people[m] = l.kind PROVE m \in l.got \cup batch
      OBVIOUS
    <3>1. v.people[m] # "absent" /\ m \in listed
      BY <1>0, <1>2
    <3>2. CASE m <= l.after
      BY <1>8, <3>1, <3>2 DEF GotUpTo
    <3>3. CASE m > l.after
      BY <1>13, <3>1, <3>3
    <3> QED BY <1>11, <3>2, <3>3
  <2>2. n.pc = "done" /\ \A m \in Member : n.version.people[m] # "absent" => (m \in n.got <=> n.version.people[m] = n.kind)
    BY <1>9, <1>10, <1>13, <2>1
  <2>3. n.kind \in {"active", "inactive"}
    BY <1>0, <1>9
  <2> QED BY <1>14, <1>15, <2>2, <2>3 DEF DirectoryInv, Pages
<1> QED BY <1>12, <1>13

\* Every step keeps the inductive invariant.
LEMMA DirectoryStep ==
    ASSUME DirectoryInv, [DirectoryNext]_directoryVars PROVE DirectoryInv'
<1>1. ASSUME UNCHANGED <<run, lock, projection>>, hcis'.edit >= hcis.edit, DirectoryTypeOK'
      PROVE  HoldsLock' /\ Edits'
  <2>1. hcis.edit \in Nat /\ hcis'.edit \in Nat /\ projection.edit \in Nat /\ \A i \in Instance : run[i].edit \in Nat
    BY <1>1 DEF DirectoryInv, DirectoryTypeOK, Rows, Runs
  <2> QED BY <1>1, <2>1 DEF DirectoryInv, HoldsLock, Edits
<1>2. list' = list => Pages'
  BY DEF DirectoryInv, Pages
<1>3. CASE HcisChanges
  <2>1. PICK r \in 1..MaxRevision, m \in Member, s \in RunStatus :
          hcis' = [edit |-> hcis.edit + 1, revision |-> r, people |-> [hcis.people EXCEPT ![m] = s]]
    BY <1>3 DEF HcisChanges
  <2>2. hcis.edit \in 1..MaxEdits /\ hcis.edit < MaxEdits /\ MaxEdits \in Nat /\ hcis.people \in [Member -> RunStatus]
    BY <1>3, DirectoryAssumption DEF HcisChanges, DirectoryInv, DirectoryTypeOK
  <2>3. /\ hcis.edit + 1 \in 1..MaxEdits /\ hcis'.edit = hcis.edit + 1
        /\ [hcis.people EXCEPT ![m] = s] \in [Member -> RunStatus]
    BY <2>1, <2>2
  <2>4. hcis' \in [edit : 1..MaxEdits, revision : 1..MaxRevision, people : [Member -> RunStatus]]
    BY <2>1, <2>3
  <2>5. UNCHANGED <<today, run, lock, projection, list>>
    BY <1>3 DEF HcisChanges
  <2>6. DirectoryTypeOK'
    BY <2>4, <2>5 DEF DirectoryInv, DirectoryTypeOK
  <2> QED BY <1>1, <1>2, <2>2, <2>3, <2>5, <2>6 DEF DirectoryInv
<1>4. CASE Midnight
  <2>1. today' \in 1..MaxDay /\ UNCHANGED <<hcis, run, lock, projection, list>>
    BY <1>4, DirectoryAssumption DEF Midnight, DirectoryInv, DirectoryTypeOK
  <2>2. DirectoryTypeOK' /\ hcis'.edit >= hcis.edit
    BY <2>1 DEF DirectoryInv, DirectoryTypeOK
  <2> QED BY <1>1, <1>2, <2>1, <2>2 DEF DirectoryInv
<1>5. ASSUME NEW i \in Instance,
             StartRun(i) \/ BeginPull(i) \/ SkipRun(i) \/ HcisAnswers(i) \/ FailRun(i)
             \/ LoseConnection(i) \/ FindConnectionLost(i) \/ Restart(i)
      PROVE  DirectoryInv'
  <2>1. list' = list
    BY <1>5 DEF StartRun, BeginPull, SkipRun, HcisAnswers, FailRun, LoseConnection, FindConnectionLost, Restart
  <2> QED BY <1>2, <1>5, <2>1, DirectoryRunStep DEF DirectoryInv
<1>6. ASSUME NEW i \in Instance, Apply(i) PROVE DirectoryInv'
  BY <1>2, <1>6, DirectoryApplyStep DEF DirectoryInv, Apply
<1>7. ASSUME NEW r \in Reader, ReadPage(r) PROVE DirectoryInv'
  <2>1. UNCHANGED <<hcis, run, lock, projection>>
    BY <1>7 DEF ReadPage
  <2>2. HoldsLock' /\ Edits'
    BY <2>1 DEF DirectoryInv, HoldsLock, Edits
  <2> QED BY <1>7, <2>2, ReadPageStep DEF DirectoryInv
<1>8. ASSUME NEW r \in Reader, CursorRefused(r) PROVE DirectoryInv'
  <2> DEFINE new == [NoList EXCEPT !.kind = list[r].kind]
  <2>1. list' = [list EXCEPT ![r] = new] /\ UNCHANGED <<hcis, today, run, lock, projection>>
    BY <1>8 DEF CursorRefused
  <2>2. list[r].kind \in {"active", "inactive"} /\ list \in [Reader -> Lists]
    BY DEF DirectoryInv, DirectoryTypeOK, Pages
  <2>3. new \in Lists /\ new.kind = list[r].kind /\ new.pc = "start" /\ new.got = {} /\ new.after = 0
    BY <2>2, DirectoryTypes DEF NoList, RunStatus
  <2> HIDE DEF new
  <2>4. list' \in [Reader -> Lists] /\ list'[r] = new /\ \A q \in Reader \ {r} : list'[q] = list[q]
    BY <2>1, <2>2, <2>3
  <2>5. DirectoryTypeOK'
    BY <2>1, <2>4 DEF DirectoryInv, DirectoryTypeOK
  <2>6. Pages'
    BY <2>2, <2>3, <2>4 DEF DirectoryInv, Pages
  <2>7. HoldsLock' /\ Edits'
    BY <2>1 DEF DirectoryInv, HoldsLock, Edits
  <2> QED BY <2>5, <2>6, <2>7 DEF DirectoryInv
<1>9. CASE UNCHANGED directoryVars
  BY <1>9 DEF directoryVars, DirectoryInv, DirectoryTypeOK, HoldsLock, Edits, Pages
<1> QED BY <1>3, <1>4, <1>5, <1>6, <1>7, <1>8, <1>9 DEF DirectoryNext

\* The inductive invariant of the directory holds throughout.
THEOREM DirectoryInvariant == DirectorySpec => []DirectoryInv
BY DirectoryStart, DirectoryStep, PTL DEF DirectorySpec

\* Every variable of the directory has its type.
THEOREM DirectoryTyped == DirectorySpec => []DirectoryTypeOK
BY DirectoryInvariant, PTL DEF DirectoryInv

\* Pages read to the end hold exactly the people of their kind in the version they are of, whatever
\* synchronizations wrote between two of them.
THEOREM PagesComplete == DirectorySpec => []PagesOfOneVersion
<1>1. DirectoryInv => PagesOfOneVersion
  BY DEF DirectoryInv, Pages, PagesOfOneVersion
<1> QED BY <1>1, DirectoryInvariant, PTL

\* No step takes the copy back to an earlier day or revision, or forgets that somebody was in it.
THEOREM CopyMovesForward == DirectorySpec => DirectoryMovesForward
<1> DEFINE Forward ==
       /\ projection'.edit >= projection.edit
       /\ projection'.of.asOf >= projection.of.asOf /\ projection'.of.revision >= projection.of.revision
       /\ \A m \in Member : projection.of.people[m] # "absent" \/ m \in projection.gone =>
             projection'.of.people[m] # "absent" \/ m \in projection'.gone
<1>1. DirectoryInv /\ [DirectoryNext]_directoryVars => [Forward]_directoryVars
  <2> SUFFICES ASSUME DirectoryInv, DirectoryNext PROVE Forward
    OBVIOUS
  <2>1. CASE \E i \in Instance : Apply(i)
    BY <2>1, DirectoryApplyStep
  <2>2. CASE projection' = projection
    <3>1. projection.edit \in Nat /\ projection.of.asOf \in Nat /\ projection.of.revision \in Nat
      BY DEF DirectoryInv, DirectoryTypeOK, Rows, Content
    <3> QED BY <2>2, <3>1
  <2> QED BY <2>1, <2>2 DEF DirectoryNext, HcisChanges, Midnight, StartRun, BeginPull, SkipRun, HcisAnswers, FailRun,
        LoseConnection, FindConnectionLost, Restart, ReadPage, CursorRefused
<1> QED BY <1>1, DirectoryInvariant, PTL DEF DirectorySpec, DirectoryMovesForward

-----------------------------------------------------------------------------
(* The portal. *)

\* What a session has kept is a summary for its user, no longer kept than the cache and the
\* wait for it allow.
CacheIs(b, a) ==
    /\ cache[b][a].kind \in {"none", "ready", "hidden"}
    /\ cache[b][a].kind = "ready" => /\ cache[b][a].who = {UserOf[b]}
                                     /\ cache[b][a].until <= cache[b][a].made + Wait + CacheTtl

\* What a page has of an application: a request made when the page asked, and not given up
\* yet; the answer to it; or a card that is one's own.
CardOf(p, new, card) ==
    /\ card.kind \in {"asked", "summary", "refusal"} =>
          new.pc = "open" /\ hour <= card.until /\ card.until = new.since + Wait
    /\ card.kind = "summary" => card.who = {Who(p)} /\ new.since <= card.made
    /\ card.kind = "ready" => card.who = {Who(p)} /\ card.made + CacheTtl + Wait > new.since

\* What a page has, of each application.
PageIs(p, new) == new.since <= hour /\ \A a \in Application : CardOf(p, new, new.cards[a])

\* The inductive invariant.
PortalInv ==
    /\ PortalTypeOK
    /\ \A b \in Browser, a \in Application : CacheIs(b, a)
    /\ \A p \in Page : PageIs(p, page[p])

\* Access and the clock stay, and what is kept stays right.
KeepsRight ==
    /\ UNCHANGED <<accessVars, hour>>
    /\ cache' \in [Browser -> [Application -> Outcomes]]
    /\ \A b \in Browser, a \in Application : CacheIs(b, a)'

\* The pages of the portal.
PortalPages == [pc : {"idle", "list", "open"}, only : Application \cup {"all"}, since : 0..MaxClock,
          cards : [Application -> Outcomes]]

\* What the assumption says of the numbers, and the types of what is empty.
LEMMA PortalConstants ==
    /\ CacheTtl \in Nat /\ Wait \in Nat /\ Wait > 0 /\ MaxClock \in Nat
    /\ \A p \in Page : SessionOf[p] \in Browser /\ Who(p) \in Email /\ Who(p) = UserOf[SessionOf[p]]
    /\ NoOutcome \in Outcomes /\ NoOutcome.kind = "none"
    /\ NoPage \in PortalPages /\ NoPage.pc = "idle" /\ NoPage.since = 0
    /\ \A a \in Application : NoPage.cards[a].kind = "none"
<1>1. CacheTtl \in Nat /\ Wait \in Nat /\ Wait > 0 /\ MaxClock \in Nat
  BY GovernanceAssumption DEF GovernanceAssumption
<1>2. \A p \in Page : SessionOf[p] \in Browser /\ Who(p) \in Email /\ Who(p) = UserOf[SessionOf[p]]
  BY GovernanceAssumption DEF GovernanceAssumption, Page, Who
<1>3. NoOutcome \in Outcomes /\ NoOutcome.kind = "none"
  BY <1>1 DEF NoOutcome, Outcomes
<1>4. NoPage \in PortalPages /\ NoPage.pc = "idle" /\ NoPage.since = 0 /\ NoPage.cards = [a \in Application |-> NoOutcome]
  BY <1>1, <1>3 DEF NoPage, PortalPages
<1> QED BY <1>1, <1>2, <1>3, <1>4

\* What the type invariant says of each value.
LEMMA PortalFacts ==
    ASSUME PortalTypeOK
    PROVE  /\ hour \in Nat /\ hour <= MaxClock /\ hour \in 0..MaxClock
           /\ cache \in [Browser -> [Application -> Outcomes]] /\ page \in [Page -> PortalPages]
           /\ \A b \in Browser, a \in Application :
                 cache[b][a] \in Outcomes /\ cache[b][a].made \in Nat /\ cache[b][a].until \in Nat
           /\ \A p \in Page :
                 /\ page[p] \in PortalPages /\ page[p].since \in 0..MaxClock /\ page[p].cards \in [Application -> Outcomes]
                 /\ page[p].only \in Application \cup {"all"}
           /\ \A p \in Page, a \in Application :
                 /\ page[p].cards[a] \in Outcomes /\ page[p].cards[a].made \in Nat /\ page[p].cards[a].until \in Nat
                 /\ page[p].cards[a].made \in 0..MaxClock
                 /\ page[p].cards[a].who \in SUBSET Email
<1>1. hour \in Nat /\ hour <= MaxClock /\ hour \in 0..MaxClock
  BY PortalConstants DEF PortalTypeOK
<1>2. cache \in [Browser -> [Application -> Outcomes]] /\ page \in [Page -> PortalPages]
  BY DEF PortalTypeOK, PortalPages
<1>3. \A r \in Outcomes : r.made \in Nat /\ r.until \in Nat /\ r.made \in 0..MaxClock /\ r.who \in SUBSET Email
  BY PortalConstants DEF Outcomes
<1>4. \A p \in Page :
         /\ page[p] \in PortalPages /\ page[p].since \in 0..MaxClock /\ page[p].cards \in [Application -> Outcomes]
         /\ page[p].only \in Application \cup {"all"}
  BY <1>2 DEF PortalPages
<1> QED BY <1>1, <1>2, <1>3, <1>4

\* A page moves to one whose cards are right.
LEMMA PageMoves ==
    ASSUME PortalInv, NEW p \in Page, NEW new \in PortalPages, page' = [page EXCEPT ![p] = new], KeepsRight, PageIs(p, new)
    PROVE  PortalInv'
<1>1. PortalTypeOK /\ \A q \in Page : PageIs(q, page[q])
  BY DEF PortalInv
<1>2. page'[p] = new /\ page' \in [Page -> PortalPages] /\ \A q \in Page \ {p} : page'[q] = page[q]
  BY <1>1, PortalFacts
<1>3. PortalTypeOK'
  BY <1>1, <1>2 DEF PortalTypeOK, PortalPages, AccessTypeOK, accessVars, KeepsRight
<1>4. ASSUME NEW q \in Page PROVE PageIs(q, page[q])'
  <2>1. PageIs(q, page'[q])
    BY <1>1, <1>2
  <2>2. hour' = hour
    BY DEF KeepsRight
  <2> QED BY <2>1, <2>2 DEF PageIs, CardOf, Who
<1> QED BY <1>3, <1>4 DEF PortalInv, KeepsRight

\* One card of a page changes.
LEMMA CardMoves ==
    ASSUME PortalInv, NEW p \in Page, NEW a \in Application, NEW outcome \in Outcomes, Card(p, a, outcome), KeepsRight,
           CardOf(p, page[p], outcome)
    PROVE  PortalInv'
<1>1. PortalTypeOK /\ PageIs(p, page[p])
  BY DEF PortalInv
<1> DEFINE new == [page[p] EXCEPT !.cards[a] = outcome]
<1>2. /\ new \in PortalPages /\ new.since = page[p].since /\ new.pc = page[p].pc
      /\ new.cards = [page[p].cards EXCEPT ![a] = outcome]
  BY <1>1, PortalFacts DEF PortalPages
<1>3. page' = [page EXCEPT ![p] = new]
  BY <1>1, PortalFacts DEF Card
<1> HIDE DEF new
<1>4. new.cards[a] = outcome /\ \A c \in Application \ {a} : new.cards[c] = page[p].cards[c]
  BY <1>1, <1>2, PortalFacts
<1>5. PageIs(p, new)
  <2>1. ASSUME NEW c \in Application PROVE CardOf(p, new, new.cards[c])
    BY <1>1, <1>2, <1>4 DEF PageIs, CardOf
  <2> QED BY <1>1, <1>2, <2>1 DEF PageIs
<1> QED BY <1>2, <1>3, <1>5, PageMoves

\* A page is opened, shown, and answered by the applications.
LEMMA PageSteps ==
    ASSUME PortalInv, NEW p \in Page,
           (\E only \in Application \cup {"all"} : OpenPage(p, only)) \/ ListApplications(p) \/ ShowPage(p)
    PROVE  PortalInv'
<1>1. /\ PortalTypeOK /\ hour \in Nat /\ hour \in 0..MaxClock
      /\ \A b \in Browser, a \in Application : CacheIs(b, a)
      /\ cache \in [Browser -> [Application -> Outcomes]]
  BY PortalFacts DEF PortalInv
<1>2. UNCHANGED <<accessVars, cache, hour>>
  BY DEF OpenPage, ListApplications, ShowPage
<1>3. KeepsRight
  BY <1>1, <1>2 DEF CacheIs, KeepsRight
<1>4. ASSUME NEW only \in Application \cup {"all"}, OpenPage(p, only) PROVE PortalInv'
  <2> DEFINE new == [NoPage EXCEPT !.pc = "list", !.only = only]
  <2>1. new \in PortalPages /\ new.since = 0 /\ new.cards = NoPage.cards
    BY PortalConstants DEF PortalPages
  <2>2. page' = [page EXCEPT ![p] = new]
    BY <1>4 DEF OpenPage
  <2> HIDE DEF new
  <2>3. PageIs(p, new)
    BY <1>1, <2>1, PortalConstants DEF PageIs, CardOf
  <2> QED BY <1>3, <2>1, <2>2, <2>3, PageMoves
<1>5. CASE ListApplications(p)
  <2> DEFINE cards == [a \in Application |->
                 IF a \notin SummariesFor(Who(p)) \/ page[p].only \notin {"all", a} THEN NoOutcome
                 ELSE IF Serves(p, a) THEN [Cached(p, a) EXCEPT !.until = 0]
                 ELSE [NoOutcome EXCEPT !.kind = "asked", !.until = hour + Wait]]
             new == [page[p] EXCEPT !.pc = "open", !.only = "all", !.since = hour, !.cards = cards]
  <2>1. ASSUME NEW a \in Application
        PROVE  /\ cards[a] \in Outcomes
               /\ cards[a].kind \in {"asked", "summary", "refusal"} => cards[a].until = hour + Wait
               /\ cards[a].kind # "summary"
               /\ cards[a].kind = "ready" => /\ cards[a].who = {Who(p)}
                                             /\ cards[a].made + CacheTtl + Wait > hour
    <3>1. CASE cards[a] = NoOutcome
      BY <3>1, PortalConstants
    <3>2. CASE cards[a] = [NoOutcome EXCEPT !.kind = "asked", !.until = hour + Wait]
      <4>1. hour + Wait \in 0..MaxClock + CacheTtl + Wait
        BY <1>1, PortalConstants
      <4> DEFINE r == [NoOutcome EXCEPT !.kind = "asked", !.until = hour + Wait]
      <4>2. r \in Outcomes /\ r.kind = "asked" /\ r.until = hour + Wait
        BY <4>1, PortalConstants DEF Outcomes
      <4> HIDE DEF r, cards
      <4> QED BY <3>2, <4>2 DEF r
    <3>3. CASE Serves(p, a) /\ cards[a] = [Cached(p, a) EXCEPT !.until = 0]
      <4> DEFINE kept == Cached(p, a)
                 r == [kept EXCEPT !.until = 0]
      <4>1. kept \in Outcomes /\ kept.until > hour /\ kept.kind \in {"ready", "hidden"} /\ SessionOf[p] \in Browser
            /\ kept.made \in Nat /\ kept.until \in Nat
        BY <1>1, <3>3, PortalFacts, PortalConstants DEF Cached, CacheIs, Serves
      <4>2. kept.kind = "ready" => kept.who = {Who(p)} /\ kept.until <= kept.made + Wait + CacheTtl
        BY <1>1, <4>1, PortalConstants DEF Cached, CacheIs
      <4> HIDE DEF kept
      <4>3. r \in Outcomes /\ r.kind = kept.kind /\ r.who = kept.who /\ r.made = kept.made
        BY <4>1, PortalConstants DEF Outcomes
      <4>4. cards[a] = r
        BY <3>3 DEF kept
      <4> HIDE DEF r, cards
      <4> QED BY <1>1, <4>1, <4>2, <4>3, <4>4, PortalConstants
    <3> QED BY <3>1, <3>2, <3>3
  <2>2. new \in PortalPages /\ new.since = hour /\ new.cards = cards /\ new.pc = "open"
    <3>1. cards \in [Application -> Outcomes]
      BY <2>1
    <3> HIDE DEF cards
    <3> QED BY <1>1, <3>1, PortalFacts DEF PortalPages
  <2>3. page' = [page EXCEPT ![p] = new]
    BY <1>1, <1>5, PortalFacts DEF ListApplications, PortalPages
  <2> HIDE DEF new, cards
  <2>4. PageIs(p, new)
    <3>1. hour <= hour /\ hour <= hour + Wait
      BY <1>1, PortalConstants
    <3> QED BY <2>1, <2>2, <3>1 DEF PageIs, CardOf
  <2> QED BY <1>3, <2>2, <2>3, <2>4, PageMoves
<1>6. CASE ShowPage(p)
  <2>1. page' = [page EXCEPT ![p] = NoPage]
    BY <1>6 DEF ShowPage
  <2>2. PageIs(p, NoPage)
    BY <1>1, PortalConstants DEF PageIs, CardOf
  <2> QED BY <1>3, <2>1, <2>2, PageMoves, PortalConstants
<1> QED BY <1>4, <1>5, <1>6

\* An application answers, and what comes is kept and shown.
LEMMA CardSteps ==
    ASSUME PortalInv, NEW p \in Page, NEW a \in Application,
           ApplicationAnswers(p, a) \/ Receive(p, a) \/ FetchFails(p, a)
    PROVE  PortalInv'
<1> DEFINE got == page[p].cards[a]
           b == SessionOf[p]
<1>1. /\ PortalTypeOK /\ hour \in Nat /\ hour \in 0..MaxClock
      /\ \A c \in Browser, x \in Application : CacheIs(c, x)
      /\ cache \in [Browser -> [Application -> Outcomes]]
      /\ CardOf(p, page[p], got) /\ page[p].since <= hour /\ b \in Browser /\ Who(p) \in Email /\ Who(p) = UserOf[b]
      /\ got.who \in SUBSET Email /\ 0 \in 0..MaxClock + CacheTtl + Wait
      /\ got \in Outcomes /\ got.made \in Nat /\ got.until \in Nat /\ got.made \in 0..MaxClock
      /\ page[p].since \in 0..MaxClock
  BY PortalFacts, PortalConstants DEF PortalInv, PageIs
<1>2. /\ page[p].pc = "open" /\ got.kind \in {"asked", "summary", "refusal"} /\ UNCHANGED <<accessVars, hour>>
      /\ hour <= got.until /\ got.until = page[p].since + Wait
  BY <1>1 DEF ApplicationAnswers, Receive, FetchFails, Awaited, CardOf
<1>3. CASE ApplicationAnswers(p, a)
  <2> DEFINE no == [got EXCEPT !.kind = "refusal"]
             yes == [got EXCEPT !.kind = "summary", !.who = {Who(p)}, !.made = hour]
  <2>1. no \in Outcomes /\ no.kind = "refusal" /\ no.until = got.until
    BY <1>1 DEF Outcomes
  <2>2. yes \in Outcomes /\ yes.kind = "summary" /\ yes.who = {Who(p)} /\ yes.made = hour /\ yes.until = got.until
    BY <1>1 DEF Outcomes
  <2>3. UNCHANGED cache /\ (Card(p, a, no) \/ Card(p, a, yes))
    BY <1>3 DEF ApplicationAnswers
  <2>4. KeepsRight
    BY <1>1, <1>2, <2>3 DEF CacheIs, KeepsRight
  <2> HIDE DEF no, yes, got
  <2>5. CardOf(p, page[p], no) /\ CardOf(p, page[p], yes)
    BY <1>1, <1>2, <2>1, <2>2 DEF CardOf
  <2> QED BY <2>1, <2>2, <2>3, <2>4, <2>5, CardMoves
<1>4. CASE Receive(p, a)
  <2> DEFINE kind == IF got.kind = "summary" THEN "ready" ELSE "hidden"
             outcome == [got EXCEPT !.kind = kind, !.until = 0]
             kept == [outcome EXCEPT !.until = hour + CacheTtl]
  <2>1. kind \in {"ready", "hidden"} /\ (kind = "ready" => got.kind = "summary")
    OBVIOUS
  <2>2. hour + CacheTtl \in 0..MaxClock + CacheTtl + Wait
    BY <1>1, PortalConstants
  <2>3. /\ Card(p, a, outcome) /\ cache' = [cache EXCEPT ![b][a] = kept]
    BY <1>4 DEF Receive
  <2> HIDE DEF kind
  <2>4. outcome \in Outcomes /\ outcome.kind = kind /\ outcome.who = got.who /\ outcome.made = got.made
    BY <1>1, <2>1 DEF Outcomes
  <2> HIDE DEF outcome
  <2>5. /\ kept \in Outcomes /\ kept.kind = kind /\ kept.who = got.who /\ kept.made = got.made
        /\ kept.until = hour + CacheTtl
    BY <2>2, <2>4 DEF Outcomes
  <2> HIDE DEF kept
  <2>6. got.kind = "summary" => got.who = {Who(p)} /\ page[p].since <= got.made
    BY <1>1 DEF CardOf
  <2>7. cache'[b][a] = kept /\ cache' \in [Browser -> [Application -> Outcomes]]
        /\ \A c \in Browser, x \in Application : c # b \/ x # a => cache'[c][x] = cache[c][x]
    BY <1>1, <2>3, <2>5
  <2>8. kind = "ready" => /\ got.who = {UserOf[b]} /\ got.who = {Who(p)}
                          /\ hour + CacheTtl <= got.made + Wait + CacheTtl
                          /\ got.made + CacheTtl + Wait > page[p].since
    BY <1>1, <1>2, <2>1, <2>6, PortalConstants
  <2>9. ASSUME NEW c \in Browser, NEW x \in Application PROVE CacheIs(c, x)'
    <3>1. CASE c = b /\ x = a
      BY <3>1, <2>1, <2>5, <2>7, <2>8 DEF CacheIs
    <3>2. CASE c # b \/ x # a
      BY <3>2, <1>1, <2>7 DEF CacheIs
    <3> QED BY <3>1, <3>2
  <2>10. KeepsRight
    BY <1>2, <2>7, <2>9 DEF KeepsRight
  <2>11. CardOf(p, page[p], outcome)
    BY <2>1, <2>4, <2>8 DEF CardOf
  <2> HIDE DEF got, b
  <2> QED BY <2>3, <2>4, <2>10, <2>11, CardMoves
<1>5. CASE FetchFails(p, a)
  <2> DEFINE outcome == [NoOutcome EXCEPT !.kind = "failed"]
  <2>1. outcome \in Outcomes /\ outcome.kind = "failed"
    BY PortalConstants DEF Outcomes
  <2>2. Card(p, a, outcome) /\ cache' = [cache EXCEPT ![b][a] = NoOutcome]
    BY <1>5 DEF FetchFails
  <2> HIDE DEF outcome
  <2>3. cache'[b][a] = NoOutcome /\ cache' \in [Browser -> [Application -> Outcomes]]
        /\ \A c \in Browser, x \in Application : c # b \/ x # a => cache'[c][x] = cache[c][x]
    BY <1>1, <2>2, PortalConstants
  <2>4. ASSUME NEW c \in Browser, NEW x \in Application PROVE CacheIs(c, x)'
    <3>1. CASE c = b /\ x = a
      BY <3>1, <2>3, PortalConstants DEF CacheIs
    <3>2. CASE c # b \/ x # a
      BY <3>2, <1>1, <2>3 DEF CacheIs
    <3> QED BY <3>1, <3>2
  <2>5. KeepsRight
    BY <1>2, <2>3, <2>4 DEF KeepsRight
  <2>6. CardOf(p, page[p], outcome)
    BY <2>1 DEF CardOf
  <2> QED BY <2>1, <2>2, <2>5, <2>6, CardMoves
<1> QED BY <1>3, <1>4, <1>5

\* Access changes, the process restarts, an hour passes.
LEMMA MeanwhileSteps ==
    ASSUME PortalInv,
           \/ \E e \in Email, a \in Application : GrantOrRevoke(e, a) /\ UNCHANGED portalVars
           \/ \E a \in Application : ChangeApplication(a) /\ UNCHANGED portalVars
           \/ RestartProcess \/ HourPasses
    PROVE  PortalInv'
<1>1. /\ PortalTypeOK /\ hour \in Nat /\ hour \in 0..MaxClock
      /\ \A b \in Browser, a \in Application : CacheIs(b, a)
      /\ \A p \in Page : PageIs(p, page[p])
  BY PortalFacts DEF PortalInv
<1>2. ASSUME UNCHANGED portalVars, AccessTypeOK' PROVE PortalInv'
  <2>1. UNCHANGED <<cache, page, hour>>
    BY <1>2 DEF portalVars
  <2> QED BY <1>1, <1>2, <2>1 DEF PortalInv, PortalTypeOK, CacheIs, PageIs, CardOf, Who
<1>3. ASSUME NEW e \in Email, NEW a \in Application, GrantOrRevoke(e, a) PROVE AccessTypeOK'
  <2>1. PICK status \in {"active", "revoked"} : SetAccess(e, a, status) /\ UNCHANGED registry
    BY <1>3 DEF GrantOrRevoke
  <2> QED BY <1>1, <2>1 DEF SetAccess, AccessTypeOK, PortalTypeOK
<1>4. ASSUME NEW a \in Application, ChangeApplication(a) PROVE AccessTypeOK'
  <2>1. PICK status \in {"active", "inactive"}, summary \in {"kept", "given", "taken"} :
            UpsertApplication(a, status, summary) /\ UNCHANGED access
    BY <1>4 DEF ChangeApplication
  <2>2. AccessTypeOK
    BY <1>1 DEF PortalTypeOK
  <2>3. (IF summary = "kept" THEN registry[a].summary ELSE summary = "given") \in BOOLEAN
    BY <2>2 DEF AccessTypeOK
  <2>4. registry' \in [Application -> [status : {"none", "active", "inactive"}, summary : BOOLEAN]]
    BY <2>1, <2>2, <2>3 DEF UpsertApplication, AccessTypeOK
  <2> QED BY <2>1, <2>2, <2>4 DEF AccessTypeOK
<1>5. CASE RestartProcess
  <2>1. /\ cache' = [b \in Browser |-> [a \in Application |-> NoOutcome]] /\ page' = [p \in Page |-> NoPage]
        /\ UNCHANGED <<accessVars, hour>>
    BY <1>5 DEF RestartProcess
  <2>2. PortalTypeOK'
    BY <1>1, <2>1, PortalConstants DEF PortalTypeOK, AccessTypeOK, accessVars, PortalPages
  <2>3. ASSUME NEW b \in Browser, NEW a \in Application PROVE CacheIs(b, a)'
    BY <2>1, PortalConstants DEF CacheIs
  <2>4. ASSUME NEW p \in Page PROVE PageIs(p, page[p])'
    BY <1>1, <2>1, PortalConstants DEF PageIs, CardOf
  <2> QED BY <2>2, <2>3, <2>4 DEF PortalInv
<1>6. CASE HourPasses
  <2>1. /\ hour' = hour + 1 /\ hour < MaxClock /\ UNCHANGED <<accessVars, cache, page>>
        /\ \A p \in Page, a \in Application : Awaited(p, a) => page[p].cards[a].until > hour
    BY <1>6 DEF HourPasses
  <2>2. PortalTypeOK'
    BY <1>1, <2>1, PortalConstants DEF PortalTypeOK, AccessTypeOK, accessVars
  <2>3. ASSUME NEW b \in Browser, NEW a \in Application PROVE CacheIs(b, a)'
    BY <1>1, <2>1 DEF CacheIs
  <2>4. ASSUME NEW p \in Page PROVE PageIs(p, page[p])'
    <3>1. page[p].since \in Nat /\ page[p].since <= hour /\ \A a \in Application : page[p].cards[a].until \in Nat
      BY <1>1, PortalFacts DEF PageIs
    <3>2. ASSUME NEW a \in Application PROVE CardOf(p, page[p], page[p].cards[a])'
      BY <1>1, <2>1, <3>1 DEF PageIs, CardOf, Awaited, Who
    <3> QED BY <1>1, <2>1, <3>1, <3>2 DEF PageIs
  <2> QED BY <2>2, <2>3, <2>4 DEF PortalInv
<1> QED BY <1>2, <1>3, <1>4, <1>5, <1>6

\* The inductive invariant of the portal holds throughout.
THEOREM PortalInvariant == PortalSpec => []PortalInv
<1>1. AccessInit /\ PortalInit => PortalInv
  <2> SUFFICES ASSUME AccessInit, PortalInit PROVE PortalInv
    OBVIOUS
  <2>1. AccessTypeOK
    BY DEF AccessInit, AccessTypeOK
  <2>2. PortalTypeOK
    BY <2>1, PortalConstants DEF PortalInit, PortalTypeOK, PortalPages
  <2> QED BY <2>2, PortalConstants DEF PortalInit, PortalInv, CacheIs, PageIs, CardOf
<1>2. PortalInv /\ [PortalNext]_<<accessVars, portalVars>> => PortalInv'
  <2> SUFFICES ASSUME PortalInv, [PortalNext]_<<accessVars, portalVars>> PROVE PortalInv'
    OBVIOUS
  <2>1. CASE PortalNext
    BY <2>1, PageSteps, CardSteps, MeanwhileSteps DEF PortalNext
  <2>2. CASE UNCHANGED <<accessVars, portalVars>>
    BY <2>2 DEF accessVars, portalVars, PortalInv, PortalTypeOK, AccessTypeOK, CacheIs, PageIs, CardOf, Who
  <2> QED BY <2>1, <2>2
<1> QED BY <1>1, <1>2, PTL DEF PortalSpec

\* Every variable of the portal has its type.
THEOREM PortalTyped == PortalSpec => []PortalTypeOK
<1>1. PortalInv => PortalTypeOK
  BY DEF PortalInv
<1> QED BY <1>1, PortalInvariant, PTL

\* A card on a page is a summary given for this person, and no older than the cache and one
\* wait allow, in whatever order pages, retries, answers and changes of access came.
THEOREM CardsAreTheirOwn == PortalSpec => []CardsAreOnesOwn
<1>1. PortalInv => CardsAreOnesOwn
  BY DEF PortalInv, CardsAreOnesOwn, PageIs, CardOf
<1> QED BY <1>1, PortalInvariant, PTL
=============================================================================
