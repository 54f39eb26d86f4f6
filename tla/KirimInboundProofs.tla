------------------------- MODULE KirimInboundProofs -------------------------
(***************************************************************************)
(* Theorems about what SQ Hub has of WhatsApp and passes on: the events of *)
(* a device take effect once and in order (KirimPull), the card of a       *)
(* module shows a number it may send through (KirimNumbers), a key makes   *)
(* one group (KirimGroups), an import has all it reads when it says so     *)
(* (KirimImport), and what was delivered to a consumer stays delivered     *)
(* unless a round outlived its lease (KirimWebhooks).                      *)
(***************************************************************************)
EXTENDS KirimPull, KirimNumbers, KirimGroups, KirimImport, KirimWebhooks,
        FiniteSetTheorems, SequenceTheorems, TLAPS

-----------------------------------------------------------------------------
(* The events of a device. *)

\* How many events of t have taken effect.
Kept(t) == Len(applied[t])

\* They are the first ones, and those whose ids are recorded.
Stored ==
    \A t \in Tenant :
        /\ applied[t] = [i \in 1..Kept(t) |-> i]
        /\ \A i \in Nat : <<t, i>> \in recorded <=> i \in 1..Kept(t)

\* No pull is past the first event that has not taken effect.
Reading ==
    \A p \in Puller :
        /\ pull[p].pc \in {"fetch", "event", "store"} => pull[p].next \in 1..Kept(pull[p].tenant) + 1
        /\ pull[p].pc \in {"event", "store"} => pull[p].next <= pull[p].last

\* What a caller could see when it asked lies within what its pull will have read.
Asked ==
    \A c \in Caller :
        /\ caller[c].seen <= shown[caller[c].tenant]
        /\ caller[c].pc = "answered" => caller[c].seen <= Kept(caller[c].tenant)
        /\ \A p \in Puller :
              caller[c].pc = "running" /\ caller[c].at = p /\ caller[c].tenant = pull[p].tenant
              /\ pull[p].pc \in {"event", "store"} /\ ~pull[p].more => caller[c].seen <= pull[p].last

\* The inductive invariant.
PullInv == PullTypeOK /\ Stored /\ Reading /\ Asked

\* Only the pull of p moves.
PullMoves(p, new) == pull' \in [Puller -> Pulls] /\ pull'[p] = new /\ \A q \in Puller \ {p} : pull'[q] = pull[q]

\* What has taken effect is not taken back.
Grows == Stored' /\ \A t \in Tenant : Kept(t)' \in Nat /\ Kept(t)' >= Kept(t)

\* What the assumption says of the numbers, and the types of an idle pull and caller.
LEMMA PullNumbers ==
    /\ PageLimit \in Nat /\ PageLimit >= 1 /\ MaxPages \in Nat /\ MaxPages >= 1 /\ MaxShown \in Nat
       /\ MaxFaults \in Nat
    /\ NoPull \in Pulls /\ NoPull.pc = "none" /\ Idle \in Callers /\ Idle.seen = 0 /\ Idle.pc = "idle"
<1>1. PageLimit \in Nat /\ PageLimit >= 1 /\ MaxPages \in Nat /\ MaxPages >= 1 /\ MaxShown \in Nat
    /\ MaxFaults \in Nat
  BY PullAssumption
<1>2. (CHOOSE t \in Tenant : TRUE) \in Tenant
  BY PullAssumption
<1>3. NoPull \in Pulls /\ NoPull.pc = "none" /\ NoPull.tenant \in Tenant
  BY <1>1, <1>2 DEF NoPull, Pulls, PullPcs
<1>4. Idle \in Callers /\ Idle.seen = 0 /\ Idle.pc = "idle"
  BY <1>1, <1>3 DEF Idle, Callers, CallerPcs
<1> QED BY <1>1, <1>3, <1>4

\* What the invariant says of each value.
LEMMA PullFacts ==
    ASSUME PullInv
    PROVE  /\ pull \in [Puller -> Pulls] /\ again \in [Puller -> Queued] /\ caller \in [Caller -> Callers]
           /\ \A p \in Puller : pull[p] \in Pulls /\ pull[p].tenant \in Tenant /\ pull[p].next \in Nat
              /\ pull[p].last \in Nat
           /\ \A c \in Caller : caller[c] \in Callers /\ caller[c].tenant \in Tenant /\ caller[c].seen \in Nat
           /\ \A t \in Tenant : shown[t] \in Nat /\ shown[t] <= MaxShown /\ Kept(t) \in Nat /\ Kept(t) <= MaxShown
<1>1. MaxShown \in Nat /\ MaxPages \in Nat
  BY PullNumbers
<1>2. \A p \in Puller : pull[p] \in Pulls /\ pull[p].tenant \in Tenant /\ pull[p].next \in Nat /\ pull[p].last \in Nat
  BY <1>1 DEF PullInv, PullTypeOK, Pulls
<1>3. \A c \in Caller : caller[c] \in Callers /\ caller[c].tenant \in Tenant /\ caller[c].seen \in Nat
  BY <1>1 DEF PullInv, PullTypeOK, Callers
<1>4. ASSUME NEW t \in Tenant PROVE shown[t] \in Nat /\ shown[t] <= MaxShown /\ Kept(t) \in Nat /\ Kept(t) <= MaxShown
  <2>1. applied[t] \in Seq(1..MaxShown) /\ shown[t] \in 0..MaxShown
    BY DEF PullInv, PullTypeOK
  <2>2. Kept(t) \in Nat
    BY <2>1 DEF Kept
  <2>3. CASE Kept(t) > 0
    <3>0. \A i \in Nat : <<t, i>> \in recorded <=> i \in 1..Kept(t)
      BY DEF PullInv, Stored
    <3>1. <<t, Kept(t)>> \in recorded
      BY <2>2, <2>3, <3>0
    <3>2. Kept(t) \in 1..MaxShown
      BY <3>1 DEF PullInv, PullTypeOK
    <3> QED BY <1>1, <2>1, <2>2, <3>2
  <2> QED BY <1>1, <2>1, <2>2, <2>3
<1> QED BY <1>2, <1>3, <1>4 DEF PullInv, PullTypeOK

\* Nothing more has taken effect.
LEMMA StillGrows ==
    ASSUME PullInv, UNCHANGED <<recorded, applied>> PROVE Grows
<1>1. Stored'
  BY DEF PullInv, Stored, Kept
<1>2. \A t \in Tenant : Kept(t)' = Kept(t)
  BY DEF Kept
<1> QED BY <1>1, <1>2, PullFacts DEF Grows

\* The largest cursor stored is how many have taken effect.
LEMMA CursorIsKept ==
    ASSUME PullInv, NEW t \in Tenant PROVE Cursor(t) = Kept(t)
<1> DEFINE S == {0} \cup {e[2] : e \in {x \in recorded : x[1] = t}}
<1>1. Kept(t) \in Nat
  BY PullFacts
<1>2. \A i \in Nat : <<t, i>> \in recorded <=> i \in 1..Kept(t)
  BY DEF PullInv, Stored
<1>3. recorded \subseteq Tenant \X (1..MaxShown) /\ MaxShown \in Nat
  BY PullNumbers DEF PullInv, PullTypeOK
<1>4. \A x \in S : x \in Nat /\ x <= Kept(t)
  <2>1. ASSUME NEW e \in recorded, e[1] = t PROVE e[2] \in Nat /\ e[2] <= Kept(t)
    <3>1. e = <<t, e[2]>> /\ e[2] \in Nat
      BY <1>3, <2>1
    <3> QED BY <1>1, <1>2, <2>1, <3>1
  <2> QED BY <1>1, <2>1
<1>5. Kept(t) \in S
  <2>1. CASE Kept(t) = 0
    BY <2>1
  <2>2. CASE Kept(t) > 0
    <3>1. <<t, Kept(t)>> \in recorded
      BY <1>1, <1>2, <2>2
    <3> DEFINE e == <<t, Kept(t)>>
    <3>2. e \in {x \in recorded : x[1] = t} /\ e[2] = Kept(t)
      BY <3>1
    <3> QED BY <3>2
  <2> QED BY <1>1, <2>1, <2>2
<1> HIDE DEF S
<1>6. Max(S) = Kept(t)
  <2>1. \A x \in S : (\A y \in S : x >= y) <=> x = Kept(t)
    BY <1>1, <1>4, <1>5
  <2> QED BY <1>5, <2>1 DEF Max
<1> QED BY <1>6 DEF Cursor, S

\* A step that moves at most one pull on, and no caller.
LEMMA PullMovedTo ==
    ASSUME PullInv, Grows, NEW p \in Puller, NEW new \in Pulls, PullMoves(p, new), UNCHANGED caller,
           again' \in [Puller -> Queued],
           tenant' \in Tenant, held' \in BOOLEAN, recorded' \subseteq Tenant \X (1..MaxShown),
           applied' \in [Tenant -> Seq(1..MaxShown)], faults' \in 0..MaxFaults, UNCHANGED shown,
           new.pc \in {"fetch", "event", "store"} => new.next \in 1..Len(applied'[new.tenant]) + 1,
           new.pc \in {"event", "store"} => new.next <= new.last,
           new.pc \in {"event", "store"} /\ ~new.more =>
               \A c \in Caller : caller[c].pc = "running" /\ caller[c].at = p /\ caller[c].tenant = new.tenant
                                    => caller[c].seen <= new.last
    PROVE  PullInv'
<1>1. \A t \in Tenant : Kept(t) \in Nat /\ Kept(t)' \in Nat /\ Kept(t) <= Kept(t)'
  BY PullFacts DEF Grows
<1>2. ASSUME NEW q \in Puller \ {p}
      PROVE  /\ pull[q].tenant \in Tenant
             /\ pull[q].pc \in {"fetch", "event", "store"} => pull[q].next \in 1..Len(applied'[pull[q].tenant]) + 1
             /\ pull[q].pc \in {"event", "store"} => pull[q].next <= pull[q].last
  <2>1. pull[q].tenant \in Tenant /\ pull[q].next \in Nat
    BY PullFacts
  <2>2. PICK t \in Tenant : t = pull[q].tenant
    BY <2>1
  <2>3. pull[q].pc \in {"fetch", "event", "store"} => pull[q].next \in 1..Kept(t) + 1
    BY <2>2 DEF PullInv, Reading
  <2>4. pull[q].pc \in {"fetch", "event", "store"} => pull[q].next \in 1..Kept(t)' + 1
    BY <1>1, <2>1, <2>3
  <2> QED BY <2>2, <2>4 DEF PullInv, Reading, Kept
<1>3. Reading'
  BY <1>2 DEF Reading, PullMoves, Kept
<1>4. ASSUME NEW c \in Caller
      PROVE  /\ caller'[c].seen <= shown'[caller'[c].tenant]
             /\ caller'[c].pc = "answered" => caller'[c].seen <= Len(applied'[caller[c].tenant])
             /\ \A q \in Puller :
                  caller'[c].pc = "running" /\ caller'[c].at = q /\ caller'[c].tenant = pull'[q].tenant
                  /\ pull'[q].pc \in {"event", "store"} /\ ~pull'[q].more => caller'[c].seen <= pull'[q].last
  <2>1. caller[c].tenant \in Tenant /\ caller[c].seen \in Nat
    BY PullFacts
  <2>2. caller[c].seen <= shown[caller[c].tenant]
    BY DEF PullInv, Asked
  <2>3. caller[c].pc = "answered" => caller[c].seen <= Len(applied'[caller[c].tenant])
    <3>1. PICK t \in Tenant : t = caller[c].tenant
      BY <2>1
    <3>2. caller[c].pc = "answered" => caller[c].seen <= Kept(t)'
      BY <1>1, <2>1, <3>1 DEF PullInv, Asked
    <3> QED BY <3>1, <3>2 DEF Kept
  <2>4. ASSUME NEW q \in Puller \ {p}, caller[c].pc = "running", caller[c].at = q, caller[c].tenant = pull[q].tenant,
               pull[q].pc \in {"event", "store"}, ~pull[q].more
        PROVE  caller[c].seen <= pull[q].last
    BY <2>4 DEF PullInv, Asked
  <2> QED BY <2>2, <2>3, <2>4 DEF PullMoves
<1>5. Asked'
  BY <1>4 DEF Asked, Kept
<1>6. PullTypeOK'
  BY DEF PullInv, PullTypeOK, PullMoves
<1> QED BY <1>3, <1>5, <1>6 DEF PullInv, Grows

\* A step in which callers come, wait or are answered, and pulls begin or end.
LEMMA CallersMoved ==
    ASSUME PullInv, Grows, pull' \in [Puller -> Pulls], caller' \in [Caller -> Callers],
        again' \in [Puller -> Queued],
           tenant' \in Tenant, held' \in BOOLEAN, recorded' \subseteq Tenant \X (1..MaxShown),
           applied' \in [Tenant -> Seq(1..MaxShown)], faults' \in 0..MaxFaults, UNCHANGED shown,
           \A q \in Puller : pull'[q] = pull[q] \/ pull'[q].pc \in {"none", "device"},
           \A c \in Caller :
              \/ caller'[c] = caller[c]
              \/ /\ caller'[c].seen <= shown[caller'[c].tenant]
                 /\ caller'[c].pc = "answered" => caller'[c].seen <= Len(applied'[caller'[c].tenant])
                 /\ caller'[c].pc = "running" =>
                       \A q \in Puller : caller'[c].at = q => pull'[q].pc \in {"none", "device"}
    PROVE  PullInv'
<1>1. \A t \in Tenant : Kept(t) \in Nat /\ Len(applied'[t]) \in Nat /\ Kept(t) <= Len(applied'[t])
  BY PullFacts DEF Grows, Kept
<1>2. Reading'
  <2>1. ASSUME NEW q \in Puller, pull'[q] = pull[q]
        PROVE  /\ pull'[q].pc \in {"fetch", "event", "store"} =>
                     pull'[q].next \in 1..Len(applied'[pull'[q].tenant]) + 1
               /\ pull'[q].pc \in {"event", "store"} => pull'[q].next <= pull'[q].last
    <3>1. pull[q].tenant \in Tenant /\ pull[q].next \in Nat
      BY PullFacts
    <3>2. pull[q].pc \in {"fetch", "event", "store"} => pull[q].next \in 1..Kept(pull[q].tenant) + 1
      BY DEF PullInv, Reading
    <3>3. pull[q].pc \in {"event", "store"} => pull[q].next <= pull[q].last
      BY DEF PullInv, Reading
    <3>4. Kept(pull[q].tenant) \in Nat /\ Len(applied'[pull[q].tenant]) \in Nat
        /\ Kept(pull[q].tenant) <= Len(applied'[pull[q].tenant])
      BY <1>1, <3>1
    <3> QED BY <2>1, <3>1, <3>2, <3>3, <3>4
  <2> QED BY <2>1 DEF Reading, Kept
<1>3. ASSUME NEW c \in Caller
      PROVE  /\ caller'[c].seen <= shown'[caller'[c].tenant]
             /\ caller'[c].pc = "answered" => caller'[c].seen <= Len(applied'[caller'[c].tenant])
             /\ \A q \in Puller :
                  caller'[c].pc = "running" /\ caller'[c].at = q /\ caller'[c].tenant = pull'[q].tenant
                  /\ pull'[q].pc \in {"event", "store"} /\ ~pull'[q].more => caller'[c].seen <= pull'[q].last
  <2>1. CASE caller'[c] = caller[c]
    <3>1. caller[c].tenant \in Tenant /\ caller[c].seen \in Nat
      BY PullFacts
    <3>2. caller[c].seen <= shown[caller[c].tenant]
      BY DEF PullInv, Asked
    <3>3. caller[c].pc = "answered" => caller[c].seen <= Kept(caller[c].tenant)
      BY DEF PullInv, Asked
    <3>4. Kept(caller[c].tenant) \in Nat /\ Len(applied'[caller[c].tenant]) \in Nat
          /\ Kept(caller[c].tenant) <= Len(applied'[caller[c].tenant])
      BY <1>1, <3>1
    <3>5. ASSUME NEW q \in Puller, caller[c].pc = "running", caller[c].at = q, caller[c].tenant = pull'[q].tenant,
                 pull'[q].pc \in {"event", "store"}, ~pull'[q].more
          PROVE  caller[c].seen <= pull'[q].last
      <4>1. pull'[q] = pull[q]
        BY <3>5
      <4> QED BY <3>5, <4>1 DEF PullInv, Asked
    <3> QED BY <2>1, <3>1, <3>2, <3>3, <3>4, <3>5
  <2>2. CASE caller'[c] # caller[c]
    BY <2>2
  <2> QED BY <2>1, <2>2
<1>4. Asked'
  BY <1>3 DEF Asked, Kept
<1>5. PullTypeOK'
  BY DEF PullInv, PullTypeOK
<1> QED BY <1>2, <1>4, <1>5 DEF PullInv, Grows

\* A pull ends: whoever it answers finds stored what it could see.
LEMMA PullEnds ==
    ASSUME PullInv, Grows, NEW p \in Puller, NEW complete \in BOOLEAN, EndPull(p, complete),
           tenant' \in Tenant, held' \in BOOLEAN, recorded' \subseteq Tenant \X (1..MaxShown),
           applied' \in [Tenant -> Seq(1..MaxShown)], faults' \in 0..MaxFaults, UNCHANGED shown,
           \A c \in Caller : complete /\ caller[c].pc = "running" /\ caller[c].at = p
               /\ caller[c].tenant = pull[p].tenant
                                => caller[c].seen <= Len(applied'[caller[c].tenant])
    PROVE  PullInv'
<1>1. pull' \in [Puller -> Pulls] /\ pull'[p].pc = "none" /\ \A q \in Puller \ {p} : pull'[q] = pull[q]
  BY PullNumbers, PullFacts DEF EndPull
<1>2. again' \in [Puller -> Queued]
  <2>1. "ready" \in Queued
    BY DEF Queued
  <2> QED BY <2>1, PullFacts DEF EndPull
<1>3. ASSUME NEW c \in Caller
      PROVE  /\ caller'[c] \in Callers
             /\ \/ caller'[c] = caller[c]
                \/ /\ caller'[c].seen <= shown[caller'[c].tenant]
                   /\ caller'[c].pc = "answered" => caller'[c].seen <= Len(applied'[caller'[c].tenant])
                   /\ caller'[c].pc # "running"
  <2>1. caller[c] \in Callers /\ caller[c].tenant \in Tenant /\ caller[c].seen \in Nat
      /\ caller[c].seen <= shown[caller[c].tenant]
    BY PullFacts DEF PullInv, Asked
  <2>2. CASE caller'[c] = caller[c]
    BY <2>1, <2>2
  <2>3. CASE caller'[c] = Idle
    <3>1. Idle.tenant \in Tenant
      BY PullNumbers DEF Callers
    <3> QED BY <2>3, <3>1, PullNumbers, PullFacts
  <2>4. CASE /\ complete /\ caller[c].pc = "running" /\ caller[c].at = p /\ caller[c].tenant = pull[p].tenant
             /\ caller'[c] = [caller[c] EXCEPT !.pc = "answered"]
    <3>1. /\ caller'[c] \in Callers /\ caller'[c].pc = "answered" /\ caller'[c].seen = caller[c].seen
          /\ caller'[c].tenant = caller[c].tenant
      BY <2>1, <2>4 DEF Callers, CallerPcs
    <3> QED BY <2>1, <2>4, <3>1
  <2> QED BY <2>2, <2>3, <2>4 DEF EndPull
<1>4. caller' \in [Caller -> Callers]
  BY <1>3 DEF EndPull
<1>5. \A q \in Puller : pull'[q] = pull[q] \/ pull'[q].pc \in {"none", "device"}
  BY <1>1
<1> QED BY <1>1, <1>2, <1>3, <1>4, <1>5, CallersMoved

\* After an event that is stored.
LEMMA OnwardStep ==
    ASSUME PullInv, Grows, NEW p \in Puller, pull[p].pc \in {"event", "store"}, Onward(p),
           UNCHANGED <<shown, tenant, held, faults>>, recorded' \subseteq Tenant \X (1..MaxShown),
           applied' \in [Tenant -> Seq(1..MaxShown)],
           pull[p].next \in 1..Len(applied'[pull[p].tenant])
    PROVE  PullInv'
<1> DEFINE r == pull[p]
<1>1. /\ r \in Pulls /\ r.tenant \in Tenant /\ r.next \in Nat /\ r.last \in Nat /\ r.next <= r.last
         /\ pull \in [Puller -> Pulls]
      /\ again \in [Puller -> Queued] /\ r.page \in Nat /\ r.last <= MaxShown
  <2>1. r \in Pulls /\ r.tenant \in Tenant /\ r.next \in Nat /\ r.last \in Nat
    BY PullFacts
  <2>2. pull \in [Puller -> Pulls] /\ again \in [Puller -> Queued]
    BY PullFacts
  <2>3. r.next <= r.last
    BY DEF PullInv, Reading
  <2>4. r.page \in Nat /\ r.last <= MaxShown
    BY <2>1, PullNumbers DEF Pulls
  <2> QED BY <2>1, <2>2, <2>3, <2>4
<1>2. tenant' \in Tenant /\ held' \in BOOLEAN /\ faults' \in 0..MaxFaults
  BY DEF PullInv, PullTypeOK
<1>3. Len(applied'[r.tenant]) \in Nat
  BY <1>1 DEF Grows, Kept
<1>4. CASE r.next < r.last
  <2> DEFINE new == [r EXCEPT !.pc = "event", !.next = r.next + 1]
  <2>1. pull' = [pull EXCEPT ![p] = new] /\ UNCHANGED <<again, caller>>
    BY <1>4 DEF Onward
  <2>2. r.next + 1 \in 0..MaxShown + 1
    BY <1>1, <1>4, PullNumbers
  <2>3. /\ new \in Pulls /\ new.pc = "event" /\ new.next = r.next + 1 /\ new.tenant = r.tenant /\ new.last = r.last
        /\ new.more = r.more
    BY <1>1, <2>2 DEF Pulls, PullPcs
  <2> HIDE DEF new
  <2>4. PullMoves(p, new)
    BY <1>1, <2>1, <2>3 DEF PullMoves
  <2>5. new.next \in 1..Len(applied'[new.tenant]) + 1 /\ new.next <= new.last
    BY <1>1, <1>3, <1>4, <2>3
  <2>6. ~new.more => \A c \in Caller : caller[c].pc = "running" /\ caller[c].at = p /\ caller[c].tenant = new.tenant
                                          => caller[c].seen <= new.last
    BY <2>3 DEF PullInv, Asked
  <2> QED BY <1>1, <1>2, <2>1, <2>3, <2>4, <2>5, <2>6, PullMovedTo
<1>5. CASE ~(r.next < r.last) /\ r.more /\ r.page + 1 < MaxPages
  <2> DEFINE new == [r EXCEPT !.pc = "cursor", !.page = r.page + 1]
  <2>1. pull' = [pull EXCEPT ![p] = new] /\ UNCHANGED <<again, caller>>
    BY <1>5 DEF Onward
  <2>2. r.page + 1 \in 0..MaxPages - 1
    BY <1>1, <1>5, PullNumbers
  <2>3. new \in Pulls /\ new.pc = "cursor"
    BY <1>1, <2>2 DEF Pulls, PullPcs
  <2> HIDE DEF new
  <2>4. PullMoves(p, new)
    BY <1>1, <2>1, <2>3 DEF PullMoves
  <2> QED BY <1>1, <1>2, <2>1, <2>3, <2>4, PullMovedTo
<1>6. CASE EndPull(p, ~r.more) /\ ~(r.next < r.last)
  <2>1. ASSUME NEW c \in Caller, ~r.more, caller[c].pc = "running", caller[c].at = p, caller[c].tenant = r.tenant
        PROVE  caller[c].seen <= Len(applied'[caller[c].tenant])
    <3>1. caller[c].seen <= r.last /\ caller[c].seen \in Nat
      BY <2>1, PullFacts DEF PullInv, Asked
    <3> QED BY <1>1, <1>3, <1>6, <2>1, <3>1
  <2>2. PICK b \in BOOLEAN : b = ~r.more
    OBVIOUS
  <2> QED BY <1>1, <1>2, <1>6, <2>1, <2>2, PullEnds
<1> QED BY <1>4, <1>5, <1>6 DEF Onward

\* What the type invariant says of what a step leaves alone.
LEMMA PullSame ==
    ASSUME PullInv
    PROVE  /\ tenant \in Tenant /\ held \in BOOLEAN /\ faults \in 0..MaxFaults
           /\ recorded \subseteq Tenant \X (1..MaxShown) /\ applied \in [Tenant -> Seq(1..MaxShown)]
           /\ faults < MaxFaults => faults + 1 \in 0..MaxFaults
<1>1. MaxFaults \in Nat
  BY PullNumbers
<1> QED BY <1>1 DEF PullInv, PullTypeOK

\* A pull moves on, and nothing is stored.
LEMMA PullOnly ==
    ASSUME PullInv, NEW p \in Puller, NEW new \in Pulls, pull' = [pull EXCEPT ![p] = new],
           UNCHANGED <<shown, tenant, held, recorded, applied, again, caller, faults>>,
           new.pc \in {"fetch", "event", "store"} => new.next \in 1..Kept(new.tenant) + 1,
           new.pc \in {"event", "store"} => new.next <= new.last,
           new.pc \in {"event", "store"} /\ ~new.more =>
               \A c \in Caller : caller[c].pc = "running" /\ caller[c].at = p /\ caller[c].tenant = new.tenant
                                    => caller[c].seen <= new.last
    PROVE  PullInv'
<1>1. PullMoves(p, new)
  BY PullFacts DEF PullMoves
<1>2. Kept(new.tenant) = Len(applied'[new.tenant])
  BY DEF Kept
<1> QED BY <1>1, <1>2, StillGrows, PullFacts, PullSame, PullMovedTo

\* The engine and the administrator.
LEMMA OutsideSteps ==
    ASSUME PullInv, Hold \/ \E t \in Tenant : Show(t) \/ Move(t)
    PROVE  PullInv'
<1>1. CASE Hold \/ \E t \in Tenant : Move(t)
  <2>1. /\ UNCHANGED <<shown, recorded, applied, pull, again, caller>>
        /\ tenant' \in Tenant /\ held' \in BOOLEAN /\ faults' \in 0..MaxFaults
    BY <1>1, PullSame DEF Hold, Move
  <2> QED BY <2>1, StillGrows, PullFacts, PullSame, CallersMoved
<1>2. ASSUME NEW t \in Tenant, Show(t) PROVE PullInv'
  <2>1. /\ shown' \in [Tenant -> 0..MaxShown] /\ \A u \in Tenant : shown[u] <= shown'[u] /\ shown'[u] \in Nat
    <3>1. shown \in [Tenant -> 0..MaxShown] /\ MaxShown \in Nat
      BY PullNumbers DEF PullInv, PullTypeOK
    <3>2. shown[t] + 1 \in 0..MaxShown
      BY <1>2, <3>1 DEF Show
    <3> QED BY <1>2, <3>1, <3>2 DEF Show
  <2>2. UNCHANGED <<tenant, held, recorded, applied, pull, again, caller, faults>>
    BY <1>2 DEF Show
  <2>3. PullTypeOK' /\ Stored' /\ Reading'
    BY <2>1, <2>2 DEF PullInv, PullTypeOK, Stored, Reading, Kept
  <2>4. ASSUME NEW c \in Caller PROVE caller[c].seen <= shown'[caller[c].tenant]
    <3>1. caller[c].tenant \in Tenant /\ caller[c].seen \in Nat /\ caller[c].seen <= shown[caller[c].tenant]
          /\ shown[caller[c].tenant] \in Nat
      BY PullFacts DEF PullInv, Asked
    <3> QED BY <2>1, <3>1
  <2>5. Asked'
    BY <2>2, <2>4 DEF PullInv, Asked, Kept
  <2> QED BY <2>3, <2>5 DEF PullInv
<1> QED BY <1>1, <1>2

\* A pull that starts.
LEMMA StartedIs ==
    ASSUME PullInv, NEW p \in Puller
    PROVE  /\ Started(p) \in [Puller -> Pulls] /\ Started(p)[p].pc = "device"
           /\ \A q \in Puller \ {p} : Started(p)[q] = pull[q]
<1> DEFINE new == [NoPull EXCEPT !.pc = "device"]
<1>1. new \in Pulls /\ new.pc = "device"
  BY PullNumbers DEF Pulls, PullPcs
<1>2. Started(p) = [pull EXCEPT ![p] = new]
  BY DEF Started
<1> HIDE DEF new
<1> QED BY <1>1, <1>2, PullFacts

\* pullDevice, and the timer.
LEMMA AskSteps ==
    ASSUME PullInv, NEW p \in Puller, Round(p) \/ \E c \in Caller : AskPull(c, p)
    PROVE  PullInv'
<1>1. CASE Round(p)
  <2>1. pull' = Started(p) /\ UNCHANGED <<shown, tenant, held, recorded, applied, again, caller, faults>>
    BY <1>1 DEF Round
  <2>2. pull' \in [Puller -> Pulls] /\ \A q \in Puller : pull'[q] = pull[q] \/ pull'[q].pc \in {"none", "device"}
    BY <2>1, StartedIs
  <2> QED BY <2>1, <2>2, StillGrows, PullFacts, PullSame, CallersMoved
<1>2. ASSUME NEW c \in Caller, AskPull(c, p) PROVE PullInv'
  <2>1. UNCHANGED <<shown, tenant, held, recorded, applied, faults>>
    BY <1>2 DEF AskPull
  <2>2. ASSUME NEW goal \in CallerPcs PROVE [pc |-> goal, at |-> p, tenant |-> tenant, seen |-> shown[tenant]] \in Callers
    BY PullSame, PullFacts, PullNumbers DEF Callers
  <2>3. CASE StartPull(c, p)
    <3> DEFINE new == [pc |-> "running", at |-> p, tenant |-> tenant, seen |-> shown[tenant]]
    <3>1. caller' = [caller EXCEPT ![c] = new] /\ pull' = Started(p) /\ UNCHANGED again
      BY <2>3 DEF StartPull
    <3>2. new \in Callers /\ new.pc = "running" /\ new.at = p /\ new.seen = shown[new.tenant]
      BY <2>2 DEF CallerPcs
    <3> HIDE DEF new
    <3>3. caller' \in [Caller -> Callers] /\ caller'[c] = new /\ \A d \in Caller \ {c} : caller'[d] = caller[d]
      BY <3>1, <3>2, PullFacts
    <3>4. /\ pull' \in [Puller -> Pulls] /\ pull'[p].pc = "device"
          /\ \A q \in Puller : pull'[q] = pull[q] \/ pull'[q].pc \in {"none", "device"}
      BY <3>1, StartedIs
    <3>5. new.seen <= shown[new.tenant]
      BY <3>2, PullFacts DEF Callers
    <3> QED BY <2>1, <3>1, <3>2, <3>3, <3>4, <3>5, StillGrows, PullFacts, PullSame, CallersMoved
  <2>4. CASE JoinQueued(c, p)
    <3> DEFINE new == [pc |-> "queued", at |-> p, tenant |-> tenant, seen |-> shown[tenant]]
    <3>1. caller' = [caller EXCEPT ![c] = new] /\ UNCHANGED pull
      BY <2>4 DEF JoinQueued
    <3>2. new \in Callers /\ new.pc = "queued" /\ new.seen = shown[new.tenant]
      BY <2>2 DEF CallerPcs
    <3> HIDE DEF new
    <3>3. caller' \in [Caller -> Callers] /\ caller'[c] = new /\ \A d \in Caller \ {c} : caller'[d] = caller[d]
      BY <3>1, <3>2, PullFacts
    <3>4. again' \in [Puller -> Queued]
      BY <2>4, PullFacts DEF JoinQueued, Queued
    <3>5. new.seen <= shown[new.tenant]
      BY <3>2, PullFacts DEF Callers
    <3> QED BY <2>1, <3>1, <3>2, <3>3, <3>4, <3>5, StillGrows, PullFacts, PullSame, CallersMoved
  <2> QED BY <1>2, <2>3, <2>4 DEF AskPull
<1> QED BY <1>1, <1>2

\* The queued pull begins, or a process stops.
LEMMA QueueSteps ==
    ASSUME PullInv, NEW p \in Puller, FollowUp(p) \/ StopPuller(p)
    PROVE  PullInv'
<1>1. /\ UNCHANGED <<shown, tenant, held, recorded, applied>> /\ faults' \in 0..MaxFaults
      /\ tenant' \in Tenant /\ held' \in BOOLEAN
  BY PullSame DEF FollowUp, StopPuller
<1>2. again' \in [Puller -> Queued]
  BY PullFacts DEF FollowUp, StopPuller, Queued
<1>3. /\ pull' \in [Puller -> Pulls]
      /\ \A q \in Puller : pull'[q] = pull[q] \/ pull'[q].pc \in {"none", "device"}
      /\ pull' = pull \/ pull'[p].pc = "device" \/ StopPuller(p)
  <2>1. CASE pull' = Started(p)
    BY <2>1, StartedIs
  <2>2. CASE pull' = pull
    BY <2>2, PullFacts
  <2>3. CASE pull' = [pull EXCEPT ![p] = NoPull] /\ StopPuller(p)
    BY <2>3, PullFacts, PullNumbers
  <2> QED BY <2>1, <2>2, <2>3 DEF FollowUp, StopPuller
<1>4. ASSUME NEW c \in Caller
      PROVE  /\ caller'[c] \in Callers
             /\ \/ caller'[c] = caller[c]
                \/ /\ caller'[c].seen <= shown[caller'[c].tenant]
                   /\ caller'[c].pc # "answered"
                   /\ caller'[c].pc = "running" => caller'[c].at = p /\ pull'[p].pc = "device"
  <2>1. caller[c] \in Callers /\ caller[c].tenant \in Tenant /\ caller[c].seen \in Nat
      /\ caller[c].seen <= shown[caller[c].tenant]
    BY PullFacts DEF PullInv, Asked
  <2>2. CASE caller'[c] = caller[c]
    BY <2>1, <2>2
  <2>3. CASE caller'[c] = Idle
    <3>1. Idle.tenant \in Tenant
      BY PullNumbers DEF Callers
    <3> QED BY <2>3, <3>1, PullNumbers, PullFacts
  <2>4. CASE pull' = Started(p) /\ caller[c].at = p /\ caller'[c] = [caller[c] EXCEPT !.pc = "running"]
    <3>1. /\ caller'[c] \in Callers /\ caller'[c].pc = "running" /\ caller'[c].seen = caller[c].seen
          /\ caller'[c].tenant = caller[c].tenant /\ caller'[c].at = p
      BY <2>1, <2>4 DEF Callers, CallerPcs
    <3> QED BY <2>1, <2>4, <3>1, StartedIs
  <2> QED BY <2>2, <2>3, <2>4 DEF FollowUp, StopPuller
<1>5. caller' \in [Caller -> Callers]
  <2>1. CASE caller' = caller
    BY <2>1, PullFacts
  <2>2. CASE caller' # caller
    BY <1>4, <2>2 DEF FollowUp, StopPuller
  <2> QED BY <2>1, <2>2
<1> QED BY <1>1, <1>2, <1>3, <1>4, <1>5, StillGrows, PullSame, CallersMoved

\* The smaller of two numbers is one of them, and not larger than the first.
LEMMA LeastOfTwo == ASSUME NEW a \in Nat, NEW b \in Nat PROVE Min({a, b}) \in {a, b} /\ Min({a, b}) <= a
<1>1. CASE a <= b
  <2>1. a \in {a, b} /\ \A y \in {a, b} : a =< y
    BY <1>1
  <2>2. \E x \in {a, b} : \A y \in {a, b} : x =< y
    BY <2>1
  <2> QED BY <2>2 DEF Min
<1>2. CASE b <= a
  <2>1. b \in {a, b} /\ \A y \in {a, b} : b =< y
    BY <1>2
  <2>2. \E x \in {a, b} : \A y \in {a, b} : x =< y
    BY <2>1
  <2> QED BY <2>2 DEF Min
<1> QED BY <1>1, <1>2

\* A pull reads the number, the cursor, a page.
LEMMA ReadPullSteps ==
    ASSUME PullInv, NEW p \in Puller, ReadDevice(p) \/ ReadCursor(p) \/ FetchPage(p) \/ CopyMedia(p) \/ Fail(p)
    PROVE  PullInv'
<1> DEFINE r == pull[p]
<1>1. r \in Pulls /\ r.tenant \in Tenant /\ r.next \in Nat /\ r.last \in Nat /\ Kept(r.tenant) \in Nat
    /\ Kept(r.tenant) <= MaxShown
  BY PullFacts
<1>2. /\ FALSE \in BOOLEAN /\ tenant \in Tenant /\ held \in BOOLEAN /\ faults \in 0..MaxFaults
      /\ recorded \subseteq Tenant \X (1..MaxShown) /\ applied \in [Tenant -> Seq(1..MaxShown)]
  BY PullSame
<1>3. CASE ReadDevice(p)
  <2>1. CASE held
    BY <1>2, <1>3, <2>1, StillGrows, PullEnds DEF ReadDevice
  <2>2. CASE ~held
    <3> DEFINE new == [r EXCEPT !.pc = "cursor", !.tenant = tenant]
    <3>1. new \in Pulls /\ new.pc = "cursor"
      BY <1>1, <1>2 DEF Pulls, PullPcs
    <3>2. pull' = [pull EXCEPT ![p] = new]
        /\ UNCHANGED <<shown, tenant, held, recorded, applied, again, caller, faults>>
      BY <1>3, <2>2 DEF ReadDevice
    <3> HIDE DEF new
    <3> QED BY <3>1, <3>2, PullOnly
  <2> QED BY <2>1, <2>2
<1>4. CASE ReadCursor(p)
  <2> DEFINE new == [r EXCEPT !.pc = "fetch", !.next = Kept(r.tenant) + 1]
  <2>1. Kept(r.tenant) + 1 \in 0..MaxShown + 1 /\ Kept(r.tenant) + 1 \in 1..Kept(r.tenant) + 1
    BY <1>1, PullNumbers
  <2>2. new \in Pulls /\ new.pc = "fetch" /\ new.next = Kept(r.tenant) + 1 /\ new.tenant = r.tenant
    BY <1>1, <2>1 DEF Pulls, PullPcs
  <2>3. pull' = [pull EXCEPT ![p] = new]
      /\ UNCHANGED <<shown, tenant, held, recorded, applied, again, caller, faults>>
    BY <1>1, <1>4, CursorIsKept DEF ReadCursor
  <2> HIDE DEF new
  <2> QED BY <2>1, <2>2, <2>3, PullOnly
<1>5. CASE CopyMedia(p)
  <2> DEFINE new == [r EXCEPT !.pc = "store"]
  <2>1. /\ new \in Pulls /\ new.pc = "store" /\ new.next = r.next /\ new.tenant = r.tenant /\ new.last = r.last
        /\ new.more = r.more /\ r.pc = "event"
    BY <1>1, <1>5 DEF Pulls, PullPcs, CopyMedia
  <2>2. pull' = [pull EXCEPT ![p] = new]
      /\ UNCHANGED <<shown, tenant, held, recorded, applied, again, caller, faults>>
    BY <1>5 DEF CopyMedia
  <2> HIDE DEF new
  <2>3. new.next \in 1..Kept(new.tenant) + 1 /\ new.next <= new.last
    BY <2>1 DEF PullInv, Reading
  <2>4. ~new.more => \A c \in Caller : caller[c].pc = "running" /\ caller[c].at = p /\ caller[c].tenant = new.tenant
                                          => caller[c].seen <= new.last
    BY <2>1 DEF PullInv, Asked
  <2> QED BY <2>1, <2>2, <2>3, <2>4, PullOnly
<1>6. CASE Fail(p)
  <2>1. /\ EndPull(p, FALSE) /\ UNCHANGED <<shown, tenant, held, recorded, applied>> /\ faults' \in 0..MaxFaults
    BY <1>6, PullSame DEF Fail, GiveUp
  <2> QED BY <1>2, <2>1, StillGrows, PullEnds
<1>7. CASE FetchPage(p)
  <2> DEFINE last == Min({shown[r.tenant], r.next + PageLimit - 1})
  <2>1. shown[r.tenant] \in Nat /\ shown[r.tenant] <= MaxShown /\ r.next + PageLimit - 1 \in Nat
      /\ r.next + PageLimit - 1 >= r.next
    BY <1>1, PullFacts, PullNumbers
  <2>2. /\ last \in Nat /\ last <= shown[r.tenant] /\ last \in {shown[r.tenant], r.next + PageLimit - 1}
    BY <2>1, LeastOfTwo
  <2>3. UNCHANGED <<shown, tenant, held, recorded, applied, faults>> /\ r.pc = "fetch"
    BY <1>7 DEF FetchPage
  <2>4. r.next \in 1..Kept(r.tenant) + 1
    BY <2>3 DEF PullInv, Reading
  <2>5. CASE last < r.next
    <3>1. shown[r.tenant] < r.next
      BY <1>1, <2>1, <2>2, <2>5
    <3>2. shown[r.tenant] <= Kept(r.tenant)
      BY <1>1, <2>1, <2>4, <3>1
    <3>3. ASSUME NEW c \in Caller, caller[c].tenant = r.tenant PROVE caller[c].seen <= Len(applied'[caller[c].tenant])
      <4>1. caller[c].seen \in Nat /\ caller[c].seen <= shown[r.tenant]
        BY <3>3, PullFacts DEF PullInv, Asked
      <4> QED BY <1>1, <2>1, <2>3, <3>2, <3>3, <4>1 DEF Kept
    <3>4. EndPull(p, TRUE)
      BY <1>7, <2>5 DEF FetchPage
    <3> QED BY <1>2, <2>3, <3>3, <3>4, StillGrows, PullEnds
  <2>6. CASE ~(last < r.next)
    <3>1. PICK more \in BOOLEAN : more = (shown[r.tenant] > last)
      <4>1. (shown[r.tenant] > last) \in BOOLEAN
        OBVIOUS
      <4> QED BY <4>1
    <3>2. PICK n \in 0..MaxShown : n = last
      BY <2>1, <2>2, PullNumbers
    <3> DEFINE new == [r EXCEPT !.pc = "event", !.last = n, !.more = more]
    <3>3. pull' = [pull EXCEPT ![p] = new] /\ UNCHANGED <<again, caller>>
      BY <1>7, <2>6, <3>1, <3>2 DEF FetchPage
    <3>4. /\ new \in Pulls /\ new.pc = "event" /\ new.next = r.next /\ new.tenant = r.tenant /\ new.last = n
          /\ new.more = more
      BY <1>1 DEF Pulls, PullPcs
    <3> HIDE DEF new
    <3>5. new.next <= new.last
      BY <1>1, <2>2, <2>6, <3>2, <3>4
    <3>6. ASSUME ~new.more, NEW c \in Caller, caller[c].tenant = new.tenant PROVE caller[c].seen <= new.last
      <4>1. caller[c].seen \in Nat /\ caller[c].seen <= shown[r.tenant]
        BY <3>4, <3>6, PullFacts DEF PullInv, Asked
      <4>2. shown[r.tenant] <= n
        <5>1. ~more /\ n = last
          BY <3>2, <3>4, <3>6
        <5> HIDE DEF last
        <5>2. ~(shown[r.tenant] > last)
          BY <3>1, <5>1
        <5> QED BY <2>1, <2>2, <5>1, <5>2
      <4> QED BY <2>1, <3>4, <4>1, <4>2
    <3> QED BY <2>3, <2>4, <3>3, <3>4, <3>5, <3>6, PullOnly
  <2> QED BY <2>5, <2>6
<1> QED BY <1>3, <1>4, <1>5, <1>6, <1>7

\* An event takes effect once its id is recorded, and none before it is left out.
LEMMA EventSteps ==
    ASSUME PullInv, NEW p \in Puller, SkipSeen(p) \/ StoreEvent(p)
    PROVE  PullInv'
<1> DEFINE r == pull[p]
<1>1. r \in Pulls /\ r.tenant \in Tenant /\ r.next \in Nat /\ r.last \in Nat /\ Kept(r.tenant) \in Nat
    /\ Kept(r.tenant) <= MaxShown
  BY PullFacts
<1>2. r.pc \in {"event", "store"} /\ r.next \in 1..Kept(r.tenant) + 1 /\ r.next <= r.last /\ r.last <= MaxShown
  <2>1. r.pc \in {"event", "store"}
    BY DEF SkipSeen, StoreEvent
  <2>2. r.next \in 1..Kept(r.tenant) + 1 /\ r.next <= r.last
    BY <2>1 DEF PullInv, Reading
  <2>3. r.last <= MaxShown
    BY <1>1, PullNumbers DEF Pulls
  <2> QED BY <2>1, <2>2, <2>3
<1>3. CASE SkipSeen(p)
  <2>1. <<r.tenant, r.next>> \in recorded /\ Onward(p) /\ UNCHANGED <<shown, tenant, held, recorded, applied, faults>>
    BY <1>3 DEF SkipSeen, Event
  <2>2. r.next \in 1..Len(applied'[r.tenant])
    BY <1>1, <2>1 DEF PullInv, Stored, Kept
  <2> QED BY <1>2, <2>1, <2>2, StillGrows, PullSame, OnwardStep
<1>4. CASE StoreEvent(p)
  <2>1. /\ recorded' = recorded \cup {<<r.tenant, r.next>>} /\ Onward(p) /\ UNCHANGED <<shown, tenant, held, faults>>
        /\ applied' = IF <<r.tenant, r.next>> \in recorded THEN applied
                      ELSE [applied EXCEPT ![r.tenant] = Append(applied[r.tenant], r.next)]
    BY <1>4 DEF StoreEvent, Record, Event
  <2>2. recorded' \subseteq Tenant \X (1..MaxShown)
    <3>1. r.tenant \in Tenant /\ r.next \in 1..MaxShown
      BY <1>1, <1>2, PullNumbers
    <3>2. recorded \subseteq Tenant \X (1..MaxShown)
      BY PullSame
    <3> QED BY <2>1, <3>1, <3>2
  <2>3. CASE <<r.tenant, r.next>> \in recorded
    <3>1. UNCHANGED <<recorded, applied>>
      BY <2>1, <2>3
    <3>2. r.next \in 1..Len(applied'[r.tenant])
      BY <1>1, <2>3, <3>1 DEF PullInv, Stored, Kept
    <3> QED BY <1>2, <2>1, <3>1, <3>2, StillGrows, PullSame, OnwardStep
  <2>4. CASE <<r.tenant, r.next>> \notin recorded
    <3>1. r.next = Kept(r.tenant) + 1
      <4>1. \A i \in Nat : <<r.tenant, i>> \in recorded <=> i \in 1..Kept(r.tenant)
        BY <1>1 DEF PullInv, Stored
      <4>2. ~(r.next \in 1..Kept(r.tenant))
        BY <1>1, <2>4, <4>1
      <4> QED BY <1>1, <1>2, <4>2
    <3>2. applied \in [Tenant -> Seq(1..MaxShown)]
      BY PullSame
    <3>3. PICK z \in Seq(1..MaxShown) : z = applied[r.tenant]
      BY <1>1, <3>2
    <3>4. /\ Append(z, r.next) \in Seq(1..MaxShown) /\ Len(Append(z, r.next)) = Kept(r.tenant) + 1
          /\ Append(z, r.next) = [i \in 1..Kept(r.tenant) + 1 |-> i]
      <4>1. z = [i \in 1..Kept(r.tenant) |-> i] /\ Len(z) = Kept(r.tenant)
        BY <1>1, <3>3 DEF PullInv, Stored, Kept
      <4>2. r.next \in 1..MaxShown
        BY <1>1, <1>2, PullNumbers
      <4> QED BY <1>1, <3>1, <3>3, <4>1, <4>2
    <3> DEFINE y == Append(z, r.next)
    <3>5. applied' = [applied EXCEPT ![r.tenant] = y]
      BY <2>1, <2>4, <3>3
    <3>6. y \in Seq(1..MaxShown) /\ Len(y) = Kept(r.tenant) + 1 /\ y = [i \in 1..Kept(r.tenant) + 1 |-> i]
      BY <3>4
    <3> HIDE DEF y
    <3>7. /\ applied' \in [Tenant -> Seq(1..MaxShown)] /\ applied'[r.tenant] = y
          /\ \A t \in Tenant \ {r.tenant} : applied'[t] = applied[t]
      BY <1>1, <3>2, <3>5, <3>6
    <3>8. Stored'
      <4>1. ASSUME NEW t \in Tenant \ {r.tenant}
            PROVE  /\ applied'[t] = [i \in 1..Len(applied'[t]) |-> i]
                   /\ \A i \in Nat : <<t, i>> \in recorded' <=> i \in 1..Len(applied'[t])
        BY <2>1, <3>7, <4>1 DEF PullInv, Stored, Kept
      <4>2. \A i \in Nat : <<r.tenant, i>> \in recorded' <=> i \in 1..Len(y)
        <5>1. \A i \in Nat : <<r.tenant, i>> \in recorded <=> i \in 1..Kept(r.tenant)
          BY <1>1 DEF PullInv, Stored
        <5>2. \A i \in Nat : <<r.tenant, i>> \in recorded' <=> i \in 1..Kept(r.tenant) \/ i = Kept(r.tenant) + 1
          BY <2>1, <3>1, <5>1
        <5> QED BY <1>1, <3>6, <5>2
      <4> QED BY <3>6, <3>7, <4>1, <4>2 DEF Stored, Kept
    <3>9. \A t \in Tenant : Kept(t)' \in Nat /\ Kept(t)' >= Kept(t)
      <4>1. ASSUME NEW t \in Tenant PROVE Len(applied'[t]) \in Nat /\ Len(applied'[t]) >= Len(applied[t])
        <5>1. Len(applied[t]) \in Nat
          BY PullFacts DEF Kept
        <5>2. CASE t = r.tenant
          BY <1>1, <3>6, <3>7, <5>1, <5>2 DEF Kept
        <5>3. CASE t # r.tenant
          BY <3>7, <5>1, <5>3
        <5> QED BY <5>2, <5>3
      <4> QED BY <4>1 DEF Kept
    <3>10. r.next \in 1..Len(applied'[r.tenant])
      BY <1>1, <3>1, <3>6, <3>7
    <3> QED BY <1>2, <2>1, <2>2, <3>7, <3>8, <3>9, <3>10, PullSame, OnwardStep DEF Grows
  <2> QED BY <2>3, <2>4
<1> QED BY <1>3, <1>4

\* The inductive invariant holds at the start.
LEMMA PullStarts == PullInit => PullInv
<1> SUFFICES ASSUME PullInit PROVE PullInv
  OBVIOUS
<1>1. \A t \in Tenant : shown[t] = 0 /\ applied[t] = <<>>
  BY DEF PullInit
<1>2. PullTypeOK
  <2>1. 0 \in 0..MaxShown /\ 0 \in 0..MaxFaults /\ NoPull.tenant \in Tenant /\ FALSE \in BOOLEAN
    BY PullNumbers DEF Pulls
  <2>2. "no" \in Queued /\ <<>> \in Seq(1..MaxShown)
    BY DEF Queued
  <2>3. shown \in [Tenant -> 0..MaxShown] /\ tenant \in Tenant /\ held \in BOOLEAN /\ faults \in 0..MaxFaults
    BY <2>1 DEF PullInit
  <2>4. recorded \subseteq Tenant \X (1..MaxShown) /\ applied \in [Tenant -> Seq(1..MaxShown)]
    BY <2>2 DEF PullInit
  <2>5. pull \in [Puller -> Pulls] /\ caller \in [Caller -> Callers]
    BY PullNumbers DEF PullInit
  <2>6. again \in [Puller -> Queued]
    BY <2>2 DEF PullInit
  <2> QED BY <2>3, <2>4, <2>5, <2>6 DEF PullTypeOK
<1>3. Stored
  <2>1. ASSUME NEW t \in Tenant PROVE applied[t] = [i \in 1..Kept(t) |-> i] /\ Kept(t) = 0
    BY <1>1 DEF Kept
  <2> QED BY <2>1 DEF PullInit, Stored
<1>4. Reading /\ Asked
  BY <1>1, PullNumbers DEF PullInit, Reading, Asked, Callers
<1> QED BY <1>2, <1>3, <1>4 DEF PullInv

\* Every step keeps it.
LEMMA PullKept == PullInv /\ [PullNext]_pullVars => PullInv'
<1> SUFFICES ASSUME PullInv, [PullNext]_pullVars PROVE PullInv'
  OBVIOUS
<1>1. CASE Hold \/ \E t \in Tenant : Show(t) \/ Move(t)
  BY <1>1, OutsideSteps
<1>2. CASE \E c \in Caller, p \in Puller : AskPull(c, p)
  BY <1>2, AskSteps
<1>3. CASE \E p \in Puller : Round(p) \/ PullStep(p) \/ Fail(p) \/ StopPuller(p)
  BY <1>3, AskSteps, QueueSteps, ReadPullSteps, EventSteps DEF PullStep
<1>4. CASE UNCHANGED pullVars
  BY <1>4 DEF pullVars, PullInv, PullTypeOK, Stored, Reading, Asked, Kept
<1> QED BY <1>1, <1>2, <1>3, <1>4 DEF PullNext

\* The inductive invariant of the pulls holds throughout.
THEOREM PullInvariant == PullSpec => []PullInv
BY PullStarts, PullKept, PTL DEF PullSpec

\* Every variable of the pulls has its type.
THEOREM PullTyped == PullSpec => []PullTypeOK
<1>1. PullInv => PullTypeOK
  BY DEF PullInv
<1> QED BY <1>1, PullInvariant, PTL

\* The events of a device take effect in their order and once each, and exactly those whose ids are
\* recorded, however webhooks, timers, failures and stops make pulls cross.
THEOREM EventsInOrderOnce == PullSpec => []AppliedInOrderOnce
<1>1. ASSUME PullInv PROVE AppliedInOrderOnce
  <2>1. ASSUME NEW t \in Tenant
        PROVE  /\ applied[t] = [i \in 1..Len(applied[t]) |-> i]
               /\ {<<t, i>> : i \in ToSet(applied[t])} = {e \in recorded : e[1] = t}
    <3>1. applied[t] = [i \in 1..Len(applied[t]) |-> i] /\ Len(applied[t]) \in Nat
      BY <1>1, PullFacts DEF PullInv, Stored, Kept
    <3>2. ToSet(applied[t]) = 1..Len(applied[t])
      BY <3>1 DEF ToSet
    <3>3. \A i \in Nat : <<t, i>> \in recorded <=> i \in 1..Len(applied[t])
      BY <1>1 DEF PullInv, Stored, Kept
    <3>4. recorded \subseteq Tenant \X (1..MaxShown) /\ MaxShown \in Nat
      BY <1>1, PullSame, PullNumbers
    <3>5. ASSUME NEW e \in recorded, e[1] = t PROVE e \in {<<t, i>> : i \in ToSet(applied[t])}
      <4>1. e = <<t, e[2]>> /\ e[2] \in Nat
        BY <3>4, <3>5
      <4> QED BY <3>2, <3>3, <3>5, <4>1
    <3>6. ASSUME NEW i \in ToSet(applied[t]) PROVE <<t, i>> \in recorded
      BY <3>1, <3>2, <3>3, <3>6
    <3> QED BY <3>1, <3>5, <3>6
  <2> QED BY <2>1 DEF AppliedInOrderOnce
<1> QED BY <1>1, PullInvariant, PTL

\* Who asked for a pull and is answered finds every event that could be seen when it asked.
THEOREM AnswersAreFresh == PullSpec => []FreshAnswers
<1>1. ASSUME PullInv PROVE FreshAnswers
  <2>1. ASSUME NEW c \in Caller, caller[c].pc = "answered", NEW i \in 1..caller[c].seen
        PROVE  <<caller[c].tenant, i>> \in recorded
    <3>1. /\ caller[c].tenant \in Tenant /\ caller[c].seen \in Nat /\ Kept(caller[c].tenant) \in Nat
          /\ caller[c].seen <= Kept(caller[c].tenant)
      BY <1>1, <2>1, PullFacts DEF PullInv, Asked
    <3>2. i \in Nat /\ i \in 1..Kept(caller[c].tenant)
      BY <3>1
    <3> QED BY <1>1, <3>1, <3>2 DEF PullInv, Stored
  <2> QED BY <2>1 DEF FreshAnswers
<1> QED BY <1>1, PullInvariant, PTL

-----------------------------------------------------------------------------
(* The numbers and the cards of modules. *)

\* Cards and routes name modules and numbers.
CardTypes ==
    /\ owner \in [Numbers -> Module \cup {NoModule}]
    /\ card \in [Module -> Numbers \cup {NoNumber}]
    /\ routes \subseteq Module \X Numbers

\* Module m may send through number n.
MaySend(m, n) == Exists(n) /\ (owner[n] = m \/ <<m, n>> \in routes)

\* The inductive invariant.
CardsInv == CardTypes /\ CardsReach

\* "None" is no number and no module, and a lower number is another one.
LEMMA NumbersFacts == NoNumber \notin Numbers /\ NoModule \notin Module /\ \A n, o \in Numbers : o < n => o # n
BY NumbersAssumption DEF NoNumber, NoModule

\* What the invariant says of each card.
LEMMA CardsFacts ==
    ASSUME CardsInv
    PROVE  /\ owner \in [Numbers -> Module \cup {NoModule}] /\ card \in [Module -> Numbers \cup {NoNumber}]
           /\ routes \subseteq Module \X Numbers
           /\ \A m \in Module : card[m] # NoNumber => MaySend(m, card[m]) /\ card[m] \in Numbers
BY DEF CardsInv, CardTypes, CardsReach, MaySend

\* Cards that show what they showed, or what they may show.
LEMMA CardsMoved ==
    ASSUME CardTypes', \A m \in Module : card'[m] # NoNumber => owner'[card'[m]] # NoModule /\
                          (owner'[card'[m]] = m \/ <<m, card'[m]>> \in routes')
    PROVE  CardsInv'
BY DEF CardsInv, CardsReach, Exists

\* A module gets a number that was nobody's.
LEMMA NewNumberStep ==
    ASSUME CardsInv, NEW m \in Module, NEW n \in Numbers, NEW t, CreateDevice(m, n, t) \/ ConnectNewNumber(m, n, t)
    PROVE  CardsInv'
<1>1. /\ owner' = [owner EXCEPT ![n] = m] /\ routes' = routes /\ owner[n] = NoModule
      /\ card' = card \/ card' = [card EXCEPT ![m] = n]
  BY DEF CreateDevice, ConnectNewNumber, InsertDevice, Exists
<1>2. CardTypes'
  BY <1>1, CardsFacts DEF CardTypes
<1>3. ASSUME NEW x \in Module, card'[x] # NoNumber
      PROVE  owner'[card'[x]] # NoModule /\ (owner'[card'[x]] = x \/ <<x, card'[x]>> \in routes')
  <2>1. CASE card'[x] = card[x]
    <3>1. /\ owner[card[x]] # NoModule /\ card[x] \in Numbers
          /\ owner[card[x]] = x \/ <<x, card[x]>> \in routes
      BY <1>3, <2>1, CardsFacts DEF MaySend, Exists
    <3>2. card[x] # n
      BY <1>1, <3>1
    <3> QED BY <1>1, <2>1, <3>1, <3>2, CardsFacts
  <2>2. CASE card'[x] # card[x]
    <3>1. x = m /\ card'[x] = n
      BY <1>1, <2>2, CardsFacts
    <3> QED BY <1>1, <3>1, CardsFacts, NumbersFacts
  <2> QED BY <2>1, <2>2
<1> QED BY <1>2, <1>3, CardsMoved

\* A number gets another owner.
LEMMA OwnerStep ==
    ASSUME CardsInv, NEW m \in Module, NEW n \in Numbers, ChangeOwner(n, m)
    PROVE  CardsInv'
<1>1. /\ owner' = [owner EXCEPT ![n] = m] /\ routes' = routes /\ owner[n] # NoModule /\ owner[n] # m
      /\ card' = [x \in Module |->
                    IF x = m /\ card[x] = NoNumber THEN n
                    ELSE IF x = owner[n] /\ card[x] = n /\ <<x, n>> \notin routes THEN NoNumber
                    ELSE card[x]]
  BY DEF ChangeOwner, CardsFollow, Exists
<1>2. CardTypes'
  BY <1>1, CardsFacts DEF CardTypes
<1>3. ASSUME NEW x \in Module, card'[x] # NoNumber
      PROVE  owner'[card'[x]] # NoModule /\ (owner'[card'[x]] = x \/ <<x, card'[x]>> \in routes')
  <2>1. CASE x = m /\ card[x] = NoNumber
    <3>1. card'[x] = n
      BY <1>1, <2>1
    <3> QED BY <1>1, <2>1, <3>1, CardsFacts, NumbersFacts
  <2>2. CASE ~(x = m /\ card[x] = NoNumber)
    <3>1. card'[x] = card[x] /\ ~(x = owner[n] /\ card[x] = n /\ <<x, n>> \notin routes)
      BY <1>1, <1>3, <2>2
    <3>2. /\ owner[card[x]] # NoModule /\ card[x] \in Numbers
          /\ owner[card[x]] = x \/ <<x, card[x]>> \in routes
      BY <1>3, <3>1, CardsFacts DEF MaySend, Exists
    <3>3. CASE card[x] # n
      BY <1>1, <3>1, <3>2, <3>3, CardsFacts
    <3>4. CASE card[x] = n
      BY <1>1, <3>1, <3>2, <3>4, CardsFacts, NumbersFacts
    <3> QED BY <3>3, <3>4
  <2> QED BY <2>1, <2>2
<1> QED BY <1>2, <1>3, CardsMoved

\* A card or a route is taken.
LEMMA TakeSteps ==
    ASSUME CardsInv, NEW m \in Module, NEW n \in Numbers, UseOwnNumber(m, n) \/ UseNumber(m, n)
    PROVE  CardsInv'
<1>1. /\ owner' = owner /\ Exists(n) /\ card' = [card EXCEPT ![m] = n] /\ MayTake(m, n)
      /\ routes' \subseteq routes \cup {<<m, n>>} /\ RoutesReleased(m, n) \subseteq routes'
      /\ owner[n] = m \/ <<m, n>> \in routes'
  BY DEF UseOwnNumber, UseNumber, Live, RoutesReleased
<1>2. CardTypes'
  BY <1>1, CardsFacts DEF CardTypes
<1>3. ASSUME NEW x \in Module, card'[x] # NoNumber
      PROVE  owner'[card'[x]] # NoModule /\ (owner'[card'[x]] = x \/ <<x, card'[x]>> \in routes')
  <2>1. CASE x = m
    BY <1>1, <2>1, CardsFacts DEF Exists
  <2>2. CASE x # m
    <3>1. card'[x] = card[x]
      BY <1>1, <2>2, CardsFacts
    <3>2. owner[card[x]] # NoModule /\ (owner[card[x]] = x \/ <<x, card[x]>> \in routes)
      BY <1>3, <3>1, CardsFacts DEF MaySend, Exists
    <3>3. <<x, card[x]>> \in routes => <<x, card[x]>> \in RoutesReleased(m, n)
      BY <2>2 DEF RoutesReleased
    <3> QED BY <1>1, <3>1, <3>2, <3>3
  <2> QED BY <2>1, <2>2
<1> QED BY <1>2, <1>3, CardsMoved

\* A card or a route is given up.
LEMMA LeaveSteps ==
    ASSUME CardsInv, (\E m \in Module : LetGo(m)) \/ (\E n \in Numbers : Deactivate(n))
    PROVE  CardsInv'
<1>1. CASE \E n \in Numbers : Deactivate(n)
  <2>1. PICK n \in Numbers : Deactivate(n)
    BY <1>1
  <2>2. owner' = owner /\ routes' = routes /\ card' = [x \in Module |-> IF card[x] = n THEN NoNumber ELSE card[x]]
    BY <2>1 DEF Deactivate
  <2>3. CardTypes'
    BY <2>2, CardsFacts DEF CardTypes
  <2>4. ASSUME NEW x \in Module, card'[x] # NoNumber
        PROVE  owner'[card'[x]] # NoModule /\ (owner'[card'[x]] = x \/ <<x, card'[x]>> \in routes')
    <3>1. card'[x] = card[x]
      BY <2>2, <2>4
    <3> QED BY <2>2, <2>4, <3>1, CardsFacts DEF MaySend, Exists
  <2> QED BY <2>3, <2>4, CardsMoved
<1>2. CASE \E m \in Module : LetGo(m)
  <2>1. PICK m \in Module : LetGo(m)
    BY <1>2
  <2>2. owner' = owner /\ routes' = routes \ {<<m, card[m]>>} /\ card' = [card EXCEPT ![m] = NoNumber]
    BY <2>1 DEF LetGo
  <2>3. CardTypes'
    BY <2>2, CardsFacts DEF CardTypes
  <2>4. ASSUME NEW x \in Module, card'[x] # NoNumber
        PROVE  owner'[card'[x]] # NoModule /\ (owner'[card'[x]] = x \/ <<x, card'[x]>> \in routes')
    <3>1. card'[x] = card[x] /\ x # m
      BY <2>2, <2>4, CardsFacts
    <3>2. <<x, card[x]>> # <<m, card[m]>>
      BY <3>1
    <3> QED BY <2>2, <2>4, <3>1, <3>2, CardsFacts DEF MaySend, Exists
  <2> QED BY <2>3, <2>4, CardsMoved
<1> QED BY <1>1, <1>2

\* The older number takes over: a card or a route to the newer one is one to it.
LEMMA TakeOverStep ==
    ASSUME CardsInv, NEW new \in Numbers, NEW old \in Numbers, UseExistingNumber(new, old)
    PROVE  CardsInv'
<1>1. /\ owner[new] # NoModule /\ owner[old] = owner[new] /\ old # new
      /\ owner' = [owner EXCEPT ![new] = NoModule]
      /\ card' = [x \in Module |-> IF card[x] = new THEN old ELSE card[x]]
      /\ routes' = {r \in routes : r[2] # new} \cup {<<r[1], old>> : r \in {y \in routes : y[2] = new}}
  BY NumbersFacts DEF UseExistingNumber, SamePhoneBefore, Exists
<1>2. CardTypes'
  <2>1. routes' \subseteq Module \X Numbers
    BY <1>1, CardsFacts
  <2> QED BY <1>1, <2>1, CardsFacts DEF CardTypes
<1>3. ASSUME NEW x \in Module, card'[x] # NoNumber
      PROVE  owner'[card'[x]] # NoModule /\ (owner'[card'[x]] = x \/ <<x, card'[x]>> \in routes')
  <2>1. CASE card[x] = new
    <3>1. card'[x] = old /\ owner'[old] = owner[old]
      BY <1>1, <2>1, CardsFacts
    <3>2. owner[new] = x \/ <<x, new>> \in routes
      BY <2>1, CardsFacts, NumbersFacts DEF MaySend
    <3>3. CASE <<x, new>> \in routes
      <4> DEFINE e == <<x, new>>
      <4>1. e \in {y \in routes : y[2] = new} /\ e[1] = x
        BY <3>3
      <4>2. <<x, old>> \in routes'
        BY <1>1, <4>1
      <4> QED BY <1>1, <3>1, <4>2
    <3> QED BY <1>1, <3>1, <3>2, <3>3
  <2>2. CASE card[x] # new
    <3>1. card'[x] = card[x]
      BY <1>1, <2>2
    <3>2. /\ owner[card[x]] # NoModule /\ card[x] \in Numbers
          /\ owner[card[x]] = x \/ <<x, card[x]>> \in routes
      BY <1>3, <3>1, CardsFacts DEF MaySend, Exists
    <3>3. <<x, card[x]>> \in routes => <<x, card[x]>> \in routes'
      BY <1>1, <2>2
    <3> QED BY <1>1, <2>2, <3>1, <3>2, <3>3, CardsFacts
  <2> QED BY <2>1, <2>2
<1> QED BY <1>2, <1>3, CardsMoved

\* Steps of the engine and of jobs leave cards, owners and routes alone.
LEMMA CardsStill ==
    ASSUME CardsInv, UNCHANGED <<owner, card, routes>> PROVE CardsInv'
BY DEF CardsInv, CardTypes, CardsReach, Exists

\* Every step keeps the inductive invariant.
LEMMA CardsKept == CardsInv /\ [NumbersNext]_numbersVars => CardsInv'
<1> SUFFICES ASSUME CardsInv, [NumbersNext]_numbersVars PROVE CardsInv'
  OBVIOUS
<1>1. CASE \E t \in EngineTenant : Drop(t) \/ \E f \in Handset : Scan(t, f)
  BY <1>1, CardsStill DEF Drop, Scan
<1>2. CASE \E n \in Numbers : Fill(n) \/ MarkDisconnected(n) \/ Deactivate(n)
  BY <1>2, CardsStill, LeaveSteps DEF Fill, MarkDisconnected
<1>3. CASE \E n \in Numbers, m \in Module : ChangeOwner(n, m) \/ UseOwnNumber(m, n) \/ UseNumber(m, n)
  BY <1>3, OwnerStep, TakeSteps
<1>4. CASE \E n \in Numbers, t \in EngineTenant :
              ChangeTenant(n, t) \/ \E m \in Module : CreateDevice(m, n, t) \/ ConnectNewNumber(m, n, t)
  BY <1>4, CardsStill, NewNumberStep DEF ChangeTenant
<1>5. CASE \E m \in Module : LetGo(m)
  BY <1>5, LeaveSteps
<1>6. CASE \E n, o \in Numbers : UseExistingNumber(n, o)
  BY <1>6, TakeOverStep
<1>7. CASE \E a \in Admin : JobStep(a)
  BY <1>7, CardsStill
     DEF JobStep, EngineAccepts, EngineFails, StoreProvision, StorePairing, StoreReconnect, StoreDisconnect,
         StoreRefresh
<1>8. CASE \E a \in Admin, n \in Numbers : BeginProvision(a, n) \/ BeginPairing(a, n) \/ BeginReconnect(a, n)
                                              \/ BeginDisconnect(a, n) \/ BeginRefresh(a, n)
  <2>1. UNCHANGED <<owner, card, routes>>
    BY <1>8 DEF BeginProvision, BeginPairing, BeginReconnect, BeginDisconnect, BeginRefresh, Read
  <2> QED BY <2>1, CardsStill
<1>9. CASE UNCHANGED numbersVars
  BY <1>9, CardsStill DEF numbersVars
<1> QED BY <1>1, <1>2, <1>3, <1>4, <1>5, <1>6, <1>7, <1>8, <1>9 DEF NumbersNext

\* The inductive invariant of the cards holds throughout.
THEOREM CardsInvariant == NumbersSpec => []CardsInv
<1>1. NumbersInit => CardsInv
  BY DEF NumbersInit, CardsInv, CardTypes, CardsReach
<1> QED BY <1>1, CardsKept, PTL DEF NumbersSpec

\* A module's card shows a number that exists and the module may send through, whatever the
\* administrators and the jobs of other modules do to numbers, routes and owners meanwhile.
THEOREM CardsReachable == NumbersSpec => []CardsReach
<1>1. CardsInv => CardsReach
  BY DEF CardsInv
<1> QED BY <1>1, CardsInvariant, PTL

-----------------------------------------------------------------------------
(* The groups of a number. *)

\* The reservation of a new group, and the group, are of one request.
OneKey ==
    /\ \A a, b \in Rows \cap Creation : a = b
    /\ \A r \in Creation :
          /\ req[r].pc \in {"idle", "reserve", "engine", "store", "release", "ended"}
          /\ req[r].pc = "reserve" => req[r].n > 0
          /\ req[r].pc \in {"reserve", "engine", "store", "release"} => req[r].kind = "create"
          /\ req[r].pc \in {"engine", "store", "release"} => r \in Rows
    /\ \A r \in Edit : req[r].kind # "create"

\* As long as every answer is heard, a group that was made keeps its reservation.
Heard ==
    /\ created \subseteq Rows \cap Creation
    /\ \A r \in Creation :
          /\ req[r].pc \in {"reserve", "engine", "release"} => r \notin created
          /\ req[r].pc = "store" => r \in created
          /\ reserved[r].group # "none" => reserved[r].group \in created
          /\ req[r].answer \in Creation => req[r].answer \in created

\* The inductive invariant.
GroupsInv == GroupsTypeOK /\ OneKey /\ (~unheard => Heard)

\* What the assumption says of the numbers and the answers, and the types of what is empty.
LEMMA GroupsConstants ==
    /\ AddLimit \in Nat /\ MaxTicks \in Nat /\ MaxLost \in Nat
    /\ 0 \in 0..AddLimit + 1 /\ 0 \in 0..MaxTicks /\ 0 \in 0..MaxLost
       /\ \A n \in 1..AddLimit + 1 : n \in 0..AddLimit + 1 /\ n > 0
    /\ \A r \in Creation : r \in Request /\ r \notin Edit
    /\ \A r \in Edit : r \in Request
    /\ \A a \in {"none", "in progress", "refused", "failed", "done"} : a \notin Creation
    /\ NoAnswer \in GroupState /\ NewGroup \in GroupState
    /\ NoRow \in Reservations /\ NoRow.n = 0 /\ NoRow.group = "none"
<1>0. AddLimit \in Nat /\ MaxTicks \in Nat /\ MaxLost \in Nat
  BY GroupsAssumption
<1>1. /\ 0 \in 0..AddLimit + 1 /\ 0 \in 0..MaxTicks /\ 0 \in 0..MaxLost
      /\ \A n \in 1..AddLimit + 1 : n \in 0..AddLimit + 1 /\ n > 0
  BY <1>0
<1>2. NoAnswer \in GroupState /\ NewGroup \in GroupState
  BY DEF NoAnswer, NewGroup, GroupState
<1>3. NoRow \in Reservations /\ NoRow.n = 0 /\ NoRow.group = "none"
  BY <1>1 DEF NoRow, Reservations
<1> QED BY <1>0, <1>1, <1>2, <1>3, GroupsAssumption DEF Request

\* What the invariant says of each value.
LEMMA GroupsFacts ==
    ASSUME GroupsInv
    PROVE  /\ req \in [Request -> GroupRequests] /\ reserved \in [Request -> Reservations]
              /\ created \subseteq Creation
           /\ whatsapp \in GroupState /\ kept \in GroupState /\ lister.saw \in GroupState
           /\ lister.pc \in {"idle", "store"} /\ unheard \in BOOLEAN /\ ticks \in 0..MaxTicks
              /\ lostAnswers \in 0..MaxLost
           /\ \A r \in Request : req[r] \in GroupRequests /\ reserved[r] \in Reservations /\ reserved[r].n \in Nat
<1>1. AddLimit \in Nat
  BY GroupsConstants
<1>2. \A r \in Request : reserved[r] \in Reservations /\ reserved[r].n \in Nat
  BY <1>1 DEF GroupsInv, GroupsTypeOK, Reservations
<1> QED BY <1>2 DEF GroupsInv, GroupsTypeOK

\* What a step of one request may leave of the reservation, the group and the answer.
RowMoves(r, x, y) ==
    /\ req' = [req EXCEPT ![r] = x] /\ reserved' = [reserved EXCEPT ![r] = y]
    /\ created' = created \/ (r \in Creation /\ created' = created \cup {r})
    /\ unheard' \in BOOLEAN /\ (unheard => unheard')
    /\ whatsapp' \in GroupState /\ kept' \in GroupState /\ lister' = lister
    /\ ticks' \in 0..MaxTicks /\ lostAnswers' \in 0..MaxLost

\* It reserves for a new group only when no other request has.
KeyMoves(r, x, y) ==
    /\ r \in Edit => x.kind # "create"
    /\ r \in Creation =>
          /\ y.n > 0 => (reserved[r].n > 0 \/ Rows \cap Creation = {})
          /\ x.pc \in {"reserve", "engine", "store", "release", "ended"}
          /\ x.pc = "reserve" => x.n > 0
          /\ x.pc # "ended" => x.kind = "create"
          /\ x.pc \in {"engine", "store", "release"} => y.n > 0

\* When every answer is heard, it names, and stores, the group that was made.
AnswerMoves(r, x, y) ==
    (~unheard' /\ r \in Creation) =>
          /\ r \in created' => y.n > 0
          /\ x.pc \in {"reserve", "engine", "release"} => r \notin created'
          /\ x.pc = "store" => r \in created'
          /\ y.group # "none" => y.group \in created'
          /\ x.answer \in Creation => x.answer \in created'

\* Such a step keeps the invariant.
LEMMA GroupRequestMoved ==
    ASSUME GroupsInv, NEW r \in Request, NEW x \in GroupRequests, NEW y \in Reservations,
           RowMoves(r, x, y), KeyMoves(r, x, y), AnswerMoves(r, x, y)
    PROVE  GroupsInv'
<1>0. UNCHANGED lister /\ whatsapp' \in GroupState /\ kept' \in GroupState /\ ticks' \in 0..MaxTicks
    /\ lostAnswers' \in 0..MaxLost
  BY DEF RowMoves
<1>1. /\ req' \in [Request -> GroupRequests] /\ req'[r] = x /\ \A q \in Request \ {r} : req'[q] = req[q]
  BY GroupsFacts DEF RowMoves
<1>2. /\ reserved' \in [Request -> Reservations] /\ reserved'[r] = y
         /\ \A q \in Request \ {r} : reserved'[q] = reserved[q]
  BY GroupsFacts DEF RowMoves
<1>3. created' \subseteq Creation /\ \A q \in Request \ {r} : (q \in created' <=> q \in created)
  BY GroupsFacts DEF RowMoves
<1>4. GroupsTypeOK'
  BY <1>0, <1>1, <1>2, <1>3, GroupsFacts DEF RowMoves, GroupsTypeOK
<1>5. \A q \in Creation : q \in Request /\ (q = r \/ q \in Request \ {r})
  BY GroupsConstants
<1>6. OneKey'
  <2>1. ASSUME NEW a \in Creation, NEW b \in Creation, reserved'[a].n > 0, reserved'[b].n > 0 PROVE a = b
    <3>1. CASE a = r /\ b # r
      BY <1>2, <1>5, <2>1, <3>1 DEF GroupsInv, OneKey, Rows, KeyMoves
    <3>2. CASE b = r /\ a # r
      BY <1>2, <1>5, <2>1, <3>2 DEF GroupsInv, OneKey, Rows, KeyMoves
    <3>3. CASE a # r /\ b # r
      BY <1>2, <1>5, <2>1, <3>3 DEF GroupsInv, OneKey, Rows
    <3> QED BY <3>1, <3>2, <3>3
  <2>2. ASSUME NEW q \in Creation
        PROVE  /\ req'[q].pc \in {"idle", "reserve", "engine", "store", "release", "ended"}
               /\ req'[q].pc = "reserve" => req'[q].n > 0
               /\ req'[q].pc \in {"reserve", "engine", "store", "release"} => req'[q].kind = "create"
               /\ req'[q].pc \in {"engine", "store", "release"} => q \in Rows'
    <3>1. CASE q = r
      BY <1>1, <1>2, <2>2, <3>1 DEF Rows, KeyMoves
    <3>2. CASE q # r
      BY <1>1, <1>2, <1>5, <2>2, <3>2 DEF GroupsInv, OneKey, Rows
    <3> QED BY <3>1, <3>2
  <2>3. \A q \in Edit : req'[q].kind # "create"
    BY <1>1, GroupsConstants DEF GroupsInv, OneKey, KeyMoves
  <2> QED BY <2>1, <2>2, <2>3 DEF OneKey, Rows
<1>7. ASSUME ~unheard' PROVE Heard'
  <2>1. Heard
    BY <1>7 DEF GroupsInv, RowMoves
  <2>2. created' \subseteq Rows' \cap Creation
    <3>1. ASSUME NEW q \in created' PROVE reserved'[q].n > 0 /\ q \in Creation
      <4>1. q \in Creation
        BY <1>3, <3>1
      <4>2. CASE q = r
        BY <1>2, <1>7, <3>1, <4>1, <4>2 DEF AnswerMoves
      <4>3. CASE q # r
        BY <1>2, <1>3, <1>5, <2>1, <3>1, <4>1, <4>3 DEF Heard, Rows
      <4> QED BY <4>1, <4>2, <4>3
    <3> QED BY <1>5, <3>1 DEF Rows
  <2>3. ASSUME NEW q \in Creation
        PROVE  /\ req'[q].pc \in {"reserve", "engine", "release"} => q \notin created'
               /\ req'[q].pc = "store" => q \in created'
               /\ reserved'[q].group # "none" => reserved'[q].group \in created'
               /\ req'[q].answer \in Creation => req'[q].answer \in created'
    <3>1. CASE q = r
      BY <1>1, <1>2, <1>7, <2>3, <3>1 DEF AnswerMoves
    <3>2. CASE q # r
      <4>1. req'[q] = req[q] /\ reserved'[q] = reserved[q] /\ (q \in created' <=> q \in created)
          /\ created \subseteq created'
        BY <1>1, <1>2, <1>3, <1>5, <2>3, <3>2 DEF RowMoves
      <4> QED BY <2>1, <4>1 DEF Heard
    <3> QED BY <3>1, <3>2
  <2> QED BY <2>2, <2>3 DEF Heard
<1> QED BY <1>4, <1>6, <1>7 DEF GroupsInv

\* What a change leaves of a group is a group.
LEMMA GroupChanges ==
    ASSUME NEW g \in GroupState, NEW h \in GroupState
    PROVE  /\ [g EXCEPT !.people = @ + 1] \in GroupState /\ [g EXCEPT !.name = @ + 1] \in GroupState
           /\ [g EXCEPT !.left = TRUE] \in GroupState /\ [g EXCEPT !.left = ~@] \in GroupState
           /\ [g EXCEPT !.name = h.name] \in GroupState
<1>1. g.people + 1 \in Nat /\ g.name + 1 \in Nat /\ h.name \in Nat
  BY DEF GroupState
<1>2. (~g.left) \in BOOLEAN
  BY Z3
<1> QED BY <1>1, <1>2, Zenon DEF GroupState

\* A step that is no request's.
LEMMA OtherSteps ==
    ASSUME GroupsInv, PhoneChanges \/ PassTime \/ ListGroups \/ StoreGroups \/ UNCHANGED groupsVars
    PROVE  GroupsInv'
<1>0. /\ whatsapp \in GroupState /\ kept \in GroupState /\ lister.saw \in GroupState
         /\ lister.pc \in {"idle", "store"}
      /\ ticks \in 0..MaxTicks /\ MaxTicks \in Nat /\ NoAnswer \in GroupState
  BY GroupsFacts, GroupsConstants
<1>1. UNCHANGED <<req, reserved, created, unheard, lostAnswers>>
  BY DEF PhoneChanges, PassTime, ListGroups, StoreGroups, groupsVars
<1>2. ticks' \in 0..MaxTicks
  BY <1>0 DEF PhoneChanges, PassTime, ListGroups, StoreGroups, groupsVars
<1>3. whatsapp' \in GroupState
  BY <1>0, GroupChanges DEF PhoneChanges, PassTime, ListGroups, StoreGroups, groupsVars
<1>4. kept' \in GroupState
  <2>1. Listed \in GroupState
    BY <1>0, GroupChanges DEF Listed
  <2> QED BY <1>0, <2>1 DEF PhoneChanges, PassTime, ListGroups, StoreGroups, groupsVars
<1>5. lister'.saw \in GroupState /\ lister'.pc \in {"idle", "store"}
  BY <1>0 DEF PhoneChanges, PassTime, ListGroups, StoreGroups, groupsVars
<1>6. GroupsTypeOK'
  BY <1>1, <1>2, <1>3, <1>4, <1>5 DEF GroupsInv, GroupsTypeOK
<1>7. OneKey' /\ (~unheard' => Heard')
  BY <1>1 DEF GroupsInv, OneKey, Heard, Rows
<1> QED BY <1>6, <1>7 DEF GroupsInv

\* How a request ends: a creation with its answer.
LEMMA EndsIs ==
    ASSUME GroupsInv, NEW r \in Request, NEW a,
        a \in {"in progress", "refused", "failed", "done"} \/ a \in Creation, Ends(r, a)
    PROVE  \E x \in GroupRequests : /\ req' = [req EXCEPT ![r] = x] /\ x.pc = "ended" /\ x.kind = "none"
                                    /\ x.answer \in {a, "none"} /\ (r \in Creation => x.answer = a)
<1> DEFINE x == [pc |-> "ended", kind |-> "none", n |-> 0, saw |-> NoAnswer, answer |-> IF r \in Creation THEN a ELSE "none"]
<1>1. x \in GroupRequests
  BY GroupsConstants DEF GroupRequests
<1> QED BY <1>1 DEF Ends

\* How a request moves on.
LEMMA GotoIs ==
    ASSUME GroupsInv, NEW r \in Request, NEW p \in {"engine", "store", "release"}, Goto(r, p)
    PROVE  \E x \in GroupRequests : /\ req' = [req EXCEPT ![r] = x] /\ x.pc = p /\ x.kind = req[r].kind
                                       /\ x.n = req[r].n
                                    /\ x.answer = req[r].answer
<1> DEFINE x == [req[r] EXCEPT !.pc = p]
<1>1. x \in GroupRequests
  BY GroupsFacts DEF GroupRequests
<1> QED BY <1>1, GroupsFacts DEF Goto, GroupRequests

\* A request that says how far it is, as the invariant has it.
LEMMA KeyFacts ==
    ASSUME GroupsInv, NEW r \in Creation
    PROVE  /\ req[r].pc = "reserve" => req[r].n > 0
           /\ req[r].pc \in {"reserve", "engine", "store", "release"} => req[r].kind = "create"
           /\ req[r].pc \in {"engine", "store", "release"} => reserved[r].n > 0
           /\ req[r].pc # "info"
           /\ ~unheard => /\ r \in created => reserved[r].n > 0
                          /\ req[r].pc \in {"reserve", "engine", "release"} => r \notin created
                          /\ req[r].pc = "store" => r \in created
                          /\ reserved[r].group # "none" => reserved[r].group \in created
                          /\ req[r].answer \in Creation => req[r].answer \in created
BY DEF GroupsInv, OneKey, Heard, Rows

\* A creation is asked for, or answered for the key it has.
LEMMA BeginCreateStep ==
    ASSUME GroupsInv, NEW r \in Creation, NEW n \in 1..AddLimit + 1, BeginCreate(r, n)
    PROVE  GroupsInv'
<1>0. /\ r \in Request /\ UNCHANGED <<reserved, created, whatsapp, kept, lister, ticks, lostAnswers, unheard>>
      /\ reserved' = [reserved EXCEPT ![r] = reserved[r]] /\ reserved[r] \in Reservations /\ req[r] \in GroupRequests
      /\ n \in 0..AddLimit + 1 /\ n > 0
  BY GroupsConstants, GroupsFacts DEF BeginCreate
<1>1. whatsapp' \in GroupState /\ kept' \in GroupState /\ ticks' \in 0..MaxTicks /\ lostAnswers' \in 0..MaxLost
    /\ unheard' \in BOOLEAN
  BY <1>0, GroupsFacts
<1>2. CASE Rows \cap Creation = {}
  <2> DEFINE x == [req[r] EXCEPT !.pc = "reserve", !.kind = "create", !.n = n]
  <2>1. req' = [req EXCEPT ![r] = x]
    BY <1>2 DEF BeginCreate
  <2>2. x \in GroupRequests /\ x.pc = "reserve" /\ x.kind = "create" /\ x.n = n /\ x.answer = req[r].answer
    BY <1>0 DEF GroupRequests
  <2> HIDE DEF x
  <2>3. ~unheard => r \notin created
    BY <1>2 DEF GroupsInv, Heard
  <2>m. x \in GroupRequests /\ reserved[r] \in Reservations
    BY <1>0, <1>1, <2>1, <2>2, <2>3, KeyFacts, GroupsConstants
  <2>n. RowMoves(r, x, reserved[r])
    BY <1>0, <1>1, <2>1, <2>2, <2>3, KeyFacts, GroupsConstants DEF RowMoves
  <2>o. KeyMoves(r, x, reserved[r])
    BY <1>0, <1>1, <2>1, <2>2, <2>3, KeyFacts, GroupsConstants DEF KeyMoves
  <2>p. AnswerMoves(r, x, reserved[r])
    BY <1>0, <1>1, <2>1, <2>2, <2>3, KeyFacts, GroupsConstants DEF AnswerMoves
  <2> QED BY <1>0, <2>m, <2>n, <2>o, <2>p, GroupRequestMoved
<1>3. CASE Rows \cap Creation # {}
  <2>1. PICK k \in Rows \cap Creation : Ends(r, IF reserved[k].group = "none" THEN "in progress" ELSE reserved[k].group)
    BY <1>3 DEF BeginCreate
  <2>2. reserved[k].group \in {"none"} \cup Creation
    BY GroupsFacts DEF Rows, Reservations
  <2>3. PICK a \in {"in progress"} \cup Creation : a = (IF reserved[k].group = "none" THEN "in progress" ELSE reserved[k].group)
    BY <2>2
  <2>4. PICK x \in GroupRequests : req' = [req EXCEPT ![r] = x] /\ x.pc = "ended" /\ x.answer = a
    <3>1. Ends(r, a)
      BY <2>1, <2>3
    <3>2. a \in {"in progress", "refused", "failed", "done"} \/ a \in Creation
      BY <2>3
    <3>3. \E x \in GroupRequests : /\ req' = [req EXCEPT ![r] = x] /\ x.pc = "ended" /\ x.kind = "none"
                                   /\ x.answer \in {a, "none"} /\ (r \in Creation => x.answer = a)
      BY <1>0, <3>1, <3>2, EndsIs
    <3> QED BY <3>3
  <2>5. ~unheard => (a \in Creation => a \in created)
    BY <2>3, KeyFacts, GroupsConstants
  <2>m. x \in GroupRequests /\ reserved[r] \in Reservations
    BY <1>0, <1>1, <2>4, <2>5, KeyFacts, GroupsConstants
  <2>n. RowMoves(r, x, reserved[r])
    BY <1>0, <1>1, <2>4, <2>5, KeyFacts, GroupsConstants DEF RowMoves
  <2>o. KeyMoves(r, x, reserved[r])
    BY <1>0, <1>1, <2>4, <2>5, KeyFacts, GroupsConstants DEF KeyMoves
  <2>p. AnswerMoves(r, x, reserved[r])
    BY <1>0, <1>1, <2>4, <2>5, KeyFacts, GroupsConstants DEF AnswerMoves
  <2> QED BY <1>0, <2>m, <2>n, <2>o, <2>p, GroupRequestMoved
<1> QED BY <1>2, <1>3

\* A change of an existing group is asked for.
LEMMA BeginEditStep ==
    ASSUME GroupsInv, NEW r \in Edit, NEW k \in {"members", "join", "name", "leave"}, NEW n \in 0..AddLimit + 1,
        Begin(r, k, n)
    PROVE  GroupsInv'
<1>0. /\ r \in Request /\ r \notin Creation
         /\ UNCHANGED <<reserved, created, whatsapp, kept, lister, ticks, lostAnswers, unheard>>
      /\ reserved' = [reserved EXCEPT ![r] = reserved[r]] /\ reserved[r] \in Reservations /\ req[r] \in GroupRequests
  BY GroupsConstants, GroupsFacts DEF Begin
<1>1. whatsapp' \in GroupState /\ kept' \in GroupState /\ ticks' \in 0..MaxTicks /\ lostAnswers' \in 0..MaxLost
    /\ unheard' \in BOOLEAN
  BY <1>0, GroupsFacts
<1>2. PICK p \in {"reserve", "engine"} : p = (IF n > 0 THEN "reserve" ELSE "engine")
  OBVIOUS
<1> DEFINE x == [req[r] EXCEPT !.pc = p, !.kind = k, !.n = n]
<1>3. req' = [req EXCEPT ![r] = x]
  BY <1>2 DEF Begin
<1>4. x \in GroupRequests /\ x.kind = k
  BY <1>0 DEF GroupRequests
<1> HIDE DEF x
<1>m. x \in GroupRequests /\ reserved[r] \in Reservations
  BY <1>0, <1>1, <1>3, <1>4
<1>n. RowMoves(r, x, reserved[r])
  BY <1>0, <1>1, <1>3, <1>4 DEF RowMoves
<1>o. KeyMoves(r, x, reserved[r])
  BY <1>0, <1>1, <1>3, <1>4 DEF KeyMoves
<1>p. AnswerMoves(r, x, reserved[r])
  BY <1>0, <1>1, <1>3, <1>4 DEF AnswerMoves
<1> QED BY <1>0, <1>m, <1>n, <1>o, <1>p, GroupRequestMoved

\* The additions are reserved: for a creation, when no other has the key.
LEMMA ReserveStep ==
    ASSUME GroupsInv, NEW r \in Request, Reserve(r)
    PROVE  GroupsInv'
<1>0. /\ req[r].pc = "reserve" /\ UNCHANGED <<created, whatsapp, kept, lister, ticks, lostAnswers, unheard>>
      /\ reserved[r] \in Reservations /\ req[r] \in GroupRequests /\ reserved = [reserved EXCEPT ![r] = reserved[r]]
      /\ "refused" \notin Creation /\ (r \in Edit => req[r].kind # "create")
  BY GroupsConstants, GroupsFacts DEF Reserve, GroupsInv, OneKey
<1>1. whatsapp' \in GroupState /\ kept' \in GroupState /\ ticks' \in 0..MaxTicks /\ lostAnswers' \in 0..MaxLost
    /\ unheard' \in BOOLEAN
  BY <1>0, GroupsFacts
<1>2. CASE Fits(req[r].n) /\ ~KeyTaken(r)
  <2> DEFINE y == [at |-> ticks, n |-> req[r].n, group |-> "none"]
  <2>1. y \in Reservations /\ y.n = req[r].n /\ y.group = "none"
    BY <1>0, GroupsFacts DEF Reservations, GroupRequests
  <2>2. reserved' = [reserved EXCEPT ![r] = y] /\ Goto(r, "engine")
    BY <1>2 DEF Reserve
  <2> HIDE DEF y
  <2>3. PICK x \in GroupRequests : /\ req' = [req EXCEPT ![r] = x] /\ x.pc = "engine" /\ x.kind = req[r].kind
                                   /\ x.answer = req[r].answer
    BY <2>2, GotoIs
  <2>4. r \in Creation => Rows \cap Creation = {}
    BY <1>2 DEF KeyTaken
  <2>m. x \in GroupRequests /\ y \in Reservations
    BY <1>0, <1>1, <2>1, <2>2, <2>3, <2>4, KeyFacts
  <2>n. RowMoves(r, x, y)
    BY <1>0, <1>1, <2>1, <2>2, <2>3, <2>4, KeyFacts DEF RowMoves
  <2>o. KeyMoves(r, x, y)
    BY <1>0, <1>1, <2>1, <2>2, <2>3, <2>4, KeyFacts DEF KeyMoves
  <2>p. AnswerMoves(r, x, y)
    BY <1>0, <1>1, <2>1, <2>2, <2>3, <2>4, KeyFacts DEF AnswerMoves
  <2> QED BY <2>m, <2>n, <2>o, <2>p, GroupRequestMoved
<1>3. CASE ~(Fits(req[r].n) /\ ~KeyTaken(r))
  <2>1. Ends(r, "refused") /\ reserved' = [reserved EXCEPT ![r] = reserved[r]]
    BY <1>0, <1>3 DEF Reserve
  <2>2. PICK x \in GroupRequests : /\ req' = [req EXCEPT ![r] = x] /\ x.pc = "ended" /\ x.kind = "none"
                                   /\ x.answer \in {"refused", "none"}
    BY <2>1, EndsIs
  <2>3. x.answer \notin Creation
    BY <2>2, GroupsConstants
  <2>m. x \in GroupRequests /\ reserved[r] \in Reservations
    BY <1>0, <1>1, <2>1, <2>2, <2>3, KeyFacts
  <2>n. RowMoves(r, x, reserved[r])
    BY <1>0, <1>1, <2>1, <2>2, <2>3, KeyFacts DEF RowMoves
  <2>o. KeyMoves(r, x, reserved[r])
    BY <1>0, <1>1, <2>1, <2>2, <2>3, KeyFacts DEF KeyMoves
  <2>p. AnswerMoves(r, x, reserved[r])
    BY <1>0, <1>1, <2>1, <2>2, <2>3, KeyFacts DEF AnswerMoves
  <2> QED BY <2>m, <2>n, <2>o, <2>p, GroupRequestMoved
<1> QED BY <1>2, <1>3

\* What WhatsApp does.
LEMMA PerformsIs ==
    ASSUME GroupsInv, NEW r \in Request, Performs(r)
    PROVE  /\ whatsapp' \in GroupState
           /\ req[r].kind = "create" => created' = created \cup {r}
           /\ req[r].kind # "create" => created' = created
<1>1. whatsapp \in GroupState
  BY GroupsFacts
<1>2. CASE req[r].kind = "create"
  BY <1>1, <1>2 DEF Performs
<1>3. CASE req[r].kind # "create"
  <2>1. whatsapp' \in {[whatsapp EXCEPT !.name = @ + 1], [whatsapp EXCEPT !.left = TRUE], [whatsapp EXCEPT !.people = @ + 1]}
    BY <1>3, Zenon DEF Performs
  <2> QED BY <1>1, <1>3, <2>1, GroupChanges DEF Performs
<1> QED BY <1>2, <1>3

\* The engine does it, refuses, or its answer is lost.
LEMMA EngineSteps ==
    ASSUME GroupsInv, NEW r \in Request, EngineDoes(r) \/ EngineSaysNo(r) \/ AnswerLost(r) \/ AskGroup(r)
    PROVE  GroupsInv'
<1>0. /\ req[r].pc \in {"engine", "info"} /\ UNCHANGED <<reserved, kept, lister, ticks>> /\ req[r] \in GroupRequests
      /\ reserved' = [reserved EXCEPT ![r] = reserved[r]] /\ reserved[r] \in Reservations
         /\ (r \in Creation \/ r \in Edit)
      /\ r \in Creation => (req[r].pc = "engine" /\ req[r].kind = "create")
      /\ r \in Edit => req[r].kind # "create"
  <2>1. req[r].pc \in {"engine", "info"} /\ UNCHANGED <<reserved, kept, lister, ticks>>
    BY DEF EngineDoes, EngineSaysNo, AnswerLost, AskGroup
  <2> QED BY <2>1, GroupsFacts, KeyFacts DEF Request, GroupsInv, OneKey
<1>1. /\ kept' \in GroupState /\ ticks' \in 0..MaxTicks /\ whatsapp \in GroupState /\ NoAnswer \in GroupState
      /\ lostAnswers \in 0..MaxLost /\ MaxLost \in Nat /\ unheard \in BOOLEAN
  BY <1>0, GroupsFacts, GroupsConstants
<1>2. CASE EngineDoes(r)
  <2>1. Performs(r) /\ UNCHANGED <<lostAnswers, unheard>> /\ req[r].pc = "engine"
    BY <1>2 DEF EngineDoes
  <2>2. /\ whatsapp' \in GroupState /\ (created' = created \/ (r \in Creation /\ created' = created \cup {r}))
        /\ (r \in Creation => created' = created \cup {r})
    BY <1>0, <2>1, PerformsIs
  <2>3. PICK saw \in GroupState :
           req' = [req EXCEPT ![r].pc = IF req[r].kind = "join" THEN "info" ELSE "store", ![r].saw = saw]
    BY <1>1, <1>2, <2>2 DEF EngineDoes
  <2>4. PICK p \in {"info", "store"} : p = (IF req[r].kind = "join" THEN "info" ELSE "store")
    OBVIOUS
  <2> DEFINE x == [req[r] EXCEPT !.pc = p, !.saw = saw]
  <2>5. req' = [req EXCEPT ![r] = x]
    BY <2>3, <2>4
  <2>6. /\ x \in GroupRequests /\ x.pc = p /\ x.kind = req[r].kind /\ x.answer = req[r].answer
    BY <1>0 DEF GroupRequests
  <2> HIDE DEF x
  <2>7. r \in Creation => p = "store"
    BY <1>0, <2>4
  <2>8. lostAnswers' \in 0..MaxLost /\ unheard' \in BOOLEAN
    BY <1>1, <2>1
  <2>m. x \in GroupRequests /\ reserved[r] \in Reservations
    BY <1>0, <1>1, <2>1, <2>2, <2>5, <2>6, <2>7, <2>8, KeyFacts
  <2>n. RowMoves(r, x, reserved[r])
    BY <1>0, <1>1, <2>1, <2>2, <2>5, <2>6, <2>7, <2>8, KeyFacts DEF RowMoves
  <2>o. KeyMoves(r, x, reserved[r])
    BY <1>0, <1>1, <2>1, <2>2, <2>5, <2>6, <2>7, <2>8, KeyFacts DEF KeyMoves
  <2>p. AnswerMoves(r, x, reserved[r])
    BY <1>0, <1>1, <2>1, <2>2, <2>5, <2>6, <2>7, <2>8, KeyFacts DEF AnswerMoves
  <2> QED BY <2>m, <2>n, <2>o, <2>p, GroupRequestMoved
<1>3. CASE EngineSaysNo(r)
  <2>1. UNCHANGED <<created, whatsapp, lostAnswers, unheard>>
      /\ Goto(r, IF req[r].kind = "leave" /\ whatsapp.left THEN "store" ELSE "release")
    BY <1>3 DEF EngineSaysNo
  <2>2. PICK p \in {"store", "release"} : p = (IF req[r].kind = "leave" /\ whatsapp.left THEN "store" ELSE "release")
    OBVIOUS
  <2>3. PICK x \in GroupRequests : /\ req' = [req EXCEPT ![r] = x] /\ x.pc = p /\ x.kind = req[r].kind
                                   /\ x.answer = req[r].answer
    BY <2>1, <2>2, GotoIs
  <2>4. r \in Creation => p = "release"
    BY <1>0, <2>2
  <2>5. lostAnswers' \in 0..MaxLost /\ unheard' \in BOOLEAN /\ whatsapp' \in GroupState
    BY <1>1, <2>1
  <2>m. x \in GroupRequests /\ reserved[r] \in Reservations
    BY <1>0, <1>1, <2>1, <2>3, <2>4, <2>5, KeyFacts
  <2>n. RowMoves(r, x, reserved[r])
    BY <1>0, <1>1, <2>1, <2>3, <2>4, <2>5, KeyFacts DEF RowMoves
  <2>o. KeyMoves(r, x, reserved[r])
    BY <1>0, <1>1, <2>1, <2>3, <2>4, <2>5, KeyFacts DEF KeyMoves
  <2>p. AnswerMoves(r, x, reserved[r])
    BY <1>0, <1>1, <2>1, <2>3, <2>4, <2>5, KeyFacts DEF AnswerMoves
  <2> QED BY <2>m, <2>n, <2>o, <2>p, GroupRequestMoved
<1>4. CASE AnswerLost(r)
  <2>1. Performs(r) /\ Goto(r, "release") /\ unheard' = TRUE /\ lostAnswers' = lostAnswers + 1
      /\ lostAnswers < MaxLost
    BY <1>4 DEF AnswerLost
  <2>2. whatsapp' \in GroupState /\ (created' = created \/ (r \in Creation /\ created' = created \cup {r}))
    BY <1>0, <2>1, PerformsIs
  <2>3. PICK x \in GroupRequests : /\ req' = [req EXCEPT ![r] = x] /\ x.pc = "release" /\ x.kind = req[r].kind
                                   /\ x.answer = req[r].answer
    BY <2>1, GotoIs
  <2>4. lostAnswers' \in 0..MaxLost
    BY <1>1, <2>1
  <2>m. x \in GroupRequests /\ reserved[r] \in Reservations
    BY <1>0, <1>1, <2>1, <2>2, <2>3, <2>4, KeyFacts
  <2>n. RowMoves(r, x, reserved[r])
    BY <1>0, <1>1, <2>1, <2>2, <2>3, <2>4, KeyFacts DEF RowMoves
  <2>o. KeyMoves(r, x, reserved[r])
    BY <1>0, <1>1, <2>1, <2>2, <2>3, <2>4, KeyFacts DEF KeyMoves
  <2>p. AnswerMoves(r, x, reserved[r])
    BY <1>0, <1>1, <2>1, <2>2, <2>3, <2>4, KeyFacts DEF AnswerMoves
  <2> QED BY <2>m, <2>n, <2>o, <2>p, GroupRequestMoved
<1>5. CASE AskGroup(r)
  <2>1. UNCHANGED <<created, whatsapp, lostAnswers, unheard>> /\ req[r].pc = "info"
    BY <1>5 DEF AskGroup
  <2>2. PICK saw \in GroupState : req' = [req EXCEPT ![r].pc = "store", ![r].saw = saw]
    BY <1>1, <1>5 DEF AskGroup
  <2> DEFINE x == [req[r] EXCEPT !.pc = "store", !.saw = saw]
  <2>3. req' = [req EXCEPT ![r] = x]
    BY <2>2
  <2>4. x \in GroupRequests /\ x.kind = req[r].kind
    BY <1>0 DEF GroupRequests
  <2> HIDE DEF x
  <2>5. lostAnswers' \in 0..MaxLost /\ unheard' \in BOOLEAN /\ whatsapp' \in GroupState /\ r \notin Creation
    BY <1>0, <1>1, <2>1
  <2>m. x \in GroupRequests /\ reserved[r] \in Reservations
    BY <1>0, <1>1, <2>1, <2>3, <2>4, <2>5
  <2>n. RowMoves(r, x, reserved[r])
    BY <1>0, <1>1, <2>1, <2>3, <2>4, <2>5 DEF RowMoves
  <2>o. KeyMoves(r, x, reserved[r])
    BY <1>0, <1>1, <2>1, <2>3, <2>4, <2>5 DEF KeyMoves
  <2>p. AnswerMoves(r, x, reserved[r])
    BY <1>0, <1>1, <2>1, <2>3, <2>4, <2>5 DEF AnswerMoves
  <2> QED BY <2>m, <2>n, <2>o, <2>p, GroupRequestMoved
<1> QED BY <1>2, <1>3, <1>4, <1>5

\* A request ends: with what is stored, or without.
LEMMA EndSteps ==
    ASSUME GroupsInv, NEW r \in Request,
           Release(r) \/ StoreCreated(r) \/ StoreMembers(r) \/ StoreName(r) \/ StoreLeft(r) \/ StopHandler(r)
    PROVE  GroupsInv'
<1>0. /\ UNCHANGED <<created, whatsapp, lister, ticks, unheard>> /\ req[r] \in GroupRequests
         /\ reserved[r] \in Reservations
      /\ req[r].pc \in {"engine", "info", "store", "release"}
  BY GroupsFacts DEF Release, StoreCreated, StoreMembers, StoreName, StoreLeft, StopHandler
<1>1. /\ whatsapp' \in GroupState /\ ticks' \in 0..MaxTicks /\ unheard' \in BOOLEAN /\ kept \in GroupState
         /\ req[r].saw \in GroupState
      /\ lostAnswers \in 0..MaxLost /\ MaxLost \in Nat
  BY <1>0, GroupsFacts, GroupsConstants DEF GroupRequests
<1>2. kept' \in GroupState
  <2>1. CASE Release(r) \/ StoreCreated(r) \/ StopHandler(r)
    BY <1>1, <2>1 DEF Release, StoreCreated, StopHandler
  <2>2. CASE StoreMembers(r)
    BY <1>1, <2>2 DEF StoreMembers
  <2>3. CASE StoreName(r)
    BY <1>1, <2>3, GroupChanges DEF StoreName
  <2>4. CASE StoreLeft(r)
    BY <1>1, <2>4, GroupChanges DEF StoreLeft
  <2> QED BY <2>1, <2>2, <2>3, <2>4
<1>3. lostAnswers' \in 0..MaxLost
  BY <1>1 DEF Release, StoreCreated, StoreMembers, StoreName, StoreLeft, StopHandler
<1>4. "failed" \notin Creation /\ "done" \notin Creation /\ "none" \notin Creation
  BY GroupsConstants
<1>5. CASE StoreMembers(r) \/ StoreName(r) \/ StoreLeft(r) \/ StopHandler(r)
  <2>1. PICK a \in {"failed", "done"} : Ends(r, a)
    BY <1>5 DEF StoreMembers, StoreName, StoreLeft, StopHandler
  <2>2. reserved' = [reserved EXCEPT ![r] = reserved[r]]
    BY <1>5, GroupsFacts DEF StoreMembers, StoreName, StoreLeft, StopHandler
  <2>3. PICK x \in GroupRequests : req' = [req EXCEPT ![r] = x] /\ x.pc = "ended" /\ x.kind = "none"
      /\ x.answer \in {a, "none"}
    BY <2>1, EndsIs
  <2>4. x.answer \notin Creation
    BY <1>4, <2>3
  <2>m. x \in GroupRequests /\ reserved[r] \in Reservations
    BY <1>0, <1>1, <1>2, <1>3, <2>2, <2>3, <2>4, KeyFacts
  <2>n. RowMoves(r, x, reserved[r])
    BY <1>0, <1>1, <1>2, <1>3, <2>2, <2>3, <2>4, KeyFacts DEF RowMoves
  <2>o. KeyMoves(r, x, reserved[r])
    BY <1>0, <1>1, <1>2, <1>3, <2>2, <2>3, <2>4, KeyFacts DEF KeyMoves
  <2>p. AnswerMoves(r, x, reserved[r])
    BY <1>0, <1>1, <1>2, <1>3, <2>2, <2>3, <2>4, KeyFacts DEF AnswerMoves
  <2> QED BY <2>m, <2>n, <2>o, <2>p, GroupRequestMoved
<1>6. CASE Release(r)
  <2>1. reserved' = [reserved EXCEPT ![r] = NoRow] /\ Ends(r, "failed") /\ req[r].pc = "release"
    BY <1>6 DEF Release
  <2>2. PICK x \in GroupRequests : req' = [req EXCEPT ![r] = x] /\ x.pc = "ended" /\ x.kind = "none"
      /\ x.answer \in {"failed", "none"}
    BY <2>1, EndsIs
  <2>3. x.answer \notin Creation
    BY <1>4, <2>2
  <2>4. NoRow \in Reservations /\ NoRow.n = 0 /\ NoRow.group = "none"
    BY GroupsConstants
  <2>m. x \in GroupRequests /\ NoRow \in Reservations
    BY <1>0, <1>1, <1>2, <1>3, <2>1, <2>2, <2>3, <2>4, KeyFacts
  <2>n. RowMoves(r, x, NoRow)
    BY <1>0, <1>1, <1>2, <1>3, <2>1, <2>2, <2>3, <2>4, KeyFacts DEF RowMoves
  <2>o. KeyMoves(r, x, NoRow)
    BY <1>0, <1>1, <1>2, <1>3, <2>1, <2>2, <2>3, <2>4, KeyFacts DEF KeyMoves
  <2>p. AnswerMoves(r, x, NoRow)
    BY <1>0, <1>1, <1>2, <1>3, <2>1, <2>2, <2>3, <2>4, KeyFacts DEF AnswerMoves
  <2> QED BY <2>m, <2>n, <2>o, <2>p, GroupRequestMoved
<1>7. CASE StoreCreated(r)
  <2>1. req[r].pc = "store" /\ req[r].kind = "create" /\ reserved' = [reserved EXCEPT ![r].group = r] /\ Ends(r, r)
    BY <1>7 DEF StoreCreated
  <2>2. r \in Creation
    BY <2>1 DEF GroupsInv, OneKey, Request
  <2>3. PICK x \in GroupRequests : req' = [req EXCEPT ![r] = x] /\ x.pc = "ended" /\ x.kind = "none" /\ x.answer = r
    <3>1. \E x \in GroupRequests : /\ req' = [req EXCEPT ![r] = x] /\ x.pc = "ended" /\ x.kind = "none"
                                   /\ x.answer \in {r, "none"} /\ (r \in Creation => x.answer = r)
      BY <2>1, <2>2, EndsIs
    <3> QED BY <2>2, <3>1
  <2> DEFINE y == [reserved[r] EXCEPT !.group = r]
  <2>4. y \in Reservations /\ y.n = reserved[r].n /\ y.group = r
    BY <1>0, <2>2 DEF Reservations
  <2>5. reserved' = [reserved EXCEPT ![r] = y]
    BY <2>1
  <2> HIDE DEF y
  <2>m. x \in GroupRequests /\ y \in Reservations
    BY <1>0, <1>1, <1>2, <1>3, <2>1, <2>2, <2>3, <2>4, <2>5, KeyFacts, GroupsConstants
  <2>n. RowMoves(r, x, y)
    BY <1>0, <1>1, <1>2, <1>3, <2>1, <2>2, <2>3, <2>4, <2>5, KeyFacts, GroupsConstants DEF RowMoves
  <2>o. KeyMoves(r, x, y)
    BY <1>0, <1>1, <1>2, <1>3, <2>1, <2>2, <2>3, <2>4, <2>5, KeyFacts, GroupsConstants DEF KeyMoves
  <2>p. AnswerMoves(r, x, y)
    <3>1. r \in Creation /\ x.pc = "ended" /\ x.answer = r /\ y.group = r /\ y.n = reserved[r].n /\ created' = created
             /\ unheard' = unheard
      BY <1>0, <2>2, <2>3, <2>4
    <3>2. reserved[r].n > 0 /\ (~unheard => r \in created)
      BY <2>1, <2>2, KeyFacts
    <3> QED BY <3>1, <3>2 DEF AnswerMoves
  <2> QED BY <2>m, <2>n, <2>o, <2>p, GroupRequestMoved
<1> QED BY <1>5, <1>6, <1>7

\* The inductive invariant holds at the start.
LEMMA GroupsStart == GroupsInit => GroupsInv
<1> SUFFICES ASSUME GroupsInit PROVE GroupsInv
  OBVIOUS
<1> DEFINE x == [pc |-> "idle", kind |-> "none", n |-> 0, saw |-> NoAnswer, answer |-> "none"]
<1>1. x \in GroupRequests /\ x.pc = "idle" /\ x.kind = "none" /\ x.answer = "none"
  BY GroupsConstants DEF GroupRequests
<1>2. req = [r \in Request |-> x]
  BY DEF GroupsInit
<1> HIDE DEF x
<1>3. /\ reserved = [r \in Request |-> NoRow] /\ created = {} /\ whatsapp = NewGroup /\ kept = NewGroup
      /\ lister.pc = "idle" /\ lister.saw = NoAnswer /\ unheard = FALSE /\ ticks = 0 /\ lostAnswers = 0
  BY DEF GroupsInit
<1>4. GroupsTypeOK
  <2>1. ticks \in 0..MaxTicks /\ lostAnswers \in 0..MaxLost /\ unheard \in BOOLEAN
    BY <1>3, GroupsConstants
  <2> QED BY <1>1, <1>2, <1>3, <2>1, GroupsConstants DEF GroupsTypeOK
<1>5. Rows = {}
  <2>1. \A r \in Request : reserved[r].n = 0
    BY <1>3, GroupsConstants
  <2> QED BY <2>1 DEF Rows
<1>6. \A r \in Creation : req[r] = x /\ reserved[r] = NoRow
  BY <1>2, <1>3, GroupsConstants
<1>7. OneKey
  BY <1>1, <1>2, <1>5, <1>6, GroupsConstants DEF OneKey
<1>8. Heard
  BY <1>1, <1>3, <1>6, GroupsConstants DEF Heard
<1> QED BY <1>4, <1>7, <1>8 DEF GroupsInv

\* Every step keeps it.
LEMMA GroupsStep == GroupsInv /\ [GroupsNext]_groupsVars => GroupsInv'
<1> SUFFICES ASSUME GroupsInv, [GroupsNext]_groupsVars PROVE GroupsInv'
  OBVIOUS
<1>0. AddLimit \in Nat /\ \A n \in 1..AddLimit + 1 : n \in 0..AddLimit + 1
  BY GroupsConstants
<1>1. CASE \E r \in Creation, n \in 1..AddLimit + 1 : BeginCreate(r, n)
  BY <1>1, BeginCreateStep
<1>2. CASE \E r \in Edit, n \in 1..AddLimit + 1 : AddMembers(r, n)
  BY <1>0, <1>2, BeginEditStep DEF AddMembers
<1>3. CASE \E r \in Edit : RemoveMembers(r) \/ SetAdmin(r) \/ AnswerJoinRequests(r) \/ Rename(r) \/ Leave(r)
  <2>1. PICK r \in Edit, k \in {"members", "join", "name", "leave"} : Begin(r, k, 0)
    BY <1>3 DEF RemoveMembers, SetAdmin, AnswerJoinRequests, Rename, Leave
  <2>2. 0 \in 0..AddLimit + 1
    BY <1>0
  <2> QED BY <2>1, <2>2, BeginEditStep
<1>4. CASE \E r \in Request :
              \/ Reserve(r) \/ EngineDoes(r) \/ AskGroup(r) \/ EngineSaysNo(r) \/ AnswerLost(r)
              \/ Release(r) \/ StoreCreated(r) \/ StoreMembers(r) \/ StoreName(r) \/ StoreLeft(r) \/ StopHandler(r)
  BY <1>4, ReserveStep, EngineSteps, EndSteps
<1>5. CASE PhoneChanges \/ PassTime \/ ListGroups \/ StoreGroups \/ UNCHANGED groupsVars
  BY <1>5, OtherSteps
<1> QED BY <1>1, <1>2, <1>3, <1>4, <1>5 DEF GroupsNext

\* The inductive invariant of the groups holds throughout.
THEOREM GroupsInvariant == GroupsSpec => []GroupsInv
BY GroupsStart, GroupsStep, PTL DEF GroupsSpec

\* Every variable of the groups has its type.
THEOREM GroupsTyped == GroupsSpec => []GroupsTypeOK
<1>1. GroupsInv => GroupsTypeOK
  BY DEF GroupsInv
<1> QED BY <1>1, GroupsInvariant, PTL

\* However often a creation is asked for with one key, WhatsApp makes at most one group and every
\* answer that names a group names one it made, unless an answer of the engine was lost.
THEOREM KeyMakesOneGroup == GroupsSpec => []OneGroupPerKey
<1>1. ASSUME GroupsInv, ~unheard PROVE Cardinality(created) <= 1
    /\ \A r \in Creation : req[r].answer \in Creation => req[r].answer \in created
  <2>1. Heard /\ OneKey
    BY <1>1 DEF GroupsInv
  <2>2. \A a, b \in created : a = b
    BY <2>1 DEF Heard, OneKey
  <2>3. CASE created = {}
    BY <2>3, FS_EmptySet, <2>1 DEF Heard
  <2>4. CASE created # {}
    <3>1. PICK a : created = {a}
      BY <2>2, <2>4
    <3>2. Cardinality(created) = 1
      BY <3>1, FS_Singleton
    <3> QED BY <2>1, <3>2 DEF Heard
  <2> QED BY <2>3, <2>4
<1>2. GroupsInv => OneGroupPerKey
  BY <1>1 DEF OneGroupPerKey
<1> QED BY <1>2, GroupsInvariant, PTL

-----------------------------------------------------------------------------
(* The import of old messages. *)

\* A request that was not turned into rows yet has none, and one that was has them once.
RowsOnce == /\ request \in {"none", "antre"} => expansions = 0
            /\ expansions \in 0..1

\* Where the round of a process is, of a chat or of a conversation.
RoundIs ==
    \A r \in Runner :
        /\ round[r].pc \in {"ask", "poll", "copy"} => round[r].row \in Conversation
        /\ round[r].pc \in Copying => round[r].row \in Chat /\ round[r].at <= copied[round[r].row]
        /\ round[r].pc = "insert" => /\ round[r].at < Wanted(round[r].row)
                                     /\ round[r].row \in crossed \/ round[r].at = copied[round[r].row]

\* Two processes at one chat cross.
CrossingsSeen ==
    \A r, q \in Runner :
        r # q /\ round[r].pc \in Copying /\ round[q].pc \in Copying /\ round[r].row = round[q].row
            => round[r].row \in crossed

\* Nothing beyond the pages that are read is copied.
OnlyWanted == \A c \in Chat : copied[c] <= Wanted(c)

\* Of a chat that is done the number has every message of the pages that are read.
DoneIsWhole == \A c \in Chat : chatRow[c] = "selesai" => copied[c] = Wanted(c)

\* The inductive invariant.
ImportInv ==
    ImportTypeOK /\ RowsOnce /\ RoundIs /\ CrossingsSeen /\ OnlyWanted /\ DoneIsWhole /\ CopiedOnce

\* Where the round of an import may be.
ImportPc == {"idle", "ask", "poll", "copy", "stored", "list", "batch"} \cup Copying
\* The rounds of the imports.
RoundOf == [pc : ImportPc, batch : SUBSET Chat, row : Chat \cup Conversation \cup {"none"}, at : 0..CopyLimit]

\* What the assumption says of the numbers.
LEMMA ImportConstants ==
  /\ CopyLimit \in Nat /\ WaitLimit \in Nat /\ MaxBreaks \in Nat
  /\ \A c \in Chat : Wanted(c) \in 0..CopyLimit
  BY ImportAssumption DEF Wanted

\* The fields of a round.
LEMMA ImportFacts ==
  ASSUME ImportInv, NEW r \in Runner
  PROVE  /\ round \in [Runner -> RoundOf] /\ round[r] \in RoundOf
         /\ NoRound \in RoundOf
         /\ expansions \in Nat /\ request \in RowStatus
         /\ chatRow \in [Chat -> RowStatus] /\ deviceRow \in [Conversation -> RowStatus]
         /\ polls \in [Conversation -> 0..WaitLimit]
         /\ copied \in [Chat -> 0..CopyLimit]
         /\ crossed \subseteq Chat /\ twice \subseteq Chat
         /\ breaks \in 0..MaxBreaks
  BY ImportConstants DEF ImportInv, ImportTypeOK, RoundOf, ImportPc, NoRound

\* A step of the round of r that copies at most for the chat it is at.
LEMMA OnlyRound ==
  ASSUME ImportInv, NEW r \in Runner, NEW v \in RoundOf, round' = [round EXCEPT ![r] = v],
         v.pc \in {"ask", "poll", "copy"} => v.row \in Conversation,
         v.pc \in Copying => v.row \in Chat /\ v.at <= copied'[v.row],
         v.pc = "insert" => v.at < Wanted(v.row) /\ (v.row \in crossed' \/ v.at = copied'[v.row]),
         \A q \in Runner \ {r} :
             v.pc \in Copying /\ round[q].pc \in Copying /\ round[q].row = v.row => v.row \in crossed',
         crossed \subseteq crossed', copied' \in [Chat -> 0..CopyLimit],
         \A c \in Chat : /\ copied'[c] >= copied[c]
                         /\ copied'[c] = copied[c] \/ (round[r].pc \in Copying /\ round[r].row = c)
  PROVE  round' \in [Runner -> RoundOf] /\ RoundIs' /\ CrossingsSeen'
<1>1. round' \in [Runner -> RoundOf] /\ round'[r] = v /\ \A q \in Runner \ {r} : round'[q] = round[q]
  BY ImportFacts
<1>2. ASSUME NEW q \in Runner
      PROVE  /\ round'[q].pc \in {"ask", "poll", "copy"} => round'[q].row \in Conversation
             /\ round'[q].pc \in Copying => round'[q].row \in Chat /\ round'[q].at <= copied'[round'[q].row]
             /\ round'[q].pc = "insert" =>
                   /\ round'[q].at < Wanted(round'[q].row)
                   /\ round'[q].row \in crossed' \/ round'[q].at = copied'[round'[q].row]
  <2>1. CASE q = r
    BY <1>1, <2>1
  <2>2. CASE q # r
    <3>1. round'[q] = round[q] /\ round[q] \in RoundOf /\ copied \in [Chat -> 0..CopyLimit]
      BY <1>1, <2>2, ImportFacts
    <3>2. round[q].at \in Nat
      BY <3>1, ImportConstants DEF RoundOf
    <3>3. /\ round[q].pc \in {"ask", "poll", "copy"} => round[q].row \in Conversation
          /\ round[q].pc \in Copying => round[q].row \in Chat /\ round[q].at <= copied[round[q].row]
          /\ round[q].pc = "insert" => /\ round[q].at < Wanted(round[q].row)
                                       /\ round[q].row \in crossed \/ round[q].at = copied[round[q].row]
      BY DEF ImportInv, RoundIs
    <3>4. round[q].pc \in Copying => round[q].at <= copied'[round[q].row]
      BY <3>1, <3>2, <3>3, ImportConstants
    <3>5. round[q].pc = "insert" => round[q].row \in crossed' \/ round[q].at = copied'[round[q].row]
      <4>1. CASE round[r].pc \in Copying /\ round[r].row = round[q].row /\ round[q].pc \in Copying
        BY <2>2, <4>1 DEF ImportInv, CrossingsSeen
      <4>2. CASE ~(round[r].pc \in Copying /\ round[r].row = round[q].row /\ round[q].pc \in Copying)
        BY <3>3, <4>2 DEF Copying
      <4>. QED  BY <4>1, <4>2
    <3>. QED  BY <3>1, <3>3, <3>4, <3>5
  <2>. QED  BY <2>1, <2>2
<1>3. CrossingsSeen'
  <2>. SUFFICES ASSUME NEW p \in Runner, NEW q \in Runner, p # q, round'[p].pc \in Copying,
                       round'[q].pc \in Copying, round'[p].row = round'[q].row
                PROVE  round'[p].row \in crossed'
    BY DEF CrossingsSeen
  <2>1. CASE p = r \/ q = r
    BY <1>1, <2>1
  <2>2. CASE p # r /\ q # r
    BY <1>1, <2>2 DEF ImportInv, CrossingsSeen
  <2>. QED  BY <2>1, <2>2
<1>. QED  BY <1>1, <1>2, <1>3 DEF RoundIs

\* What the next round of r is after the steps that keep it at its row, and after those that end it.
LEMMA GoesIs ==
  ASSUME ImportInv, NEW r \in Runner, NEW goal \in ImportPc, NEW row \in Chat \cup Conversation \cup {"none"},
         Goes(r, goal, row)
  PROVE  \E v \in RoundOf : round' = [round EXCEPT ![r] = v] /\ v.pc = goal /\ v.row = row
<1>. DEFINE v == [round[r] EXCEPT !.pc = goal, !.row = row]
<1>1. round[r] \in RoundOf /\ round \in [Runner -> RoundOf]
  BY ImportFacts
<1>2. v \in RoundOf /\ v.pc = goal /\ v.row = row
  BY <1>1 DEF RoundOf
<1>3. round' = [round EXCEPT ![r] = v]
  BY <1>1 DEF Goes
<1>. QED  BY <1>2, <1>3

\* A round that ends leaves nothing behind.
LEMMA EndIs ==
  ASSUME ImportInv, NEW r \in Runner, EndImportRound(r)
  PROVE  NoRound \in RoundOf /\ round' = [round EXCEPT ![r] = NoRound] /\ NoRound.pc = "idle"
  BY ImportFacts DEF EndImportRound, NoRound

\* A row of a phone import changes, and the round goes on.
LEMMA DeviceSteps ==
  ASSUME ImportInv, NEW r \in Runner,
         AskPhone(r) \/ PollPhone(r) \/ CopyFromPhone(r) \/ PhoneUnavailable(r) \/ BeginRound(r)
  PROVE  ImportInv'
<1>. USE ImportConstants
<1>1. /\ round \in [Runner -> RoundOf] /\ round[r] \in RoundOf
      /\ copied \in [Chat -> 0..CopyLimit] /\ deviceRow \in [Conversation -> RowStatus]
      /\ polls \in [Conversation -> 0..WaitLimit] /\ breaks \in 0..MaxBreaks
  BY ImportFacts
<1>2. UNCHANGED <<request, chatRow, copied, crossed, twice, expansions>>
  BY DEF copyVars, AskPhone, PollPhone, CopyFromPhone, PhoneUnavailable, BeginRound
<1>3. round[r].pc \in {"ask", "poll", "copy"} => round[r].row \in Conversation
  BY DEF ImportInv, RoundIs
<1>4. \E v \in RoundOf : /\ round' = [round EXCEPT ![r] = v] /\ v.pc \notin Copying
                         /\ v.pc \in {"ask", "poll", "copy"} => v.row \in Conversation
  <2>1. \/ Goes(r, "stored", "none")
        \/ \E c \in Conversation : Goes(r, "ask", c) \/ Goes(r, "poll", c) \/ Goes(r, "copy", c)
    BY <1>3 DEF AskPhone, PollPhone, CopyFromPhone, PhoneUnavailable, BeginRound, SetDevice
  <2>2. CASE Goes(r, "stored", "none")
    BY <2>2, GoesIs DEF ImportPc, Copying
  <2>3. ASSUME NEW c \in Conversation, NEW goal \in {"ask", "poll", "copy"}, Goes(r, goal, c)
        PROVE  \E v \in RoundOf : /\ round' = [round EXCEPT ![r] = v] /\ v.pc \notin Copying
                                  /\ v.pc \in {"ask", "poll", "copy"} => v.row \in Conversation
    <3>1. goal \in ImportPc
      BY DEF ImportPc
    <3>2. PICK v \in RoundOf : round' = [round EXCEPT ![r] = v] /\ v.pc = goal /\ v.row = c
      BY <2>3, <3>1, GoesIs
    <3>. QED  BY <3>2 DEF Copying
  <2>. QED  BY <2>1, <2>2, <2>3
<1>5. round' \in [Runner -> RoundOf] /\ RoundIs' /\ CrossingsSeen'
  <2>1. PICK v \in RoundOf : /\ round' = [round EXCEPT ![r] = v] /\ v.pc \notin Copying
                             /\ v.pc \in {"ask", "poll", "copy"} => v.row \in Conversation
    BY <1>4
  <2>2. /\ \A c \in Chat : copied'[c] >= copied[c] /\ copied'[c] = copied[c]
        /\ copied' \in [Chat -> 0..CopyLimit] /\ crossed \subseteq crossed' /\ v.pc # "insert"
    BY <1>1, <1>2, <2>1 DEF Copying
  <2>. QED  BY <2>1, <2>2, OnlyRound
<1>6. deviceRow' \in [Conversation -> RowStatus]
  <2>1. \/ deviceRow' = deviceRow
        \/ \E s \in RowStatus : deviceRow' = [deviceRow EXCEPT ![round[r].row] = s]
    BY DEF AskPhone, PollPhone, CopyFromPhone, PhoneUnavailable, BeginRound, SetDevice, RowStatus, Waiting, Ended
  <2>. QED  BY <1>1, <2>1
<1>7. polls' \in [Conversation -> 0..WaitLimit]
  <2>1. CASE PollPhone(r)
    <3>1. round[r].row \in Conversation
      BY <1>3, <2>1 DEF PollPhone
    <3>2. \/ polls' = polls
          \/ polls[round[r].row] < WaitLimit /\ polls' = [polls EXCEPT ![round[r].row] = @ + 1]
      BY <2>1 DEF PollPhone
    <3>. QED  BY <1>1, <3>1, <3>2
  <2>2. CASE ~PollPhone(r)
    BY <1>1, <2>2 DEF AskPhone, CopyFromPhone, PhoneUnavailable, BeginRound
  <2>. QED  BY <2>1, <2>2
<1>8. breaks' \in 0..MaxBreaks
  BY <1>1 DEF AskPhone, PollPhone, CopyFromPhone, PhoneUnavailable, BeginRound, Break
<1>. QED  BY <1>2, <1>5, <1>6, <1>7, <1>8
      DEF ImportInv, ImportTypeOK, RowsOnce, OnlyWanted, DoneIsWhole, CopiedOnce, RoundOf, ImportPc

\* The request is turned into rows, fails, or waits.
LEMMA ListSteps ==
  ASSUME ImportInv, NEW r \in Runner, ListChats(r) \/ ListUnavailable(r)
  PROVE  ImportInv'
<1>. USE ImportConstants
<1>1. /\ copied \in [Chat -> 0..CopyLimit] /\ breaks \in 0..MaxBreaks /\ expansions \in Nat
      /\ request \in RowStatus /\ chatRow \in [Chat -> RowStatus]
  BY ImportFacts
<1>2. EndImportRound(r) /\ UNCHANGED <<copied, crossed, twice, deviceRow, polls>>
  BY DEF copyVars, ListChats, ListUnavailable
<1>3. round' \in [Runner -> RoundOf] /\ RoundIs' /\ CrossingsSeen'
  <2>1. NoRound.pc \notin Copying /\ NoRound.pc = "idle"
    BY DEF NoRound, Copying
  <2>. QED  BY <1>1, <1>2, <2>1, EndIs, OnlyRound
<1>4. breaks' \in 0..MaxBreaks
  BY <1>1 DEF ListChats, ListUnavailable, Break
<1>5. \/ UNCHANGED <<request, chatRow, expansions>>
      \/ request' = "gagal" /\ UNCHANGED <<chatRow, expansions>>
      \/ /\ request = "antre" /\ request' = "selesai"
         /\ \E listed \in SUBSET Chat : chatRow' = [c \in Chat |-> IF c \in listed THEN "antre" ELSE "none"]
         /\ expansions' = expansions + 1
  BY DEF ListChats, ListUnavailable, Expand
<1>6. request' \in RowStatus /\ chatRow' \in [Chat -> RowStatus] /\ expansions' \in Nat
  BY <1>1, <1>5 DEF RowStatus, Ended, Waiting
<1>7. RowsOnce' /\ OnlyWanted' /\ DoneIsWhole' /\ CopiedOnce'
  BY <1>1, <1>2, <1>5 DEF ImportInv, RowsOnce, OnlyWanted, DoneIsWhole, CopiedOnce
<1>. QED  BY <1>2, <1>3, <1>4, <1>6, <1>7 DEF ImportInv, ImportTypeOK, RoundOf, ImportPc

\* What of a chat is copied, looked up or passed over by the round of r.
LEMMA CopySteps ==
  ASSUME ImportInv, NEW r \in Runner,
         \/ BeginStored(r) \/ BeginChat(r) \/ LookUp(r) \/ StoreMessage(r) \/ ChatUnavailable(r) \/ StopRunner(r)
         \/ \E s \in Ended : EndChat(r, s)
  PROVE  /\ copied' \in [Chat -> 0..CopyLimit] /\ OnlyWanted'
         /\ \A c \in Chat : /\ copied'[c] >= copied[c]
                            /\ copied'[c] = copied[c] \/ (round[r].pc \in Copying /\ round[r].row = c)
         /\ crossed \subseteq crossed' /\ crossed' \subseteq Chat /\ twice' \subseteq Chat /\ CopiedOnce'
<1>. USE ImportConstants
<1>1. /\ round[r] \in RoundOf /\ copied \in [Chat -> 0..CopyLimit]
      /\ crossed \subseteq Chat /\ twice \subseteq Chat /\ twice \subseteq crossed
  BY ImportFacts DEF ImportInv, CopiedOnce
<1>2. CASE StoreMessage(r)
  <2>1. /\ round[r].pc \in Copying /\ round[r].row \in Chat /\ round[r].at \in Nat
        /\ round[r].at <= copied[round[r].row] /\ round[r].at < Wanted(round[r].row)
        /\ round[r].row \in crossed \/ round[r].at = copied[round[r].row]
    BY <1>1, <1>2 DEF StoreMessage, ImportInv, RoundIs, RoundOf, Copying
  <2>2. \/ /\ round[r].at < copied[round[r].row]
           /\ twice' = twice \cup {round[r].row} /\ UNCHANGED <<copied, crossed>>
        \/ /\ ~(round[r].at < copied[round[r].row])
           /\ copied' = [copied EXCEPT ![round[r].row] = round[r].at + 1] /\ UNCHANGED <<twice, crossed>>
    BY <1>2 DEF StoreMessage
  <2>3. \A c \in Chat : copied[c] \in 0..CopyLimit /\ copied[c] <= Wanted(c) /\ Wanted(c) \in 0..CopyLimit
    BY <1>1 DEF ImportInv, OnlyWanted
  <2>4. CASE round[r].at < copied[round[r].row]
    <3>1. round[r].row \in crossed
      BY <1>1, <2>1, <2>3, <2>4
    <3>. QED  BY <1>1, <2>2, <2>3, <2>4, <3>1 DEF OnlyWanted, CopiedOnce
  <2>5. CASE ~(round[r].at < copied[round[r].row])
    <3>1. copied[round[r].row] = round[r].at
      BY <2>1, <2>3, <2>5
    <3>2. copied' = [copied EXCEPT ![round[r].row] = round[r].at + 1] /\ twice' = twice /\ crossed' = crossed
      BY <2>2, <2>5
    <3>3. round[r].at + 1 \in 0..CopyLimit /\ round[r].at + 1 <= Wanted(round[r].row)
      BY <2>1, <2>3
    <3>. QED  BY <1>1, <2>1, <2>3, <3>1, <3>2, <3>3 DEF OnlyWanted, CopiedOnce
  <2>. QED  BY <2>4, <2>5
<1>3. CASE ~StoreMessage(r)
  <2>1. copied' = copied /\ twice' = twice
    BY <1>3, Zenon DEF BeginStored, BeginChat, LookUp, ChatUnavailable, StopRunner, EndChat, copyVars
  <2>2. crossed' = crossed \/ \E c \in Chat : crossed' = crossed \cup {c}
    <3>1. CASE BeginChat(r)
      BY <1>1, <3>1 DEF BeginChat, RoundOf
    <3>2. CASE ~BeginChat(r)
      BY <1>3, <3>2, Zenon DEF BeginStored, LookUp, ChatUnavailable, StopRunner, EndChat, copyVars
    <3>. QED  BY <3>1, <3>2
  <2>. QED  BY <1>1, <2>1, <2>2 DEF ImportInv, OnlyWanted, CopiedOnce
<1>. QED  BY <1>2, <1>3

\* A chat ends as done only when every message that is wanted is here.
LEMMA ChatEnds ==
  ASSUME ImportInv, NEW r \in Runner,
         \/ BeginStored(r) \/ BeginChat(r) \/ LookUp(r) \/ StoreMessage(r) \/ ChatUnavailable(r) \/ StopRunner(r)
         \/ \E s \in Ended : EndChat(r, s)
  PROVE  /\ chatRow' \in [Chat -> RowStatus]
         /\ \A c \in Chat : chatRow'[c] = "selesai" => chatRow[c] = "selesai" \/ copied[c] = Wanted(c)
<1>. USE ImportConstants
<1>1. round[r] \in RoundOf /\ copied \in [Chat -> 0..CopyLimit] /\ chatRow \in [Chat -> RowStatus]
  BY ImportFacts
<1>2. CASE BeginStored(r) \/ LookUp(r) \/ StoreMessage(r) \/ StopRunner(r)
  BY <1>1, <1>2 DEF BeginStored, LookUp, StoreMessage, StopRunner
<1>3. CASE BeginChat(r)
  <2>1. PICK c \in Chat : chatRow' = [chatRow EXCEPT ![c] = "memasukkan"]
    BY <1>1, <1>3 DEF BeginChat, RoundOf
  <2>. QED  BY <1>1, <2>1 DEF RowStatus
<1>4. CASE ChatUnavailable(r)
  <2>1. chatRow' = [chatRow EXCEPT ![round[r].row] = "antre"]
    BY <1>4 DEF ChatUnavailable
  <2>. QED  BY <1>1, <2>1 DEF RowStatus, Waiting
<1>5. ASSUME NEW s \in Ended, EndChat(r, s)
      PROVE  /\ chatRow' \in [Chat -> RowStatus]
             /\ \A c \in Chat : chatRow'[c] = "selesai" => chatRow[c] = "selesai" \/ copied[c] = Wanted(c)
  <2>1. /\ round[r].row \in Chat /\ round[r].at <= copied[round[r].row] /\ round[r].at \in Nat
        /\ s = "selesai" => round[r].at = Wanted(round[r].row)
        /\ chatRow' = [chatRow EXCEPT ![round[r].row] = s]
    BY <1>1, <1>5 DEF EndChat, RoundOf, ImportInv, RoundIs
  <2>2. copied[round[r].row] <= Wanted(round[r].row) /\ copied[round[r].row] \in 0..CopyLimit
    BY <1>1, <2>1 DEF ImportInv, OnlyWanted
  <2>3. s = "selesai" => copied[round[r].row] = Wanted(round[r].row)
    BY <2>1, <2>2
  <2>. QED  BY <1>1, <2>1, <2>3 DEF RowStatus, Ended
<1>. QED  BY <1>2, <1>3, <1>4, <1>5

\* A chat is begun, copied message by message, and ended.
LEMMA ChatSteps ==
  ASSUME ImportInv, NEW r \in Runner,
         \/ BeginStored(r) \/ BeginChat(r) \/ LookUp(r) \/ StoreMessage(r) \/ ChatUnavailable(r) \/ StopRunner(r)
         \/ \E s \in Ended : EndChat(r, s)
  PROVE  ImportInv'
<1>. USE ImportConstants
<1>. DEFINE RoundFits(v) ==
       /\ round' = [round EXCEPT ![r] = v] /\ v.pc \notin {"ask", "poll", "copy"}
       /\ v.pc \in Copying => v.row \in Chat /\ v.at <= copied'[v.row]
       /\ v.pc = "insert" => v.at < Wanted(v.row) /\ (v.row \in crossed' \/ v.at = copied'[v.row])
       /\ \A q \in Runner \ {r} :
             v.pc \in Copying /\ round[q].pc \in Copying /\ round[q].row = v.row => v.row \in crossed'
<1>1. /\ round \in [Runner -> RoundOf] /\ round[r] \in RoundOf
      /\ copied \in [Chat -> 0..CopyLimit] /\ breaks \in 0..MaxBreaks
  BY ImportFacts
<1>2. UNCHANGED <<request, expansions, deviceRow, polls>>
  BY DEF BeginStored, BeginChat, LookUp, StoreMessage, ChatUnavailable, StopRunner, EndChat
<1>3. breaks' \in 0..MaxBreaks
  <2>1. breaks' = breaks \/ Break
    BY Zenon DEF BeginStored, BeginChat, LookUp, StoreMessage, ChatUnavailable, StopRunner, EndChat
  <2>. QED  BY <1>1, <2>1 DEF Break
<1>4. /\ copied' \in [Chat -> 0..CopyLimit] /\ OnlyWanted'
      /\ \A c \in Chat : /\ copied'[c] >= copied[c]
                         /\ copied'[c] = copied[c] \/ (round[r].pc \in Copying /\ round[r].row = c)
      /\ crossed \subseteq crossed' /\ crossed' \subseteq Chat /\ twice' \subseteq Chat /\ CopiedOnce'
  BY CopySteps
<1>5. /\ chatRow' \in [Chat -> RowStatus]
      /\ \A c \in Chat : chatRow'[c] = "selesai" => chatRow[c] = "selesai" \/ copied[c] = Wanted(c)
  BY ChatEnds
<1>6. DoneIsWhole'
  <2>. SUFFICES ASSUME NEW c \in Chat, chatRow'[c] = "selesai" PROVE copied'[c] = Wanted(c)
    BY DEF DoneIsWhole
  <2>1. copied[c] = Wanted(c)
    BY <1>5 DEF ImportInv, DoneIsWhole
  <2>. QED  BY <1>1, <1>4, <2>1 DEF OnlyWanted
<1>7. round[r].pc \in Copying =>
        /\ round[r].row \in Chat /\ round[r].at \in Nat /\ round[r].at <= copied[round[r].row]
        /\ \A q \in Runner \ {r} : round[q].pc \in Copying /\ round[q].row = round[r].row => round[r].row \in crossed'
  BY <1>1, <1>4 DEF ImportInv, RoundIs, CrossingsSeen, RoundOf
<1>8. \E v \in RoundOf : RoundFits(v)
  <2>1. CASE EndImportRound(r)
    <3>1. NoRound.pc \notin Copying \cup {"ask", "poll", "copy"} /\ NoRound.pc # "insert"
      BY DEF NoRound, Copying
    <3>. QED  BY <2>1, <3>1, EndIs
  <2>2. ASSUME NEW goal \in {"list", "batch"}, Goes(r, goal, "none") PROVE \E v \in RoundOf : RoundFits(v)
    <3>1. goal \in ImportPc /\ goal \notin Copying \cup {"ask", "poll", "copy", "insert"}
      BY DEF ImportPc, Copying
    <3>2. PICK v \in RoundOf : round' = [round EXCEPT ![r] = v] /\ v.pc = goal /\ v.row = "none"
      BY <2>2, <3>1, GoesIs
    <3>. QED  BY <3>1, <3>2
  <2>3. CASE BeginStored(r)
    <3>1. CASE request = "antre"
      BY <2>2, <2>3, <3>1 DEF BeginStored
    <3>2. CASE request # "antre"
      <4>. DEFINE b == {c \in Chat : chatRow[c] \in TakenUp}
                  v == IF b = {} THEN NoRound ELSE [NoRound EXCEPT !.pc = "batch", !.batch = b]
      <4>1. v \in RoundOf /\ v.pc \in {"idle", "batch"}
        <5>1. b \in SUBSET Chat
          OBVIOUS
        <5>. HIDE DEF b
        <5>. DEFINE w == [NoRound EXCEPT !.pc = "batch"]
                    u == [w EXCEPT !.batch = b]
        <5>2. NoRound \in RoundOf /\ NoRound.pc = "idle" /\ v = IF b = {} THEN NoRound ELSE u
          BY ImportFacts DEF NoRound
        <5>. HIDE DEF v, u
        <5>3. w \in RoundOf /\ w.pc = "batch"
          BY <5>2 DEF RoundOf, ImportPc
        <5>. HIDE DEF w
        <5>4. u \in RoundOf /\ u.pc = "batch"
          BY <5>1, <5>3 DEF RoundOf, u
        <5>. QED  BY <5>2, <5>4
      <4>2. round' = [round EXCEPT ![r] = v]
        BY <2>3, <3>2 DEF BeginStored
      <4>. HIDE DEF v
      <4>. QED  BY <4>1, <4>2 DEF Copying
    <3>. QED  BY <3>1, <3>2
  <2>4. CASE BeginChat(r)
    <3>1. PICK c \in Chat :
             /\ round' = [round EXCEPT ![r].pc = "chat", ![r].row = c, ![r].at = 0, ![r].batch = @ \ {c}]
             /\ crossed' = IF \E q \in Runner : round[q].pc \in Copying /\ round[q].row = c
                           THEN crossed \cup {c} ELSE crossed
      BY <1>1, <2>4 DEF BeginChat, RoundOf
    <3>. DEFINE v == [round[r] EXCEPT !.pc = "chat", !.row = c, !.at = 0, !.batch = @ \ {c}]
    <3>2. v \in RoundOf /\ v.pc = "chat" /\ v.row = c /\ v.at = 0
      <4>. DEFINE a == [round[r] EXCEPT !.pc = "chat"]
                  b == [a EXCEPT !.row = c]
                  e == [b EXCEPT !.at = 0]
      <4>1. a \in RoundOf /\ a.pc = "chat"
        BY <1>1 DEF RoundOf, ImportPc, Copying
      <4>2. v = [e EXCEPT !.batch = a.batch \ {c}]
        OBVIOUS
      <4>. HIDE DEF a, v
      <4>3. b \in RoundOf /\ b.pc = "chat" /\ b.row = c
        BY <4>1 DEF RoundOf
      <4>. HIDE DEF b
      <4>4. e \in RoundOf /\ e.pc = "chat" /\ e.row = c /\ e.at = 0
        BY <4>3 DEF RoundOf
      <4>. HIDE DEF e
      <4>. QED  BY <4>1, <4>2, <4>4 DEF RoundOf
    <3>3. round' = [round EXCEPT ![r] = v]
      BY <1>1, <3>1
    <3>. HIDE DEF v
    <3>4. 0 <= copied'[c]
      BY <1>4
    <3>5. \A q \in Runner \ {r} : round[q].pc \in Copying /\ round[q].row = c => c \in crossed'
      BY <3>1
    <3>. QED  BY <3>2, <3>3, <3>4, <3>5 DEF Copying
  <2>5. CASE LookUp(r)
    <3>1. CASE Known(r)
      <4>1. /\ round[r].pc = "chat" /\ copied' = copied /\ round[r].at < copied[round[r].row]
            /\ round' = [round EXCEPT ![r].at = round[r].at + 1]
        BY <2>5, <3>1, Zenon DEF LookUp, PassOver, Known, copyVars
      <4>. DEFINE v == [round[r] EXCEPT !.at = round[r].at + 1]
      <4>2. round[r].pc \in Copying /\ round[r].row \in Chat /\ copied[round[r].row] \in 0..CopyLimit
        BY <1>1, <1>7, <4>1 DEF Copying
      <4>3. round[r].at + 1 \in 0..CopyLimit /\ round[r].at + 1 <= copied'[round[r].row]
        BY <1>7, <4>1, <4>2
      <4>4. v \in RoundOf /\ v.pc = "chat" /\ v.row = round[r].row /\ v.at = round[r].at + 1
        BY <1>1, <4>1, <4>3 DEF RoundOf
      <4>5. round' = [round EXCEPT ![r] = v]
        BY <1>1, <4>1
      <4>. HIDE DEF v
      <4>. QED  BY <1>7, <4>2, <4>3, <4>4, <4>5 DEF Copying
    <3>2. CASE ~Known(r)
      <4>1. /\ round[r].pc = "chat" /\ copied' = copied /\ ~(round[r].at < copied[round[r].row])
            /\ round[r].at < Wanted(round[r].row)
            /\ round' = [round EXCEPT ![r].pc = "insert"]
        BY <2>5, <3>2, Zenon DEF LookUp, Known, copyVars
      <4>. DEFINE v == [round[r] EXCEPT !.pc = "insert"]
      <4>2. round[r].pc \in Copying /\ round[r].row \in Chat /\ copied[round[r].row] \in 0..CopyLimit
        BY <1>1, <1>7, <4>1 DEF Copying
      <4>3. round[r].at = copied'[round[r].row]
        BY <1>7, <4>1, <4>2
      <4>4. v \in RoundOf /\ v.pc = "insert" /\ v.row = round[r].row /\ v.at = round[r].at
        BY <1>1, <4>1 DEF RoundOf, ImportPc, Copying
      <4>5. round' = [round EXCEPT ![r] = v]
        BY <1>1, <4>1
      <4>. HIDE DEF v
      <4>. QED  BY <1>7, <4>1, <4>2, <4>3, <4>4, <4>5 DEF Copying
    <3>. QED  BY <3>1, <3>2
  <2>6. CASE StoreMessage(r)
    <3>1. round[r].pc = "insert" /\ round' = [round EXCEPT ![r].pc = "chat", ![r].at = round[r].at + 1]
      BY <2>6 DEF StoreMessage
    <3>. DEFINE v == [round[r] EXCEPT !.pc = "chat", !.at = round[r].at + 1]
    <3>2. /\ round[r].pc \in Copying /\ round[r].row \in Chat /\ round[r].at < Wanted(round[r].row)
          /\ copied[round[r].row] \in 0..CopyLimit /\ Wanted(round[r].row) \in 0..CopyLimit
      BY <1>1, <1>7, <3>1 DEF Copying, ImportInv, RoundIs
    <3>3. round[r].at + 1 \in 0..CopyLimit
      BY <1>7, <3>2
    <3>4. round[r].at + 1 <= copied'[round[r].row]
      BY <1>1, <1>7, <2>6, <3>2 DEF StoreMessage
    <3>5. v \in RoundOf /\ v.pc = "chat" /\ v.row = round[r].row /\ v.at = round[r].at + 1
      BY <1>1, <3>3 DEF RoundOf, ImportPc, Copying
    <3>6. round' = [round EXCEPT ![r] = v]
      BY <1>1, <3>1
    <3>. HIDE DEF v
    <3>. QED  BY <1>7, <3>2, <3>4, <3>5, <3>6 DEF Copying
  <2>7. CASE ChatUnavailable(r) \/ StopRunner(r) \/ \E s \in Ended : EndChat(r, s)
    BY <2>1, <2>2, <2>7 DEF ChatUnavailable, StopRunner, EndChat
  <2>. QED  BY <2>3, <2>4, <2>5, <2>6, <2>7
<1>9. round' \in [Runner -> RoundOf] /\ RoundIs' /\ CrossingsSeen'
  <2>1. PICK v \in RoundOf : RoundFits(v)
    BY <1>8
  <2>. QED  BY <1>4, <2>1, OnlyRound
<1>. QED  BY <1>2, <1>3, <1>4, <1>5, <1>6, <1>9 DEF ImportInv, ImportTypeOK, RowsOnce, RoundOf, ImportPc

\* The inductive invariant.
THEOREM ImportInvariant == ImportSpec => []ImportInv
<1>. USE ImportConstants
<1>1. ImportInit => ImportInv
  BY DEF ImportInit, ImportInv, ImportTypeOK, RowsOnce, RoundIs, CrossingsSeen, OnlyWanted, DoneIsWhole, CopiedOnce,
          NoRound, RowStatus, Copying
<1>2. ASSUME ImportInv, [ImportNext]_importVars PROVE ImportInv'
  <2>1. CASE QueueStored
    BY <1>2, <2>1 DEF QueueStored, copyVars, ImportInv, ImportTypeOK, RowsOnce, RoundIs, CrossingsSeen, OnlyWanted,
                        DoneIsWhole, CopiedOnce, RowStatus, Waiting
  <2>2. CASE StartDevice
    BY <1>2, <2>2 DEF StartDevice, copyVars, ImportInv, ImportTypeOK, RowsOnce, RoundIs, CrossingsSeen, OnlyWanted,
                        DoneIsWhole, CopiedOnce, RowStatus, Waiting
  <2>3. ASSUME NEW r \in Runner,
               RoundStep(r) \/ PhoneUnavailable(r) \/ ListUnavailable(r) \/ ChatUnavailable(r) \/ StopRunner(r)
        PROVE  ImportInv'
    BY <1>2, <2>3, DeviceSteps, ListSteps, ChatSteps DEF RoundStep
  <2>4. CASE UNCHANGED importVars
    BY <1>2, <2>4 DEF importVars, ImportInv, ImportTypeOK, RowsOnce, RoundIs, CrossingsSeen, OnlyWanted, DoneIsWhole, CopiedOnce
  <2>. QED  BY <1>2, <2>1, <2>2, <2>3, <2>4 DEF ImportNext
<1>. QED  BY <1>1, <1>2, PTL DEF ImportSpec

\* A request for the stored copy is turned into rows once, by however many overlapping rounds.
THEOREM ImportExpandedOnce == ImportSpec => []ExpandedOnce
<1>1. ImportInv => ExpandedOnce
  BY DEF ImportInv, RowsOnce, ExpandedOnce
<1>. QED  BY <1>1, ImportInvariant, PTL

\* Of a chat that is shown as imported the number has every message of the pages that are
\* read, also when several rounds copied it or one was stopped.
THEOREM ImportedIsWhole == ImportSpec => []DoneIsWhole
<1>1. ImportInv => DoneIsWhole
  BY DEF ImportInv
<1>. QED  BY <1>1, ImportInvariant, PTL

\* A message is stored twice only when two processes were at its chat at once, however
\* often the chat is begun again.
THEOREM ImportCopiedOnce == ImportSpec => []CopiedOnce
<1>1. ImportInv => CopiedOnce
  BY DEF ImportInv
<1>. QED  BY <1>1, ImportInvariant, PTL

-----------------------------------------------------------------------------
(* The webhooks of consumers. *)

\* A row that is still open has tries left, and so had every row of a claim.
TriesLeft ==
    /\ \A d \in Delivery : status[d] \in Open \cup {"none"} => attempts[d] < MaxAttempts
    /\ \A p \in Process, d \in Delivery : claimedAttempts[p][d] < MaxAttempts

\* A process is at an event while it posts it and stores what came of it, at none otherwise.
AtAnEvent ==
    \A p \in Process :
        /\ pc[p] \in {"posting", "accepted", "failed"} => current[p] \in Delivery /\ current[p] \notin batch[p]
        /\ pc[p] \in {"idle", "next"} => current[p] = NoDelivery
        /\ pc[p] = "idle" => batch[p] = {}
        /\ pc[p] # "posting" => left[p] = 0

\* TypeOK; of the power of two in the backoff the provers know only that it is an integer.
WebhookTypes ==
    /\ status \in [Delivery -> Status]
    /\ attempts \in [Delivery -> 0 .. MaxAttempts]
    /\ dueIn \in [Delivery -> Int]
    /\ pc \in [Process -> Pc]
    /\ batch \in [Process -> SUBSET Delivery]
    /\ claimedAttempts \in [Process -> [Delivery -> 0 .. MaxAttempts]]
    /\ current \in [Process -> Delivery \cup {NoDelivery}]
    /\ left \in [Process -> 0 .. PostTime]
    /\ stops \in Nat
    /\ outlived \subseteq Delivery

\* What is counted and where the rounds are.
WebhookInv == WebhookTypes /\ TriesLeft /\ AtAnEvent

\* An event is held by one round until its lease is over, and is open as long.
HeldByOne ==
    \A p \in Process, d \in Delivery : Holds(p, d) /\ d \notin outlived =>
        /\ status[d] \in Open /\ dueIn[d] > 0
        /\ \A q \in Process : Holds(q, d) => q = p

\* The inductive invariant.
SenderInv == WebhookInv /\ HeldByOne

\* What SuccessStands says of a step.
Stands ==
    \A d \in Delivery : status[d] = "berhasil" /\ d \notin outlived =>
        /\ status'[d] = "berhasil"
        /\ \A p \in Process : current'[p] = d => current[p] = d

\* What the assumption says of the numbers.
LEMMA WebhookConstants ==
    /\ IsFiniteSet(Delivery) /\ NoDelivery \notin Delivery
    /\ Batch \in Nat \ {0} /\ Lease \in Nat \ {0} /\ PostTime \in Nat \ {0} /\ MaxAttempts \in Nat \ {0}
    /\ FirstDelay \in Nat \ {0} /\ LongestDelay \in Nat \ {0} /\ MaxStops \in Nat
  BY WebhookAssumption

\* The larger of zero and a number.
LEMMA MaxOf == ASSUME NEW a \in Int PROVE Max({0, a}) = IF a > 0 THEN a ELSE 0
<1>1. CASE a > 0
  BY <1>1 DEF Max
<1>2. CASE ~(a > 0)
  BY <1>2 DEF Max
<1>. QED  BY <1>1, <1>2

\* The wait before a retry.
LEMMA DelayIs == ASSUME NEW n \in Nat PROVE RetryDelay(n) \in Int
<1>. DEFINE x == FirstDelay * 2^(n - 1)
<1>1. x \in Int
  BY WebhookConstants
<1>2. Min({LongestDelay, x}) \in Int
  <2>. HIDE DEF x
  <2>1. CASE LongestDelay <= x
    BY <1>1, <2>1, WebhookConstants DEF Min
  <2>2. CASE ~(LongestDelay <= x)
    BY <1>1, <2>2, WebhookConstants DEF Min
  <2>. QED  BY <2>1, <2>2
<1>. QED  BY <1>2 DEF RetryDelay

\* What is counted, and where the rounds are, stays so.
LEMMA WebhookStep == WebhookInv /\ [Next]_vars => WebhookInv'
<1>. SUFFICES ASSUME WebhookInv, [Next]_vars PROVE WebhookInv'
  OBVIOUS
<1>. USE WebhookConstants
<1>1. ASSUME NEW d \in Delivery, Enqueue(d) PROVE WebhookInv'
  BY <1>1 DEF Enqueue, WebhookInv, WebhookTypes, TriesLeft, AtAnEvent, roundVars, Open, Status
<1>2. ASSUME NEW p \in Process, Claim(p) PROVE WebhookInv'
  <2>1. PICK B \in SUBSET Due :
          /\ dueIn' = [d \in Delivery |-> IF d \in B THEN Lease ELSE dueIn[d]]
          /\ batch' = [batch EXCEPT ![p] = B]
          /\ claimedAttempts' = [claimedAttempts EXCEPT ![p] =
                                   [d \in Delivery |-> IF d \in B THEN attempts[d] ELSE 0]]
    BY <1>2 DEF Claim
  <2>2. /\ pc[p] = "idle" /\ pc' = [pc EXCEPT ![p] = "next"]
        /\ UNCHANGED <<status, attempts, current, left, stops, outlived>>
    BY <1>2 DEF Claim
  <2>3. B \subseteq Delivery /\ \A d \in B : status[d] \in Open
    BY <2>1 DEF Due
  <2>4. WebhookTypes'
    BY <2>1, <2>2, <2>3 DEF WebhookInv, WebhookTypes, Pc
  <2>5. TriesLeft'
    BY <2>1, <2>2, <2>3 DEF WebhookInv, WebhookTypes, TriesLeft
  <2>6. AtAnEvent'
    BY <2>1, <2>2 DEF WebhookInv, WebhookTypes, AtAnEvent
  <2>. QED  BY <2>4, <2>5, <2>6 DEF WebhookInv
<1>3. ASSUME NEW p \in Process, NEW d \in Delivery, Post(p, d) \/ CannotPost(p, d) PROVE WebhookInv'
  <2>0. /\ batch' = [batch EXCEPT ![p] = @ \ {d}]
        /\ current' = [current EXCEPT ![p] = d]
        /\ UNCHANGED <<status, attempts, dueIn, claimedAttempts, stops, outlived>>
        /\ left' = left \/ left' = [left EXCEPT ![p] = PostTime]
        /\ pc' = [pc EXCEPT ![p] = "posting"] \/ pc' = [pc EXCEPT ![p] = "failed"]
    BY <1>3 DEF Post, CannotPost, Take, rowVars
  <2>1. WebhookTypes'
    BY <2>0 DEF WebhookInv, WebhookTypes, Pc
  <2>2. TriesLeft'
    BY <1>3 DEF Post, CannotPost, Take, WebhookInv, WebhookTypes, TriesLeft, rowVars
  <2>3. AtAnEvent'
    BY <1>3 DEF Post, CannotPost, Take, WebhookInv, WebhookTypes, AtAnEvent
  <2>. QED  BY <2>1, <2>2, <2>3 DEF WebhookInv
<1>4. ASSUME NEW p \in Process, NEW o \in {"accepted", "failed"}, Answer(p, o) PROVE WebhookInv'
  <2>1. WebhookTypes'
    BY <1>4 DEF Answer, WebhookInv, WebhookTypes, Pc, rowVars
  <2>2. TriesLeft'
    BY <1>4 DEF Answer, WebhookInv, TriesLeft, rowVars
  <2>3. AtAnEvent'
    BY <1>4 DEF Answer, WebhookInv, WebhookTypes, AtAnEvent
  <2>. QED  BY <2>1, <2>2, <2>3 DEF WebhookInv
<1>5. ASSUME NEW p \in Process, pc[p] \in {"accepted", "failed"}
      PROVE  /\ current[p] \in Delivery /\ AttemptsAfter(p) \in 1 .. MaxAttempts
             /\ AttemptsAfter(p) = claimedAttempts[p][current[p]] + 1
  BY <1>5 DEF WebhookInv, WebhookTypes, TriesLeft, AtAnEvent, AttemptsAfter
<1>6. ASSUME NEW p \in Process, StoreSuccess(p) \/ StoreFailure(p) PROVE WebhookInv'
  <2>. DEFINE n == AttemptsAfter(p)
  <2>1. current[p] \in Delivery /\ n \in 1 .. MaxAttempts /\ RetryDelay(n) \in Int
    BY <1>5, <1>6, DelayIs DEF StoreSuccess, StoreFailure
  <2>. HIDE DEF n
  <2>2. /\ attempts' = [attempts EXCEPT ![current[p]] = n]
        /\ \/ UNCHANGED dueIn
           \/ dueIn' = [dueIn EXCEPT ![current[p]] = RetryDelay(n)]
        /\ \/ status' = [status EXCEPT ![current[p]] = "berhasil"]
           \/ status' = [status EXCEPT ![current[p]] = "habis"]
           \/ status' = [status EXCEPT ![current[p]] = "retry"] /\ n < MaxAttempts
        /\ pc[p] \in {"accepted", "failed"}
        /\ Done(p)
    BY <1>6, <2>1 DEF StoreSuccess, StoreFailure, Exhausted, n
  <2>. DEFINE m == [claimedAttempts[p] EXCEPT ![current[p]] = 0]
  <2>6. /\ claimedAttempts' = [claimedAttempts EXCEPT ![p] = m]
        /\ m \in [Delivery -> 0 .. MaxAttempts] /\ \A d \in Delivery : m[d] < MaxAttempts
    <3>1. /\ claimedAttempts[p] \in [Delivery -> 0 .. MaxAttempts]
          /\ \A d \in Delivery : claimedAttempts[p][d] < MaxAttempts
      BY DEF WebhookInv, WebhookTypes, TriesLeft
    <3>. QED  BY <2>1, <2>2, <3>1 DEF Done, WebhookInv, WebhookTypes
  <2>. HIDE DEF m
  <2>7. /\ pc' = [pc EXCEPT ![p] = IF batch[p] = {} THEN "idle" ELSE "next"]
        /\ current' = [current EXCEPT ![p] = NoDelivery]
        /\ UNCHANGED <<batch, left, stops>> /\ outlived' \subseteq Delivery
    BY <2>2 DEF Done, KeepOutlived, WebhookInv, WebhookTypes
  <2>3. WebhookTypes'
    <3>1. (claimedAttempts \in [Process -> [Delivery -> 0 .. MaxAttempts]])'
      BY <2>6 DEF WebhookInv, WebhookTypes
    <3>2. /\ (pc \in [Process -> Pc])'
          /\ (current \in [Process -> Delivery \cup {NoDelivery}])'
      BY <2>7 DEF WebhookInv, WebhookTypes, Pc
    <3>3. /\ (status \in [Delivery -> Status])'
          /\ (attempts \in [Delivery -> 0 .. MaxAttempts])'
      BY <2>1, <2>2 DEF WebhookInv, WebhookTypes, Status
    <3>4. (dueIn \in [Delivery -> Int])'
      BY <2>1, <2>2 DEF WebhookInv, WebhookTypes
    <3>. QED  BY <2>7, <3>1, <3>2, <3>3, <3>4 DEF WebhookInv, WebhookTypes
  <2>4. TriesLeft'
    BY <2>1, <2>2, <2>6 DEF WebhookInv, WebhookTypes, TriesLeft, Open
  <2>5. AtAnEvent'
    BY <2>2, <2>7 DEF WebhookInv, WebhookTypes, AtAnEvent
  <2>. QED  BY <2>3, <2>4, <2>5 DEF WebhookInv
<1>7. ASSUME NEW p \in Process, Stop(p) PROVE WebhookInv'
  <2>0. /\ claimedAttempts' = [claimedAttempts EXCEPT ![p] = [d \in Delivery |-> 0]]
        /\ UNCHANGED <<status, attempts, dueIn>>
        /\ pc' = [pc EXCEPT ![p] = "idle"]
        /\ batch' = [batch EXCEPT ![p] = {}]
        /\ current' = [current EXCEPT ![p] = NoDelivery]
        /\ left' = [left EXCEPT ![p] = 0]
        /\ stops' = stops + 1
        /\ outlived' \subseteq Delivery
    BY <1>7 DEF Stop, KeepOutlived, WebhookInv, WebhookTypes, rowVars
  <2>1. WebhookTypes'
    <3>1. /\ (claimedAttempts \in [Process -> [Delivery -> 0 .. MaxAttempts]])'
          /\ (pc \in [Process -> Pc])'
      <4>1. [d \in Delivery |-> 0] \in [Delivery -> 0 .. MaxAttempts]
        OBVIOUS
      <4>. QED  BY <4>1, <2>0 DEF WebhookInv, WebhookTypes, Pc
    <3>2. (batch \in [Process -> SUBSET Delivery])'
      BY <2>0 DEF WebhookInv, WebhookTypes
    <3>3. /\ (current \in [Process -> Delivery \cup {NoDelivery}])'
          /\ (left \in [Process -> 0 .. PostTime])'
          /\ (stops \in Nat)'
      <4>1. (current \in [Process -> Delivery \cup {NoDelivery}])'
        BY <2>0 DEF WebhookInv, WebhookTypes
      <4>2. (left \in [Process -> 0 .. PostTime])'
        <5>1. 0 \in 0 .. PostTime /\ left \in [Process -> 0 .. PostTime]
          BY DEF WebhookInv, WebhookTypes
        <5>2. left' = [left EXCEPT ![p] = 0]
          BY <2>0
        <5>. QED  BY <5>1, <5>2
      <4>3. (stops \in Nat)'
        <5>1. stops \in Nat
          BY DEF WebhookInv, WebhookTypes
        <5>. QED  BY <2>0, <5>1
      <4>. QED  BY <4>1, <4>2, <4>3
    <3>. QED  BY <2>0, <3>1, <3>2, <3>3 DEF WebhookInv, WebhookTypes
  <2>2. TriesLeft'
    BY <2>0 DEF WebhookInv, WebhookTypes, TriesLeft
  <2>3. AtAnEvent'
    BY <1>7 DEF Stop, WebhookInv, WebhookTypes, AtAnEvent
  <2>. QED  BY <2>1, <2>2, <2>3 DEF WebhookInv
<1>8. ASSUME Tick PROVE WebhookInv'
  <2>1. /\ dueIn' \in [Delivery -> Int]
        /\ left' \in [Process -> 0 .. PostTime]
        /\ \A p \in Process : pc[p] # "posting" => left'[p] = 0
    <3>1. ASSUME NEW d \in Delivery PROVE Max({0, dueIn[d] - 1}) \in Int
      <4>1. dueIn[d] - 1 \in Int
        BY DEF WebhookInv, WebhookTypes
      <4>. QED  BY <4>1, MaxOf
    <3>2. ASSUME NEW p \in Process
          PROVE  /\ Max({0, left[p] - 1}) \in 0 .. PostTime
                 /\ left[p] = 0 => Max({0, left[p] - 1}) = 0
      <4>1. left[p] \in 0 .. PostTime
        BY DEF WebhookInv, WebhookTypes
      <4>2. Max({0, left[p] - 1}) = IF left[p] - 1 > 0 THEN left[p] - 1 ELSE 0
        BY <4>1, MaxOf
      <4>. QED  BY <4>1, <4>2
    <3>3. /\ dueIn' = [d \in Delivery |-> Max({0, dueIn[d] - 1})]
          /\ left' = [p \in Process |-> Max({0, left[p] - 1})]
          /\ pc' = pc
      BY <1>8 DEF Tick
    <3>4. \A p \in Process : pc[p] # "posting" => left[p] = 0
      BY DEF WebhookInv, AtAnEvent
    <3>. QED  BY <3>1, <3>2, <3>3, <3>4
  <2>. QED  BY <1>8, <2>1 DEF Tick, WebhookInv, WebhookTypes, TriesLeft, AtAnEvent
<1>9. CASE UNCHANGED vars
  BY <1>9 DEF vars, rowVars, roundVars, WebhookInv, WebhookTypes, TriesLeft, AtAnEvent
<1>. QED  BY <1>1, <1>2, <1>3, <1>4, <1>6, <1>7, <1>8, <1>9 DEF Next, SenderStep

\* Nothing has been claimed at the start.
LEMMA WebhookStart == Init => WebhookInv
  BY WebhookConstants DEF Init, WebhookInv, WebhookTypes, TriesLeft, AtAnEvent, Status, Pc

-----------------------------------------------------------------------------

\* A claim takes what nobody holds, or what is held past its lease.
LEMMA ClaimKeepsApart ==
  ASSUME SenderInv, NEW p \in Process, Claim(p)
  PROVE  HeldByOne'
<1>. USE WebhookConstants
<1>1. PICK B \in SUBSET Due :
        /\ dueIn' = [d \in Delivery |-> IF d \in B THEN Lease ELSE dueIn[d]]
        /\ batch' = [batch EXCEPT ![p] = B]
  BY DEF Claim
<1>2. pc[p] = "idle" /\ UNCHANGED <<status, current, outlived>>
  BY DEF Claim
<1>3. /\ batch[p] = {} /\ current[p] = NoDelivery
      /\ batch \in [Process -> SUBSET Delivery]
  BY <1>2 DEF SenderInv, WebhookInv, AtAnEvent, WebhookTypes
<1>4. \A d \in Due : d \in Delivery /\ status[d] \in Open /\ dueIn[d] = 0
  BY DEF Due
<1>5. ASSUME NEW q \in Process, NEW d \in Delivery, Holds(q, d), d \notin outlived
      PROVE  d \notin B
  <2>1. dueIn[d] > 0
    BY <1>5 DEF SenderInv, HeldByOne
  <2>. QED  BY <1>4, <2>1
<1>6. ASSUME NEW q \in Process, NEW d \in Delivery, Holds(q, d)'
      PROVE  (q = p /\ d \in B) \/ (q # p /\ Holds(q, d))
  BY <1>1, <1>2, <1>3, <1>6 DEF Holds
<1>7. ASSUME NEW q \in Process, NEW d \in Delivery, Holds(q, d)', d \notin outlived'
      PROVE  /\ status'[d] \in Open /\ dueIn'[d] > 0
             /\ \A r \in Process : Holds(r, d)' => r = q
  <2>1. d \notin outlived
    BY <1>2, <1>7
  <2>2. CASE q = p /\ d \in B
    <3>1. dueIn'[d] = Lease /\ status'[d] \in Open
      BY <1>1, <1>2, <1>4, <2>2
    <3>. QED  BY <1>5, <1>6, <2>1, <2>2, <3>1
  <2>3. CASE q # p /\ Holds(q, d)
    <3>1. d \notin B
      BY <1>5, <2>1, <2>3
    <3>2. dueIn'[d] = dueIn[d] /\ status'[d] = status[d]
      BY <1>1, <1>2, <3>1
    <3>. QED  BY <1>6, <2>1, <2>3, <3>1, <3>2 DEF SenderInv, HeldByOne
  <2>. QED  BY <1>6, <1>7, <2>2, <2>3
<1>. QED  BY <1>7 DEF HeldByOne

\* What a process goes on with it has held.
LEMMA RoundKeepsApart ==
  ASSUME SenderInv, NEW p \in Process,
         \/ \E d \in Delivery : Post(p, d) \/ CannotPost(p, d)
         \/ \E o \in {"accepted", "failed"} : Answer(p, o)
         \/ Stop(p)
  PROVE  HeldByOne'
<1>. USE WebhookConstants
<1>1. UNCHANGED <<status, dueIn>>
  BY DEF Post, CannotPost, Take, Answer, Stop, rowVars
<1>2. ASSUME NEW q \in Process, NEW d \in Delivery, Holds(q, d)' PROVE Holds(q, d)
  BY <1>2 DEF Post, CannotPost, Take, Answer, Stop, rowVars, Holds, SenderInv, WebhookInv, WebhookTypes
<1>3. ASSUME NEW q \in Process, NEW d \in Delivery, Holds(q, d)', d \notin outlived' PROVE d \notin outlived
  BY <1>3 DEF Post, CannotPost, Take, Answer, Stop, KeepOutlived
<1>. QED  BY <1>1, <1>2, <1>3 DEF SenderInv, HeldByOne

\* What a process stores is of an event it lets go of, and of another's only past its lease.
LEMMA StoreKeepsApart ==
  ASSUME SenderInv, NEW p \in Process, StoreSuccess(p) \/ StoreFailure(p)
  PROVE  HeldByOne'
<1>. USE WebhookConstants
<1>1. /\ current[p] \in Delivery /\ current[p] \notin batch[p] /\ Holds(p, current[p])
      /\ current' = [current EXCEPT ![p] = NoDelivery] /\ UNCHANGED batch
  BY DEF StoreSuccess, StoreFailure, Done, SenderInv, WebhookInv, AtAnEvent, Holds
<1>2. \A d \in Delivery \ {current[p]} : status'[d] = status[d] /\ dueIn'[d] = dueIn[d]
  BY <1>1 DEF StoreSuccess, StoreFailure, SenderInv, WebhookInv, WebhookTypes
<1>3. current \in [Process -> Delivery \cup {NoDelivery}]
  BY DEF SenderInv, WebhookInv, WebhookTypes
<1>4. ASSUME NEW q \in Process, NEW d \in Delivery, Holds(q, d)'
      PROVE  Holds(q, d) /\ (q = p => d # current[p])
  BY <1>1, <1>3, <1>4 DEF Holds
<1>5. ASSUME NEW q \in Process, NEW d \in Delivery, Holds(q, d)', d \notin outlived' PROVE d \notin outlived
  BY <1>5 DEF StoreSuccess, StoreFailure, Done, KeepOutlived
<1>6. ASSUME NEW q \in Process, NEW d \in Delivery, Holds(q, d)', d \notin outlived' PROVE d # current[p]
  BY <1>1, <1>4, <1>5, <1>6 DEF SenderInv, HeldByOne
<1>. QED  BY <1>2, <1>4, <1>5, <1>6 DEF SenderInv, HeldByOne

\* When the lease of a held event passes, the round has outlived it.
LEMMA TickKeepsApart ==
  ASSUME SenderInv, Tick
  PROVE  HeldByOne'
<1>. USE WebhookConstants
<1>1. /\ dueIn' = [d \in Delivery |-> Max({0, dueIn[d] - 1})]
      /\ UNCHANGED <<status, batch, current>>
      /\ outlived' = outlived \cup {d \in Delivery : dueIn'[d] = 0 /\ \E p \in Process : Holds(p, d)}
  BY DEF Tick
<1>2. ASSUME NEW q \in Process, NEW d \in Delivery PROVE Holds(q, d)' <=> Holds(q, d)
  BY <1>1 DEF Holds
<1>3. ASSUME NEW d \in Delivery PROVE dueIn'[d] \in Int /\ dueIn'[d] >= 0
  <2>1. dueIn[d] - 1 \in Int
    BY DEF SenderInv, WebhookInv, WebhookTypes
  <2>2. dueIn'[d] = Max({0, dueIn[d] - 1})
    BY <1>1
  <2>. QED  BY <2>1, <2>2, MaxOf
<1>4. ASSUME NEW q \in Process, NEW d \in Delivery, Holds(q, d)', d \notin outlived'
      PROVE  d \notin outlived /\ dueIn'[d] > 0
  BY <1>1, <1>2, <1>3, <1>4
<1>. QED  BY <1>1, <1>2, <1>4 DEF SenderInv, HeldByOne

\* The inductive step.
LEMMA SenderNext == ASSUME SenderInv, [Next]_vars PROVE SenderInv'
<1>1. WebhookInv'
  BY WebhookStep DEF SenderInv
<1>2. HeldByOne'
  <2>1. CASE \E d \in Delivery : Enqueue(d)
    <3>1. PICK e \in Delivery : Enqueue(e)
      BY <2>1
    <3>2. \A p \in Process, d \in Delivery : Holds(p, d) /\ d \notin outlived => d # e
      BY <3>1 DEF Enqueue, SenderInv, HeldByOne, Open
    <3>3. /\ \A d \in Delivery \ {e} : status'[d] = status[d]
          /\ UNCHANGED <<dueIn, batch, current, outlived>>
      BY <3>1 DEF Enqueue, roundVars, SenderInv, WebhookInv, WebhookTypes
    <3>. QED  BY <3>2, <3>3 DEF SenderInv, HeldByOne, Holds
  <2>2. CASE Tick
    BY <2>2, TickKeepsApart
  <2>3. CASE UNCHANGED vars
    BY <2>3 DEF vars, rowVars, roundVars, SenderInv, HeldByOne, Holds
  <2>4. ASSUME NEW p \in Process, SenderStep(p) \/ Stop(p) PROVE HeldByOne'
    BY <2>4, ClaimKeepsApart, RoundKeepsApart, StoreKeepsApart DEF SenderStep
  <2>. QED  BY <2>1, <2>2, <2>3, <2>4 DEF Next
<1>. QED  BY <1>1, <1>2 DEF SenderInv

\* A delivered event that no round outlived is held by nobody, so nobody stores anything over it
\* or posts it.
LEMMA DeliveredStands == ASSUME SenderInv, [Next]_vars PROVE Stands
<1>. SUFFICES ASSUME NEW d \in Delivery, status[d] = "berhasil", d \notin outlived
              PROVE  /\ status'[d] = "berhasil"
                     /\ \A p \in Process : current'[p] = d => current[p] = d
  BY DEF Stands
<1>1. \A p \in Process : ~Holds(p, d)
  BY DEF SenderInv, HeldByOne, Open
<1>2. /\ status \in [Delivery -> Status] /\ current \in [Process -> Delivery \cup {NoDelivery}]
      /\ d # NoDelivery
  BY WebhookConstants DEF SenderInv, WebhookInv, WebhookTypes
<1>3. ASSUME NEW e \in Delivery, Enqueue(e) PROVE status'[d] = "berhasil" /\ UNCHANGED current
  BY <1>2, <1>3 DEF Enqueue, roundVars
<1>4. ASSUME NEW p \in Process, StoreSuccess(p) \/ StoreFailure(p)
      PROVE  status'[d] = "berhasil" /\ \A q \in Process : current'[q] = d => current[q] = d
  <2>1. current[p] # d
    BY <1>1, <1>2 DEF Holds
  <2>. QED  BY <1>2, <1>4, <2>1 DEF StoreSuccess, StoreFailure, Done
<1>5. ASSUME NEW p \in Process, NEW e \in Delivery, Post(p, e) \/ CannotPost(p, e)
      PROVE  status'[d] = "berhasil" /\ \A q \in Process : current'[q] = d => current[q] = d
  <2>1. e # d
    BY <1>1, <1>5 DEF Holds, Post, CannotPost, Take
  <2>. QED  BY <1>2, <1>5, <2>1 DEF Post, CannotPost, Take, rowVars
<1>6. ASSUME NEW p \in Process,
             \/ Claim(p) \/ Stop(p)
             \/ \E o \in {"accepted", "failed"} : Answer(p, o)
      PROVE  status'[d] = "berhasil" /\ \A q \in Process : current'[q] = d => current[q] = d
  BY <1>2, <1>6 DEF Claim, Stop, Answer, rowVars
<1>7. CASE Tick \/ UNCHANGED vars
  BY <1>7 DEF Tick, vars, rowVars, roundVars
<1>. QED  BY <1>3, <1>4, <1>5, <1>6, <1>7 DEF Next, SenderStep

\* The tries of an event are counted, and never past the last one, in every instance.
THEOREM TriesEnd == Spec => [](WebhookInv /\ \A d \in Delivery : attempts[d] <= MaxAttempts)
<1>1. WebhookInv => \A d \in Delivery : attempts[d] <= MaxAttempts
  BY WebhookConstants DEF WebhookInv, WebhookTypes
<1>. QED  BY <1>1, WebhookStart, WebhookStep, PTL DEF Spec

\* Once delivered, an event is never shown otherwise and never posted again, by however many
\* processes, unless a round held it past its lease.
THEOREM DeliveredForGood == Spec => SuccessStands
<1>1. Init => SenderInv
  BY WebhookStart, WebhookConstants DEF Init, SenderInv, HeldByOne, Holds
<1>2. SenderInv /\ [Next]_vars => SenderInv'
  BY SenderNext
<1>3. SenderInv /\ [Next]_vars => [Stands]_vars
  BY DeliveredStands
<1>. QED  BY <1>1, <1>2, <1>3, PTL DEF Spec, SuccessStands, Stands
=============================================================================
