-------------------------- MODULE MessageLifecycle --------------------------
(***************************************************************************)
(* What Kirim SQ promises of an accepted message, whatever process, lease, *)
(* engine or administrator is behind it: it leaves for WhatsApp at most    *)
(* once, is confirmed only if it left, its status only moves forward       *)
(* (KIRIM-IMPL-001 section 5.3), and a final status stays.                 *)
(***************************************************************************)
CONSTANT Message

VARIABLES
    state,    \* outbox status; kedaluwarsa is gagal with error_code expired
    left      \* the messages WhatsApp has taken

vars == <<state, left>>

State == {"none", "antre", "diserahkan", "terkirim", "dibaca", "gagal", "kedaluwarsa", "dibatalkan"}

TypeOK == state \in [Message -> State] /\ left \subseteq Message

Init ==
    /\ state = [m \in Message |-> "none"]
    /\ left = {}

Become(m, from, to) ==
    /\ state[m] = from
    /\ state' = [state EXCEPT ![m] = to]

Submit(m) == Become(m, "none", "antre") /\ UNCHANGED left

Leave(m) ==
    /\ state[m] # "none"
    /\ left' = left \cup {m}
    /\ UNCHANGED state

Confirm(m) ==
    /\ m \in left
    /\ Become(m, "antre", "diserahkan")
    /\ UNCHANGED left

Receive(m) ==
    /\ \/ Become(m, "diserahkan", "terkirim")
       \/ Become(m, "diserahkan", "dibaca")
       \/ Become(m, "terkirim", "dibaca")
    /\ UNCHANGED left

\* One round may expire several messages.
Expire(M) ==
    /\ \A m \in M : state[m] = "antre"
    /\ state' = [m \in Message |-> IF m \in M THEN "kedaluwarsa" ELSE state[m]]
    /\ UNCHANGED left

Fail(m) == Become(m, "antre", "gagal") /\ UNCHANGED left
Retry(m) == Become(m, "gagal", "antre") /\ UNCHANGED left
Cancel(m) == Become(m, "antre", "dibatalkan") /\ UNCHANGED left

Next ==
    \/ \E m \in Message : \/ Submit(m) \/ Leave(m) \/ Confirm(m) \/ Receive(m)
                          \/ Fail(m) \/ Retry(m) \/ Cancel(m)
    \/ \E M \in SUBSET Message : Expire(M)

Spec == Init /\ [][Next]_vars

=============================================================================
