--------------------------- MODULE MCKirimAccept ---------------------------
(* Instances of KirimAccept for TLC. *)
EXTENDS KirimAccept, TLC

CONSTANTS h1, h2, k1, k2, k3, m1, m2, m3, n1

\* An automatic message and a reply to one person; or a code in the reply's place.
MCBody == {"kabar", "balasan"}
MCCodeBody == {"kabar", "otp"}
MCKind == [b \in Body |->
             CASE b = "kabar" -> "notifikasi" [] b = "otp" -> "kode" [] OTHER -> "percakapan"]
MCTo == [b \in Body |-> n1]

Symmetric == Permutations(Handler) \cup Permutations(Key) \cup Permutations(Message)

=============================================================================
