--------------------------- MODULE MCKirimRounds ---------------------------
(***************************************************************************)
(* Instances of KirimWebhooks, KirimPull, KirimImport, KirimNumbers and    *)
(* KirimGroups for TLC: what the timers of Kirim must get done in the end. *)
(* The five share no variable, so a behaviour moves one of them, chosen at *)
(* the start, and the others stay as they began; each keeps its own        *)
(* fairness.                                                               *)
(***************************************************************************)
EXTENDS KirimWebhooks, KirimPull, KirimImport, KirimNumbers, KirimGroups

CONSTANTS h1, h2, s1

\* One chat is longer than the pages that are read, of the other the engine has nothing.
MessagesOfChat == [c \in Chat |-> IF c = h1 THEN 3 ELSE 0]

VARIABLE part

roundsVars == <<part, vars, pullVars, importVars, numbersVars, groupsVars>>

RoundsInit ==
    /\ part \in {"sender", "senders", "pull", "stored", "phone", "numbers", "groups"}
    /\ Init /\ PullInit /\ ImportInit /\ NumbersInit /\ GroupsInit
    /\ part # "numbers" => \A t \in EngineTenant : engine[t].session = "absent"

\* One process that may stop, or two that do not.
OfWebhooks(A) ==
    /\ part \in {"sender", "senders"} /\ A
    /\ part = "sender" => \A p \in Process \ {s1} : UNCHANGED <<pc[p], batch[p]>>
    /\ part = "senders" => UNCHANGED stops
    /\ UNCHANGED <<part, pullVars, importVars, numbersVars, groupsVars>>
OfPull(A) == part = "pull" /\ A /\ UNCHANGED <<part, vars, importVars, numbersVars, groupsVars>>
\* An import from the stored copy or one from the phone, not both: they share the rounds, not a row.
OfImport(A) ==
    /\ part \in {"stored", "phone"} /\ A
    /\ part = "stored" => UNCHANGED deviceRow
    /\ part = "phone" => UNCHANGED request
    /\ UNCHANGED <<part, vars, pullVars, numbersVars, groupsVars>>
OfNumbers(A) == part = "numbers" /\ A /\ UNCHANGED <<part, vars, pullVars, importVars, groupsVars>>
OfGroups(A) == part = "groups" /\ A /\ UNCHANGED <<part, vars, pullVars, importVars, numbersVars>>

RoundsNext ==
    OfWebhooks(Next) \/ OfPull(PullNext) \/ OfImport(ImportNext) \/ OfNumbers(NumbersNext) \/ OfGroups(GroupsNext)

\* Fairness of KirimWebhooks, PullFairness, ImportFairness, NumbersFairness and GroupsFairness.
RoundsFairness ==
    /\ \A p \in Process : WF_roundsVars(OfWebhooks(SenderStep(p)))
    /\ WF_roundsVars(OfWebhooks(Tick))
    /\ \A p \in Puller : WF_roundsVars(OfPull(PullStep(p))) /\ WF_roundsVars(OfPull(Round(p)))
    /\ \A r \in Runner : WF_roundsVars(OfImport(RoundStep(r)))
    /\ \A a \in Admin : WF_roundsVars(OfNumbers(JobStep(a)))
    /\ \A n \in Numbers : SF_roundsVars(OfNumbers(\E a \in Admin : BeginRefresh(a, n)))
    /\ WF_roundsVars(OfGroups(ListGroups)) /\ WF_roundsVars(OfGroups(StoreGroups))

RoundsSpec == RoundsInit /\ [][RoundsNext]_roundsVars /\ RoundsFairness

\* Every variable of the five stays within its type.
RoundsTypeOK == TypeOK /\ PullTypeOK /\ ImportTypeOK /\ NumbersTypeOK /\ GroupsTypeOK
=============================================================================
