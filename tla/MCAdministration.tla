--------------------------- MODULE MCAdministration ---------------------------
(***************************************************************************)
(* Instances of PlatformAdmin and Governance (with ApplicationAccess) for  *)
(* TLC: the administrators of SQ Hub and their proposals, and the cards of *)
(* a member of an organ.  A behaviour moves one of them, chosen at the     *)
(* start, and the other stays as it began.                                 *)
(***************************************************************************)
EXTENDS PlatformAdmin, Governance, TLC

CONSTANTS a, b, c, x1, x2, h1, h2, u1, u2, b1, b2, p1, p2

VARIABLE part

MCRank == a :> 1 @@ b :> 2 @@ c :> 3
MCSessionOf == p1 :> b1 @@ p2 :> b2
MCUserOf == b1 :> u1 @@ b2 :> u2

MCVars == <<part, vars, accessVars, portalVars>>

MCInit ==
    /\ part \in {"admins", "portal"}
    /\ Init /\ AccessInit /\ PortalInit

MCNext ==
    /\ \/ part = "admins" /\ Next /\ UNCHANGED <<accessVars, portalVars>>
       \/ part = "portal" /\ PortalNext /\ UNCHANGED vars
    /\ UNCHANGED part

MCSpec == MCInit /\ [][MCNext]_MCVars

\* Which of the proposals, or of the requests, that are alike does what makes no difference.
Symmetric == Permutations(Proposal) \cup Permutations(Handler)

\* Only the part that moves tells two states apart, and no history that no step reads.
Moving ==
    CASE part = "admins" -> <<part, member, proposal, grants, requestVars>>
      [] part = "portal" -> <<part, accessVars, portalVars>>
=============================================================================
