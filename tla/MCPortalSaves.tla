--------------------------- MODULE MCPortalSaves ---------------------------
(***************************************************************************)
(* Instances of PortalSaves for TLC.                                       *)
(***************************************************************************)
EXTENDS PortalSaves, TLC

CONSTANTS p1, p2, boss, amy, bob, c1, c2

\* A window of the administrator and one of a partner.
BothUsers == (p1 :> boss) @@ (p2 :> amy)
OneUser   == (p1 :> boss)
\* The partner has a case, and submits another.
AmysCase  == (c1 :> amy)
AmysDraft == (c2 :> p2)
NoDraft   == [c \in {} |-> p1]
=============================================================================
