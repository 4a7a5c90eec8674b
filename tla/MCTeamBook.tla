----------------------------- MODULE MCTeamBook -----------------------------
(***************************************************************************)
(* TeamBook on small instances: which handlers run is chosen in each .cfg. *)
(***************************************************************************)
EXTENDS TeamBook, TLC

CONSTANTS t1, t2, p1, p2, p3, a1

MCFillDeltas  == {-2, 1}
MCCoverDeltas == {-3}
MCDividends   == {-1, 1}
MCAdjTeam     == a1 :> t1
MCAdjAmount   == a1 :> 2

ProcSymmetry == Permutations({p1, p2, p3})
=============================================================================
