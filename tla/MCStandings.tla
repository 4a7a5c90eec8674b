---------------------------- MODULE MCStandings ----------------------------
(***************************************************************************)
(* Standings with two teams, whose books are worth 1 at the opening and    *)
(* may fall below zero.                                                    *)
(***************************************************************************)
EXTENDS Standings

SmallBooks == {-1, 1}
=============================================================================
