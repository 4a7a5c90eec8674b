----------------------------- MODULE MCRiskDesk -----------------------------
(***************************************************************************)
(* RiskDesk on small books.                                                *)
(***************************************************************************)
EXTENDS RiskDesk, TLC

CONSTANTS a, b

TwoShorts    == [cash |-> 2400, qty |-> a :> -10 @@ b :> -8, avg |-> a :> 100 @@ b :> 100]
OneShort     == [cash |-> 130, qty |-> a :> -10, avg |-> a :> 10]
=============================================================================
