---------------------------- MODULE MCOrderBook ----------------------------
(***************************************************************************)
(* OrderBook on a small instance: a limit of two shares, a stop, and a     *)
(* market order.                                                           *)
(***************************************************************************)
EXTENDS OrderBook, TLC

CONSTANTS c1, c2, c3, p1, p2

OneOfEach == c1 :> "LIMIT" @@ c2 :> "SL_L" @@ c3 :> "MARKET"
TwoOneOne == c1 :> 2 @@ c2 :> 1 @@ c3 :> 1

PhoneSymmetry == Permutations({p1, p2})
=============================================================================
