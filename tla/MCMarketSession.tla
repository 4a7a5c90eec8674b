--------------------------- MODULE MCMarketSession ---------------------------
(***************************************************************************)
(* MarketSession on short days, Grain moments to a second.                 *)
(***************************************************************************)
EXTENDS MarketSession

CONSTANT h1

Unlimited == Unbounded
=============================================================================
