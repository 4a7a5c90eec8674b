---------------------------- MODULE MCPriceDesk ----------------------------
(***************************************************************************)
(* PriceDesk for a stock at 20 in ticks of 2.                              *)
(***************************************************************************)
EXTENDS PriceDesk

CONSTANT h1

TwoForOne == {<<2, 1>>}
BothWays == {<<2, 1>>, <<1, 2>>}
WalkSteps == {-2, 2}
=============================================================================
