----------------------------- MODULE MCScenario -----------------------------
(***************************************************************************)
(* Scenario with the frame of config/scenarios/day1.yaml: the script opens *)
(* the market, and closes it.                                              *)
(***************************************************************************)
EXTENDS Scenario

CONSTANT h1

ADay == << [at |-> 0, does |-> "open"], [at |-> 2, does |-> "close"] >>

\* Bound: a breaker's trip, a crash or a failed tick, and no two of them.
OneUpset == tripped + crashed <= 1
=============================================================================
