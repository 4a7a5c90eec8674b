------------------------------ MODULE Calendar ------------------------------
(***************************************************************************)
(* What the rulebook promises of the competition: trading days one after   *)
(* the other, each with a pre-open, a session and a close, and an end      *)
(* that is final.  MarketSession is the detailed specification.            *)
(***************************************************************************)
EXTENDS Integers

CONSTANT TotalDays

VARIABLES day, stage

vars == <<day, stage>>

Init == day = 1 /\ stage = "PRE_OPEN"

Open  == stage = "PRE_OPEN" /\ stage' = "OPEN" /\ day' = day
Close == stage = "OPEN" /\ stage' = "CLOSED" /\ day' = day

StartDay ==
  /\ stage = "CLOSED" /\ day < TotalDays
  /\ stage' = "PRE_OPEN" /\ day' = day + 1

Finalise ==
  /\ stage = "CLOSED" /\ day = TotalDays
  /\ stage' = "FINAL" /\ day' = day

Next == Open \/ Close \/ StartDay \/ Finalise

Spec == Init /\ [][Next]_vars
=============================================================================
