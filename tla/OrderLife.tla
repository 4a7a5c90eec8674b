----------------------------- MODULE OrderLife -----------------------------
(***************************************************************************)
(* What the exchange promises about one order, however often a phone sends *)
(* it: it is accepted or rejected once, fills its quantity at most, a      *)
(* triggered stop stays triggered, and nothing happens to it after it is   *)
(* filled, cancelled or rejected.  OrderBook is the detailed specification.*)
(***************************************************************************)
EXTENDS Integers

CONSTANT Qty    \* the shares ordered

VARIABLES life, \* NEW, or the status of the order
          done  \* shares filled

vars == <<life, done>>

Init == life = "NEW" /\ done = 0

\* n more shares (perhaps none); the order stays in s unless that fills it.
Fill(n, s) ==
  /\ done + n <= Qty
  /\ done' = done + n
  /\ life' = IF done' = Qty THEN "FILLED" ELSE s

Reject  == life = "NEW" /\ life' = "REJECTED" /\ done' = done
Work    == \E n \in 0 .. Qty :
             \/ life \in {"NEW", "PENDING"} /\ Fill(n, "PENDING")
             \/ life \in {"NEW", "PENDING", "TRIGGERED"} /\ Fill(n, "TRIGGERED")
Cancel  == life \in {"PENDING", "TRIGGERED"} /\ life' = "CANCELLED" /\ done' = done

Next == Reject \/ Work \/ Cancel

Spec == Init /\ [][Next]_vars
=============================================================================
