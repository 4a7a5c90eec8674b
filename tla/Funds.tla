------------------------------- MODULE Funds -------------------------------
(***************************************************************************)
(* The margin arithmetic (app/risk.py, and the position arithmetic of      *)
(* app/engine/matching.py), as functions of a book: cash, signed positions *)
(* and their average costs, all whole numbers of a currency unit.  A       *)
(* comparison with a percentage is multiplied out, so nothing is rounded;  *)
(* what the code calls available is here a hundred times that (Available). *)
(***************************************************************************)
EXTENDS Integers, FiniteSetsExt, SequencesExt

CONSTANTS Stocks,
          InitialPct, MaintenancePct, WarningPct, LiquidatePct \* MarginRules

\* The leverage cap and the liquidation plan divide by their percentages.
ASSUME MarginAssumption ==
  /\ IsFiniteSet(Stocks)
  /\ {MaintenancePct, WarningPct} \subseteq Nat /\ {InitialPct, LiquidatePct} \subseteq Nat \ {0}
  /\ MaintenancePct <= WarningPct /\ WarningPct <= LiquidatePct /\ LiquidatePct <= InitialPct

\* A book: [cash, qty : Stocks -> Int, avg : Stocks -> Nat].  m: the marks.
LongOf(n)  == IF n > 0 THEN n ELSE 0
ShortOf(n) == IF n < 0 THEN -n ELSE 0
Total(f)   == MapThenSumSet(LAMBDA s : f[s], Stocks)
LongMV(b, m)  == Total([s \in Stocks |-> m[s] * LongOf(b.qty[s])])
ShortMV(b, m) == Total([s \in Stocks |-> m[s] * ShortOf(b.qty[s])])

Equity(b, m)    == b.cash + LongMV(b, m) - ShortMV(b, m)
Available(b, m) == 100 * b.cash - (100 + InitialPct) * ShortMV(b, m)

MarginState(b, m) ==
  LET below(pct) == ShortMV(b, m) > 0 /\ 100 * Equity(b, m) < pct * ShortMV(b, m)
  IN  IF Equity(b, m) <= 0 THEN "BUST"
      ELSE IF below(MaintenancePct) THEN "CALL"
      ELSE IF below(WarningPct) THEN "WARNING" ELSE "OK"

Sign(side) == IF side = "BUY" THEN 1 ELSE -1
Abs(n) == IF n < 0 THEN -n ELSE n

\* Mutant: the new short is valued at the fill price instead of the mark.
ProjectAvailable_AtPrice(b, m, s, side, n, price, fees) ==
  LET cash  == b.cash - Sign(side) * price * n - fees
      short == ShortMV(b, m) + price * (ShortOf(b.qty[s] + Sign(side) * n) - ShortOf(b.qty[s]))
  IN  100 * cash - (100 + InitialPct) * short

\* Available funds after a hypothetical fill.
ProjectAvailable(b, m, s, side, n, price, fees) ==
  LET cash  == b.cash - Sign(side) * price * n - fees
      short == ShortMV(b, m) + m[s] * (ShortOf(b.qty[s] + Sign(side) * n) - ShortOf(b.qty[s]))
  IN  100 * cash - (100 + InitialPct) * short

\* Rounding half up, as the storage grid does.
DivHalfUp(n, d) == (2 * n + d) \div (2 * d)

\* apply_position_delta: opening or adding averages the cost, reducing keeps
\* it, flipping through zero reopens at the fill price.
AvgAfter(old, avg, side, n, price) ==
  LET new == old + Sign(side) * n
  IN  IF new = 0 THEN 0
      ELSE IF old = 0 \/ (old > 0) = (side = "BUY")
           THEN DivHalfUp(avg * Abs(old) + price * n, Abs(old) + n)
      ELSE IF n <= Abs(old) THEN avg ELSE price

\* execute_fill, on the book.
Fill(b, s, side, n, price, fees) ==
  [cash |-> b.cash - Sign(side) * price * n - fees,
   qty  |-> [b.qty EXCEPT ![s] = @ + Sign(side) * n],
   avg  |-> [b.avg EXCEPT ![s] = AvgAfter(b.qty[s], @, side, n, price)]]

\* The shorts, worst loser first.
Shorts(b) == {s \in Stocks : b.qty[s] < 0}
Loss(b, m, s) == (m[s] - b.avg[s]) * Abs(b.qty[s])
ByLoss(b, m)  ==
  CHOOSE order \in SetToSeqs(Shorts(b)) :
    \A i, j \in DOMAIN order : i < j => Loss(b, m, order[i]) >= Loss(b, m, order[j])

\* Mutant: rounding up what is whole already.
CeilDiv_OneMore(n, d) == n \div d + 1

CeilDiv(n, d) == (n + d - 1) \div d

\* liquidation_plan: shares of each short to buy back, in order, until the
\* equity is again LiquidatePct of the short exposure that is left.
PlanLeg(b, m, acc, s) ==
  LET needed == CeilDiv(LiquidatePct * acc.left - 100 * Equity(b, m), LiquidatePct * m[s])
      n == IF needed < Abs(b.qty[s]) THEN needed ELSE Abs(b.qty[s])
  IN  IF acc.left <= 0 \/ 100 * Equity(b, m) >= LiquidatePct * acc.left \/ m[s] <= 0 THEN acc
      ELSE [left |-> acc.left - m[s] * n, legs |-> Append(acc.legs, [s |-> s, n |-> n])]

LiquidationPlan(b, m) ==
  LET leg(acc, s) == PlanLeg(b, m, acc, s)
  IN  FoldLeft(leg, [left |-> ShortMV(b, m), legs |-> <<>>], ByLoss(b, m)).legs
=============================================================================
