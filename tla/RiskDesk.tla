------------------------------ MODULE RiskDesk ------------------------------
(***************************************************************************)
(* One team's book under the tick loop: prices move, the sweep works the   *)
(* resting orders, the risk desk (app/engine/riskdesk.py) values every     *)
(* book, and then covers the shorts of a team in margin call under its     *)
(* lock; members trade in between (app/engine/matching.py, check_funds).   *)
(*                                                                         *)
(* Abstractions: one order fills at one price, Spread away from the last;  *)
(* charges are Charge per share; stocks at the top of their band are at    *)
(* the upper circuit, where nobody can buy; members' orders fill at once,  *)
(* so the orders that rest are the forced ones that could not fill.        *)
(***************************************************************************)
EXTENDS Funds

CONSTANTS Opening,   \* the book the day starts with
          Prices,    \* prices a stock may have; its band is their range
          Spread,    \* half the quoted spread
          Charge,    \* charges per share
          Lots,      \* quantities members order
          MaxTicks,  \* bound on the ticks
          MaxTrades  \* bound on the members' orders

ASSUME DeskAssumption ==
  /\ Prices \subseteq Nat \ {0} /\ Lots \subseteq Nat \ {0}
  /\ {Spread, Charge, MaxTicks, MaxTrades} \subseteq Nat
  /\ Opening \in [cash : Int, qty : [Stocks -> Int], avg : [Stocks -> Prices]]

VARIABLES
  book,    \* the team's cash and positions
  team,    \* its status
  px,      \* instruments.last_price
  halted,  \* instruments that are halted
  resting, \* forced orders that did not fill: [s, n], PENDING, by age
  phase,   \* where the tick is
  flagged, \* the margin state the bulk valuation gave the team
  ticks, trades

vars == <<book, team, px, halted, resting, phase, flagged, ticks, trades>>

Top    == CHOOSE p \in Prices : \A q \in Prices : q <= p
Bottom == CHOOSE p \in Prices : \A q \in Prices : p <= q

Init ==
  /\ book = Opening /\ team = "ACTIVE"
  /\ px = Opening.avg
  /\ halted = {} /\ resting = <<>>
  /\ phase = "prices" /\ flagged = "OK"
  /\ ticks = 0 /\ trades = 0

-----------------------------------------------------------------------------
\* pricing.side_allowed and quote_for.
SideAllowed(s, side) ==
  /\ s \notin halted
  /\ px[s] = Top => side = "SELL"
  /\ px[s] = Bottom => side = "BUY"

FillPrice(s, side) == px[s] + Sign(side) * Spread

\* Mutant: only the cash is checked, not the collateral of a short.
Affordable_CashOnly(b, s, side, n) ==
  b.cash - Sign(side) * FillPrice(s, side) * n - Charge * n >= 0

Affordable(b, s, side, n) ==
  ProjectAvailable(b, px, s, side, n, FillPrice(s, side), Charge * n) >= 0

Filled(b, s, side, n) == Fill(b, s, side, n, FillPrice(s, side), Charge * n)

\* A member's market order: it fills in full or is rejected.
Trade(s, side, n) ==
  /\ trades < MaxTrades
  /\ team = "ACTIVE" /\ SideAllowed(s, side) /\ Affordable(book, s, side, n)
  /\ book' = Filled(book, s, side, n)
  /\ trades' = trades + 1
  /\ UNCHANGED <<team, px, halted, resting, phase, flagged, ticks>>

\* The tape moves; operators halt and resume stocks.  A halted price stands.
Tape ==
  /\ phase = "prices" /\ ticks < MaxTicks
  /\ ticks' = ticks + 1 /\ phase' = "sweep"
  /\ halted' \in SUBSET Stocks
  /\ px' \in [Stocks -> Prices]
  /\ \A s \in halted' : px'[s] = px[s]
  /\ UNCHANGED <<book, team, resting, flagged, trades>>

\* The sweep works the resting orders of an active team in turn: one fills
\* when its side is allowed and the funds check passes, is cancelled when it
\* does not, and rests otherwise.
WorkLeg(acc, o) ==
  IF ~SideAllowed(o.s, "BUY") THEN [acc EXCEPT !.rest = Append(@, o)]
  ELSE IF Affordable(acc.book, o.s, "BUY", o.n) THEN [acc EXCEPT !.book = Filled(@, o.s, "BUY", o.n)]
  ELSE acc

Work(b, orders) == FoldLeft(WorkLeg, [book |-> b, rest |-> <<>>], orders)

Sweep ==
  LET done == Work(book, resting)
  IN  /\ phase = "sweep"
      /\ phase' = "scan"
      /\ IF team = "ACTIVE" THEN book' = done.book /\ resting' = done.rest
                            ELSE UNCHANGED <<book, resting>>
      /\ UNCHANGED <<team, px, halted, flagged, ticks, trades>>

\* The bulk valuation; a team without shorts or out of the game is skipped.
Scan ==
  /\ phase = "scan"
  /\ flagged' = IF team = "ACTIVE" /\ Shorts(book) # {} THEN MarginState(book, px) ELSE "OK"
  /\ phase' = IF flagged' \in {"CALL", "BUST"} THEN "act" ELSE "prices"
  /\ UNCHANGED <<book, team, px, halted, resting, ticks, trades>>

\* The forced orders of a plan: a leg in a halted stock is skipped, one at
\* the circuit rests as a working order, any other fills without a check.
CoverLeg(acc, o) ==
  IF o.s \in halted THEN acc
  ELSE IF ~SideAllowed(o.s, "BUY") THEN [acc EXCEPT !.rest = Append(@, o)]
  ELSE [acc EXCEPT !.book = Filled(@, o.s, "BUY", o.n)]

Cover(b, legs) == FoldLeft(CoverLeg, [book |-> b, rest |-> <<>>], legs)

\* Mutant: the first position that cannot be traded ends the closing.
SquareOff_Breaks(b) ==
  IF halted # {} THEN b
  ELSE FoldLeft(LAMBDA acc, s : IF acc.qty[s] = 0 THEN acc
                                ELSE Filled(acc, s, IF acc.qty[s] > 0 THEN "SELL" ELSE "BUY", Abs(acc.qty[s])),
                b, SetToSeq(Stocks))

\* _bust_team: every position it can trade is closed at market.
CloseLeg(acc, s) ==
  LET side == IF acc.qty[s] > 0 THEN "SELL" ELSE "BUY"
  IN  IF acc.qty[s] # 0 /\ SideAllowed(s, side) THEN Filled(acc, s, side, Abs(acc.qty[s])) ELSE acc

SquareOff(b) == FoldLeft(CloseLeg, b, SetToSeq(Stocks))

\* Mutant: the desk trusts the valuation that flagged the team, and buys
\* back its shorts.
Liquidate_Flagged ==
  /\ phase = "act"
  /\ phase' = "prices"
  /\ book' = SquareOff(book)
  /\ UNCHANGED <<team, px, halted, resting, flagged, ticks, trades>>

\* _liquidate_team, under the team lock: value again, cover, perhaps bust.
Liquidate ==
  /\ phase = "act"
  /\ phase' = "prices"
  /\ LET covered == Cover(book, LiquidationPlan(book, px))
     IN  IF team # "ACTIVE" \/ MarginState(book, px) \notin {"CALL", "BUST"}
         THEN UNCHANGED <<book, team, resting>>
         ELSE IF Equity(covered.book, px) <= 0
              THEN /\ book' = SquareOff(covered.book)
                   /\ team' = "BUSTED" /\ resting' = <<>>
              ELSE /\ book' = covered.book
                   /\ resting' = resting \o covered.rest
                   /\ UNCHANGED team
  /\ UNCHANGED <<px, halted, flagged, ticks, trades>>

Next ==
  \/ \E s \in Stocks, side \in {"BUY", "SELL"}, n \in Lots : Trade(s, side, n)
  \/ Tape \/ Sweep \/ Scan \/ Liquidate

Spec == Init /\ [][Next]_vars

-----------------------------------------------------------------------------
\* At the marks, what is left short is covered by LiquidatePct of equity.
BuyAtMark(acc, o) == Fill(acc, o.s, "BUY", o.n, px[o.s], 0)
AfterPlan(b, legs) == FoldLeft(BuyAtMark, b, legs)
Buffered(b) == 100 * Equity(b, px) >= LiquidatePct * ShortMV(b, px) \/ Shorts(b) = {}

\* The plan restores the buffer, or buys back every short, and "only as much
\* as it takes" (docs/margin.md): a share less in its last leg would not do.
PlanIsExact ==
  LET plan  == LiquidationPlan(book, px)
      short == [plan EXCEPT ![Len(plan)].n = @ - 1]
  IN  /\ MarginState(book, px) = "CALL" => Buffered(AfterPlan(book, plan))
      /\ plan # <<>> => ~Buffered(AfterPlan(book, short))

\* Whatever was projected for an order is what its fill leaves: the funds
\* check, the position arithmetic and the valuation agree.
ProjectionIsExact ==
  \A s \in Stocks, side \in {"BUY", "SELL"}, n \in Lots :
    ProjectAvailable(book, px, s, side, n, FillPrice(s, side), Charge * n)
      = Available(Filled(book, s, side, n), px)

\* No order a member may place puts the team in margin call or below zero,
\* whatever state its book was in; a team may only end with nothing at all.
TradeIsSafe ==
  [][trades' # trades =>
       MarginState(book', px) = "OK" \/ (Shorts(book') = {} /\ Equity(book', px) = 0)]_vars

\* The desk acts on the book it finds under the lock, not on the valuation
\* that called it: a team that has covered in the meantime is left alone, and
\* covering never turns a short into a long.
CoverIsDue ==
  [][(phase = "act" /\ book' # book /\ trades' = trades) =>
       /\ MarginState(book, px) \in {"CALL", "BUST"}
       /\ \A s \in Stocks : Abs(book'.qty[s]) <= Abs(book.qty[s]) /\ book'.qty[s] * book.qty[s] >= 0]_vars

\* A team that goes bust keeps only what nobody could trade at that moment
\* (docs/margin.md: "everything is closed").
BustKeepsOnlyStuck ==
  [][team' # team => \A s \in Stocks :
       /\ book'.qty[s] > 0 => ~SideAllowed(s, "SELL")
       /\ book'.qty[s] < 0 => ~SideAllowed(s, "BUY")]_vars

\* A forced cover never buys more than the short (docs/margin.md: the desk
\* "buys back only as much as it takes").
SweepKeepsShort ==
  [][phase = "sweep" => \A s \in Stocks : book'.qty[s] > 0 => book.qty[s] > 0]_vars

=============================================================================
