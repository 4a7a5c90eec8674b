----------------------------- MODULE Standings -----------------------------
(***************************************************************************)
(* The live board and the final table: equity snapshots                    *)
(* (snapshot_equities in app/engine/market.py), the board of               *)
(* app/engine/valuations.py, and the results with their tie-breaks         *)
(* (app/results.py).  Ticks, orders and closings read the market first and *)
(* commit later, so that a finalise may fall in between.                   *)
(*                                                                         *)
(* A team's book is its worth at the marks, its ledger's true number; how  *)
(* it comes about is left to RiskDesk and TeamBook.  Teams are numbered in *)
(* the order of their registration.  A market that is neither OPEN nor     *)
(* FINAL is CLOSED.                                                        *)
(*                                                                         *)
(* Abstractions: a snapshot reads all books at once; at most one operator  *)
(* closes or finalises at a time; whether a tick still finds the market    *)
(* open once it has moved the prices is not followed (MarketSession does). *)
(***************************************************************************)
EXTENDS Integers, FiniteSets, Sequences, SequencesExt

CONSTANTS NumTeams,
          Opening,      \* rules.starting_capital
          Worths,       \* what a book may be worth
          MaxTrades,    \* bound on a team's fills
          MaxOrders,    \* bound on the orders under way at a time
          MaxSnapshots, \* bound on the snapshots
          Acts          \* bound on what operators do to teams, or to a finished competition

Teams == 1 .. NumTeams

ASSUME StandingsAssumption ==
  /\ {NumTeams, Opening} \subseteq Nat \ {0} /\ {MaxTrades, MaxOrders, MaxSnapshots, Acts} \subseteq Nat
  /\ Worths \subseteq Int /\ Opening \in Worths

\* A FROZEN team ranks and trades like a DISQUALIFIED one.
Statuses == {"ACTIVE", "BUSTED", "DISQUALIFIED"}
Never == 0

\* Who takes snapshots.
Procs == {"tick", "operator"}
Other(p) == IF p = "tick" THEN "operator" ELSE "tick"

VARIABLES
  state,      \* OPEN, CLOSED or FINAL
  tick,       \* the tick: idle, pricing or trading
  orders,     \* the teams with an order under way
  older,      \* per process: how many snapshots are older than it
  younger,    \* if both are under way, the process that began last
  writing,    \* per process: the snapshot it has read and will write
  worth,      \* per team: cash and positions at the marks
  status,     \* per team
  busted_at,  \* per team: when the desk busted it, or Never
  trades,     \* per team: its fills
  snapshots,  \* the equity snapshots by their time: a sequence of functions on Teams
  acts,       \* operators' acts so far
  outs,       \* history: the teams the desk busted, in order
  touched     \* history: teams that changed since the last snapshot was read

books == <<worth, status, busted_at, trades, outs>>
ways  == <<older, younger, writing>>
vars  == <<state, tick, orders, ways, books, snapshots, acts, touched>>

\* A process that writes no snapshot.
Nothing == [to |-> "none", book |-> [t \in Teams |-> 0], since |-> {}]

Init ==
  /\ state = "OPEN" /\ tick = "idle" /\ orders = {}
  /\ older = [p \in Procs |-> 0] /\ younger = "tick" /\ writing = [p \in Procs |-> Nothing]
  /\ worth = [t \in Teams |-> Opening] /\ status = [t \in Teams |-> "ACTIVE"]
  /\ busted_at = [t \in Teams |-> Never] /\ trades = [t \in Teams |-> 0]
  /\ snapshots = <<>> /\ acts = 0 /\ outs = <<>> /\ touched = {}

-----------------------------------------------------------------------------
\* The board and the table, as functions of the database.

\* What the board ranks by: a busted team stands at zero.
RankableEquity(t) == IF status[t] = "BUSTED" THEN 0 ELSE worth[t]

Greater(a, b) == IF a > b THEN a ELSE b

\* Mutant: the last fall counts, not the largest.
Scan_LastFall(scan, value) ==
  LET peak == Greater(scan.peak, value)
  IN  [peak |-> peak, worst |-> peak - value]

\* One snapshot more: the peak so far, and the largest fall from a peak.
Scan(scan, value) ==
  LET peak == Greater(scan.peak, value)
  IN  [peak |-> peak, worst |-> Greater(scan.worst, peak - value)]

MaxDrawdown(curve) ==
  LET upTo[i \in DOMAIN curve] ==
        IF i = 1 THEN [peak |-> curve[1], worst |-> 0] ELSE Scan(upTo[i - 1], curve[i])
  IN  upTo[Len(curve)].worst

Curve(t) == [i \in DOMAIN snapshots |-> snapshots[i][t]]

\* Mutant: the book is marked live.
FinalEquity_Live(t) == RankableEquity(t)

\* The last snapshot; a team that has none is marked live.
FinalEquity(t) ==
  IF status[t] = "BUSTED" THEN 0
  ELSE IF snapshots = <<>> THEN worth[t] ELSE Last(snapshots)[t]

Drawdown(t) ==
  MaxDrawdown(<<Opening>> \o IF snapshots = <<>> THEN <<worth[t]>> ELSE Curve(t))

\* Mutant: of two that are still in, the one with fewer trades ranks above.
Key_TradesFirst(t) ==
  LET busted == status[t] = "BUSTED"
  IN  << IF busted THEN 1 ELSE 0, trades[t], -FinalEquity(t), IF busted THEN -busted_at[t] ELSE 0,
         Drawdown(t), t >>

Key(t) ==
  LET busted == status[t] = "BUSTED"
  IN  << IF busted THEN 1 ELSE 0, -FinalEquity(t), IF busted THEN -busted_at[t] ELSE 0,
         Drawdown(t), trades[t], t >>

Precedes(k, l) == \E i \in DOMAIN k : k[i] < l[i] /\ \A j \in 1 .. i - 1 : k[j] = l[j]

Above(t, u) == Precedes(Key(t), Key(u))

Rank(t) == 1 + Cardinality({u \in Teams : Above(u, t)})

\* The final table: everything it says of a team.
Results == [t \in Teams |-> [rank |-> Rank(t), equity |-> FinalEquity(t), drawdown |-> Drawdown(t)]]

-----------------------------------------------------------------------------
\* Snapshots.

Writing(p) == writing[p].to # "none"

UnderWay(p) == (p = "tick" /\ tick # "idle") \/ Writing(p)

\* What becomes of a team after a snapshot was read is not in it.
Touch(ts) ==
  /\ touched' = IF snapshots = <<>> THEN {} ELSE touched \cup ts
  /\ writing' = [p \in Procs |-> IF Writing(p) THEN [writing[p] EXCEPT !.since = @ \cup ts]
                                 ELSE writing[p]]

Board == [t \in Teams |-> RankableEquity(t)]

\* p begins: what it writes will bear this time.
Begins(p) == older' = [older EXCEPT ![p] = Len(snapshots)] /\ younger' = p

Ends(p) == older' = [older EXCEPT ![p] = 0] /\ younger' = Other(p)

\* p reads the books for a snapshot, and has settled on the market's next state.
Read(p, to) ==
  /\ ~Writing(p)
  /\ Len(snapshots) + Cardinality({q \in Procs : Writing(q)}) < MaxSnapshots
  /\ writing' = [writing EXCEPT ![p] = [to |-> to, book |-> Board, since |-> {}]]
  /\ UNCHANGED <<state, orders, books, snapshots, touched>>

\* It commits.
Write(p) ==
  /\ Writing(p) /\ writing' = [writing EXCEPT ![p] = Nothing]
  /\ snapshots' = InsertAt(snapshots, older[p] + 1, writing[p].book)
  /\ older' = [q \in Procs |-> IF q = p THEN 0 ELSE IF UnderWay(q) /\ younger = q THEN older[q] + 1 ELSE older[q]]
  /\ younger' = Other(p)
  /\ state' = IF writing[p].to = "as it is" THEN state ELSE writing[p].to
  /\ touched' = IF older[p] = Len(snapshots) THEN writing[p].since ELSE touched
  /\ UNCHANGED <<orders, books, acts>>

-----------------------------------------------------------------------------
\* The tick.

\* It reads the market's state; on a market that is closed for good, it
\* finalises.
TickBegin ==
  /\ tick = "idle" /\ Begins("tick")
  /\ \/ /\ state = "OPEN" /\ tick' = "pricing"
        /\ UNCHANGED <<state, orders, writing, books, snapshots, touched>>
     \/ state = "CLOSED" /\ tick' = "trading" /\ Read("tick", "FINAL")
  /\ UNCHANGED acts

\* It commits the prices it has moved, or the breaker they have tripped.
TickPrices ==
  /\ tick = "pricing" /\ tick' = "trading"
  /\ worth' \in [Teams -> Worths] /\ Touch({t \in Teams : worth'[t] # worth[t]})
  /\ state' \in {state, "CLOSED"}
  /\ UNCHANGED <<orders, older, younger, status, busted_at, trades, outs, snapshots, acts>>

\* A team trades; what that costs it is too little to tell.
Trade(t) ==
  /\ trades[t] < MaxTrades
  /\ trades' = [trades EXCEPT ![t] = @ + 1]
  /\ Touch({t})
  /\ UNCHANGED <<state, tick, older, younger, worth, status, busted_at, outs, snapshots, acts>>

\* The sweep and the risk desk follow.
Trading == tick = "trading" /\ ~Writing("tick")

\* A resting order fills in the sweep.
SweepFill(t) ==
  /\ Trading /\ status[t] = "ACTIVE" /\ t \notin orders
  /\ Trade(t) /\ UNCHANGED orders

\* The risk desk takes a team out.
Bust(t) ==
  /\ Trading /\ status[t] = "ACTIVE" /\ worth[t] <= 0 /\ t \notin orders
  /\ status' = [status EXCEPT ![t] = "BUSTED"]
  /\ outs' = Append(outs, t) /\ busted_at' = [busted_at EXCEPT ![t] = Len(outs')]
  /\ Touch({t})
  /\ UNCHANGED <<state, tick, orders, older, younger, worth, trades, snapshots, acts>>

\* The last transaction of a tick reads a snapshot when one is due, whatever
\* has become of the market, or closes the day; it bears the time at which the
\* tick began.
TickRead ==
  /\ Trading
  /\ \E to \in {"as it is", "CLOSED"} : (to = "CLOSED" => state = "OPEN") /\ Read("tick", to)
  /\ UNCHANGED <<tick, older, younger, acts>>

TickEnd ==
  /\ tick = "trading" /\ tick' = "idle"
  /\ IF Writing("tick") THEN Write("tick")
     ELSE Ends("tick") /\ UNCHANGED <<state, orders, writing, books, snapshots, acts, touched>>

-----------------------------------------------------------------------------
\* Orders.

\* An order reads the market's state and the team's status ...
OrderBegin(t) ==
  /\ state = "OPEN" /\ status[t] = "ACTIVE" /\ t \notin orders
  /\ trades[t] < MaxTrades /\ Cardinality(orders) < MaxOrders
  /\ orders' = orders \cup {t}
  /\ UNCHANGED <<state, tick, ways, books, snapshots, acts, touched>>

\* ... and fills, or does not.
OrderEnd(t) ==
  /\ t \in orders /\ orders' = orders \ {t}
  /\ \/ Trade(t)
     \/ UNCHANGED <<state, tick, ways, books, snapshots, acts, touched>>

-----------------------------------------------------------------------------
\* Operators.

Act == acts < Acts /\ acts' = acts + 1

\* A market that is CLOSED opens again; anything but a finished one is stopped
\* at will.
Reopen ==
  /\ state = "CLOSED" /\ state' = "OPEN"
  /\ UNCHANGED <<tick, orders, ways, books, snapshots, acts, touched>>

Stop ==
  /\ state # "CLOSED" /\ state' = "CLOSED"
  /\ IF state = "FINAL" THEN Act ELSE UNCHANGED acts
  /\ UNCHANGED <<tick, orders, ways, books, snapshots, touched>>

\* close_day and finalise, which an administrator may ask for in any state.
CloseBegin(to) ==
  /\ Begins("operator") /\ Read("operator", to)
  /\ IF state = "FINAL" THEN Act ELSE UNCHANGED acts
  /\ UNCHANGED tick

CloseEnd == Write("operator") /\ UNCHANGED tick

\* The status of a team is whatever an administrator says.
SetTeamStatus(t, s) ==
  /\ Act /\ status[t] # s
  /\ status' = [status EXCEPT ![t] = s] /\ Touch({t})
  /\ UNCHANGED <<state, tick, orders, older, younger, worth, busted_at, trades, outs, snapshots>>

\* An approved adjustment, or the undoing of a price: the book is worth
\* something else, in any state of the market.
Correct(t, w) ==
  /\ Act /\ worth[t] # w
  /\ worth' = [worth EXCEPT ![t] = w] /\ Touch({t})
  /\ UNCHANGED <<state, tick, orders, older, younger, status, busted_at, trades, outs, snapshots>>

ResetTrading ==
  /\ Act /\ state # "OPEN" /\ state' = "CLOSED"
  /\ worth' = [t \in Teams |-> Opening] /\ status' = [t \in Teams |-> "ACTIVE"]
  /\ busted_at' = [t \in Teams |-> Never] /\ trades' = [t \in Teams |-> 0]
  /\ snapshots' = <<>> /\ outs' = <<>> /\ Touch(Teams)
  /\ older' = [p \in Procs |-> 0] /\ UNCHANGED <<tick, orders, younger>>

Next ==
  \/ TickBegin \/ TickPrices \/ TickRead \/ TickEnd
  \/ Reopen \/ Stop \/ CloseEnd \/ ResetTrading
  \/ \E to \in {"CLOSED", "FINAL"} : CloseBegin(to)
  \/ \E t \in Teams :
       \/ SweepFill(t) \/ Bust(t) \/ OrderBegin(t) \/ OrderEnd(t)
       \/ \E s \in Statuses : SetTeamStatus(t, s)
       \/ \E w \in Worths : Correct(t, w)

Spec == Init /\ [][Next]_vars

-----------------------------------------------------------------------------
\* The falls of a team: from a moment of its curve to a later one.
Falls(t) ==
  LET curve == <<Opening>> \o IF snapshots = <<>> THEN <<worth[t]>> ELSE Curve(t)
  IN  {curve[p[1]] - curve[p[2]] : p \in {q \in (DOMAIN curve) \X (DOMAIN curve) : q[1] <= q[2]}}
Steadier(t, u) == \E fall \in Falls(u) : \A own \in Falls(t) : fall > own

\* The desk took u out, and then t.
Outlasted(t, u) ==
  /\ \E i \in DOMAIN outs : outs[i] = u
  /\ \E i \in DOMAIN outs : outs[i] = t /\ \A j \in DOMAIN outs : outs[j] = u => j < i

\* Who ranks above whom (rulebook, rules 11, 22 and 23): a team that is still
\* in above one that is out, the one that lasted longer above the other, then
\* account value, then the lower drawdown, then fewer trades.
Beats(t, u) ==
  CASE status[t] # "BUSTED" /\ status[u] = "BUSTED" -> TRUE
    [] status[t] = "BUSTED" /\ status[u] = "BUSTED" -> Outlasted(t, u)
    [] status[t] = "BUSTED" /\ status[u] # "BUSTED" -> FALSE
    [] OTHER ->
         \/ FinalEquity(t) > FinalEquity(u)
         \/ FinalEquity(t) = FinalEquity(u) /\ Steadier(t, u)
         \/ /\ FinalEquity(t) = FinalEquity(u) /\ ~Steadier(t, u) /\ ~Steadier(u, t)
            /\ trades[t] < trades[u]

\* The final table ranks the teams as the rulebook says, whatever trades, busts and
\* reinstatements led to it.
TableFollowsRulebook ==
  state = "FINAL" => \A t, u \in Teams : t # u /\ Beats(t, u) => Above(t, u)

\* Every process under way began before the last snapshot.
Old == \A p \in Procs : UnderWay(p) => older[p] < Len(snapshots)

Quiet == orders = {} /\ \A p \in Procs : ~UnderWay(p)

\* "Final standings are locked" (market.py, finalise): in a finished
\* competition an account value of the table moves only with a team's status,
\* or by a tick or a finalise that began after the last snapshot; and nothing
\* of the table moves once the orders, the tick and the finalise that were
\* under way have ended.  Corrections come too late.
TableIsLocked ==
  [][state = "FINAL" /\ state' = "FINAL" /\ status' = status
       => /\ Old => \A t \in Teams : FinalEquity(t)' = FinalEquity(t)
          /\ Quiet => Results' = Results]_vars

\* The table of a finished competition does not contradict the live board, for
\* teams that are still in and that nothing has touched since the last
\* snapshot was read: no order or tick under way, no operator.
TableAgreesWithBoard ==
  state = "FINAL" =>
    \A t, u \in Teams \ touched :
      status[t] # "BUSTED" /\ status[u] # "BUSTED" /\ RankableEquity(t) > RankableEquity(u)
        => Above(t, u)

\* "This locks the results permanently" (admin.py, finalise_market): while no
\* operator acts on a finished competition, its table stays.  It does not
\* hold: an order under way at the finalise fills after it.
ResultsAreLocked ==
  [][state = "FINAL" /\ state' = "FINAL" /\ acts' = acts => Results' = Results]_vars

\* "The results cannot disagree with the live leaderboard" (results.py), as
\* long as no operator acts on teams or on a finished competition.  It does
\* not hold: a tick under way at the finalise commits its prices after it.
ResultsAgree ==
  state = "FINAL" /\ acts = 0 =>
    \A t, u \in Teams :
      status[t] # "BUSTED" /\ status[u] # "BUSTED" /\ RankableEquity(t) > RankableEquity(u)
        => Above(t, u)
=============================================================================
