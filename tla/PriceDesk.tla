----------------------------- MODULE PriceDesk -----------------------------
(***************************************************************************)
(* The price of one stock: the tick that applies the operators' price      *)
(* actions and walks the price (app/engine/market.py, pricing.py), and the *)
(* operators' price desk (app/routers/admin.py): move, jump, volatility,   *)
(* halt, resume, suspend, band, undo, dividend, split.                     *)
(*                                                                         *)
(* A tick and a request are each one transaction: it reads the stock and   *)
(* the actions, computes, and commits the columns it changed.  Nothing     *)
(* locks the stock, so what was read may be stale at the commit.           *)
(*                                                                         *)
(* Prices are whole numbers of a unit, Unit of them to a tick of the price *)
(* grid.  The random walk is a choice of Walks.  One holder of the stock   *)
(* stands for every position.  The market's state is the environment here: *)
(* MarketSession is its model.                                             *)
(***************************************************************************)
EXTENDS Integers, Sequences

CONSTANTS Handlers,   \* concurrent operator requests
          Unit,       \* units of a tick of the price grid
          SeedPrice, SeedBand, SeedShares,
          Aims,       \* prices operators aim at
          Walks,      \* what the random walk adds in one tick
          Bands,      \* band_pct values
          Dividends, Ratios, \* per share; <<new, old>> shares
          Requests,   \* what operators ask for
          MaxActions, Asks, Days \* bounds on price actions, requests, days started

ASSUME DeskAssumption ==
  /\ Unit \in Nat \ {0} /\ SeedPrice \in Nat \ {0} /\ SeedPrice % Unit = 0
  /\ SeedBand \in Bands /\ Bands \subseteq 1 .. 100
  /\ SeedShares \in Nat /\ Aims \subseteq Nat /\ Walks \subseteq Int
  /\ Dividends \subseteq Nat \ {0} /\ Ratios \subseteq (Nat \ {0}) \X (Nat \ {0})
  /\ Requests \subseteq {"move", "jump", "volatility", "halt", "resume", "suspend", "band",
                         "undo", "dividend", "split", "pre_open"}
  /\ {MaxActions, Asks, Days} \subseteq Nat /\ "tick" \notin Handlers

Procs == Handlers \cup {"tick"}

VARIABLES
  market, \* the market's state, as far as prices depend on it
  stock,  \* the instrument row
  acts,   \* the price actions, in the order they were created
  shares, \* the holder's position
  cash,   \* what dividends paid the holder
  txn,    \* per handler: what it will commit, or None
  asked,  \* requests so far
  days,   \* days started so far
  landed, \* history: per action, how often its target was applied
  loose,  \* history: the price was set without regard to the band since a tick
  corp    \* history: dividends and splits so far

vars == <<market, stock, acts, shares, cash, txn, asked, days, landed, loose, corp>>

None == [by |-> "none"]
Stopped == {"HALTED", "SUSPENDED"}
Circuits == {"UPPER_CIRCUIT", "LOWER_CIRCUIT"}
Columns == {"price", "ref", "status", "vol", "band"}
Worth == cash + shares * stock.price

Init ==
  /\ market = "CLOSED"
  /\ stock = [price |-> SeedPrice, ref |-> SeedPrice, status |-> "ACTIVE", vol |-> 1, band |-> SeedBand]
  /\ acts = <<>> /\ landed = <<>>
  /\ shares = SeedShares /\ cash = 0
  /\ txn = [p \in Procs |-> None]
  /\ asked = 0 /\ days = 0 /\ corp = 0 /\ loose = FALSE

-----------------------------------------------------------------------------
\* Prices.

\* n/d on the price grid, halves up.
RoundToTick(n, d) == Unit * ((2 * n + d * Unit) \div (2 * d * Unit))

Low(s)  == RoundToTick(s.ref * (100 - s.band), 100)
High(s) == RoundToTick(s.ref * (100 + s.band), 100)
AtLeastTick(p) == IF p > Unit THEN p ELSE Unit

\* Mutant: a halt does not hold the price.
ApplyBand_Halted(s, p) ==
  IF p >= High(s) THEN [s EXCEPT !.price = AtLeastTick(High(s)), !.status = "UPPER_CIRCUIT"]
  ELSE IF p <= Low(s) THEN [s EXCEPT !.price = AtLeastTick(Low(s)), !.status = "LOWER_CIRCUIT"]
  ELSE [s EXCEPT !.price = AtLeastTick(p), !.status = "ACTIVE"]

\* Mutant: a price at the lower band is not clamped.
ApplyBand_OneSided(s, p) ==
  IF s.status \in Stopped THEN s
  ELSE IF p >= High(s) THEN [s EXCEPT !.price = AtLeastTick(High(s)), !.status = "UPPER_CIRCUIT"]
  ELSE [s EXCEPT !.price = AtLeastTick(p), !.status = "ACTIVE"]

\* The stock with its price set to p, as far as its status and band allow.
ApplyBand(s, p) ==
  IF s.status \in Stopped THEN s
  ELSE IF p >= High(s) THEN [s EXCEPT !.price = AtLeastTick(High(s)), !.status = "UPPER_CIRCUIT"]
  ELSE IF p <= Low(s) THEN [s EXCEPT !.price = AtLeastTick(Low(s)), !.status = "LOWER_CIRCUIT"]
  ELSE [s EXCEPT !.price = AtLeastTick(p), !.status = "ACTIVE"]

\* Nobody has retired or undone it.
Live(a) == ~a.retired /\ ~a.undone

\* A live action applies its target in this tick.
Lands(a) == a.kind = "JUMP" \/ (a.kind = "MOVE" /\ a.ended)

\* Mutant: a jump stays active.
Retires_NotJumps(a) == a.ended

Retires(a) == a.kind = "JUMP" \/ a.ended

\* Mutant: volatility that is over stays raised.
Effect_StaysRaised(s, a) ==
  CASE Lands(a)              -> ApplyBand(s, RoundToTick(a.aim, 1))
    [] a.kind = "VOLATILITY" -> [s EXCEPT !.vol = a.aim]
    [] OTHER                 -> s

\* What a tick makes of one live action.
Effect(s, a) ==
  CASE Lands(a)              -> ApplyBand(s, RoundToTick(a.aim, 1))
    [] a.kind = "VOLATILITY" -> [s EXCEPT !.vol = IF a.ended THEN 1 ELSE a.aim]
    [] OTHER                 -> s

\* The stock after the live ones among the actions, the oldest first.
Applied(s, actions) ==
  LET after[n \in 0 .. Len(actions)] ==
        IF n = 0 THEN s
        ELSE IF Live(actions[n]) THEN Effect(after[n - 1], actions[n]) ELSE after[n - 1]
  IN  after[Len(actions)]

\* A move that is under way gives the walk a direction, which Walks covers.
Walked(s, step) == IF s.status \in Stopped THEN s ELSE ApplyBand(s, RoundToTick(s.price + step, 1))

-----------------------------------------------------------------------------
\* Transactions.

Unchanged == -1
NoPrice == -1

\* The stock with the columns that a transaction writes.
Written(t) == [c \in Columns |-> IF c \in DOMAIN t.write THEN t.write[c] ELSE stock[c]]

\* A transaction that changes nothing yet.
Blank(by) ==
  [by |-> by, write |-> stock, retire |-> {}, lands |-> {}, undo |-> {}, new |-> <<>>,
   qty |-> Unchanged, paid |-> 0, broken |-> FALSE, market |-> {}, band |-> "as is",
   found |-> stock.status, stale |-> FALSE]

\* p has read and computed; it will write the columns that differ.
Begin(p, plan) ==
  /\ txn[p] = None
  /\ txn' = [txn EXCEPT ![p] = [plan EXCEPT
       !.write = [c \in {c \in Columns : plan.write[c] # stock[c]} |-> plan.write[c]]]]
  /\ UNCHANGED <<market, stock, acts, shares, cash, days, landed, loose, corp>>

\* What the tick loop, or a day's start, makes of a stock that it read before
\* another commit.
Late(t) == /\ t.stale /\ t.by \in {"tick", "pre_open"}
           /\ DOMAIN t.write \cap {"price", "ref", "status"} # {}

\* What the others have read of the stock is stale once p has committed.
Closed(p) ==
  [q \in Procs |-> CASE q = p \/ txn[q] = None -> None
                     [] OTHER -> [txn[q] EXCEPT !.stale = TRUE]]

Commit(p) ==
  LET t == txn[p]
  IN  /\ t # None
      /\ stock' = Written(t)
      /\ acts' = [n \in DOMAIN acts |->
                    [acts[n] EXCEPT !.retired = @ \/ n \in t.retire, !.undone = @ \/ n \in t.undo]]
                 \o t.new
      /\ landed' = [n \in DOMAIN acts |-> landed[n] + IF n \in t.lands THEN 1 ELSE 0]
                   \o [n \in DOMAIN t.new |-> 0]
      /\ shares' = IF t.qty = Unchanged THEN shares ELSE t.qty
      /\ cash' = cash + t.paid
      /\ market' \in t.market \cup IF t.by = "pre_open" THEN {} ELSE {market}
      /\ days' = IF t.by = "pre_open" THEN days + 1 ELSE days
      /\ corp' = IF t.by \in {"dividend", "split"} THEN corp + 1 ELSE corp
      /\ loose' = (t.band = "ignored" \/ Late(t) \/ (loose /\ (t.stale \/ t.band # "applied")))
      /\ txn' = Closed(p)
      /\ UNCHANGED asked

\* An exception: the transaction rolls back, and a tick is tried again.
Abort(p) ==
  /\ txn[p] # None
  /\ txn' = [txn EXCEPT ![p] = None]
  /\ UNCHANGED <<market, stock, acts, shares, cash, asked, days, landed, loose, corp>>

-----------------------------------------------------------------------------
\* Requests of the operators' desk.

Ask(h, k, plan) ==
  /\ k \in Requests /\ asked < Asks
  /\ asked' = asked + 1
  /\ Begin(h, plan)

\* Mutant: it remembers the day's reference instead.
NewAction_Reference(kind, aim, timed) ==
  [kind |-> kind, aim |-> aim, timed |-> timed, ended |-> FALSE, retired |-> FALSE, undone |-> FALSE,
   before |-> IF kind = "VOLATILITY" THEN NoPrice ELSE stock.ref, worth |-> Worth, corp |-> corp]

\* A price action remembers the price it found; worth and corp are history.
NewAction(kind, aim, timed) ==
  [kind |-> kind, aim |-> aim, timed |-> timed, ended |-> FALSE, retired |-> FALSE, undone |-> FALSE,
   before |-> IF kind = "VOLATILITY" THEN NoPrice ELSE stock.price, worth |-> Worth, corp |-> corp]

AddAction(h, k, action) ==
  /\ Len(acts) < MaxActions
  /\ Ask(h, k, [Blank(k) EXCEPT !.new = <<action>>])

PriceMove(h) == \E p \in Aims : AddAction(h, "move", NewAction("MOVE", p, TRUE))
PriceJump(h) == \E p \in Aims : AddAction(h, "jump", NewAction("JUMP", p, FALSE))
PriceVolatility(h) ==
  \E timed \in BOOLEAN : AddAction(h, "volatility", NewAction("VOLATILITY", 2, timed))

HaltInstrument(h)    == Ask(h, "halt", [Blank("halt") EXCEPT !.write.status = "HALTED"])
ResumeInstrument(h)  == Ask(h, "resume", [Blank("resume") EXCEPT !.write.status = "ACTIVE"])
SuspendInstrument(h) == Ask(h, "suspend", [Blank("suspend") EXCEPT !.write.status = "SUSPENDED"])

SetBand(h) ==
  /\ market # "OPEN"
  /\ \E b \in Bands : Ask(h, "band", [Blank("band") EXCEPT !.write.band = b, !.band = "ignored"])

\* The newest action, retired or not; one that found a price puts it back.
UndoPriceAction(h) ==
  \E n \in DOMAIN acts :
    /\ ~acts[n].undone /\ \A m \in DOMAIN acts : m > n => acts[m].undone
    /\ Ask(h, "undo", IF acts[n].before = NoPrice THEN [Blank("undo") EXCEPT !.undo = {n}]
         ELSE [Blank("undo") EXCEPT !.undo = {n}, !.write.price = acts[n].before,
                                    !.write.vol = 1, !.band = "ignored"])

\* Mutant: shorts and longs are paid, and the price stays.
PayDividend_PriceStays(h) ==
  /\ market # "OPEN"
  /\ \E d \in Dividends :
       /\ d < stock.price
       /\ Ask(h, "dividend", [Blank("dividend") EXCEPT !.paid = d * shares])

\* The holder is paid and the price goes ex-dividend.
PayDividend(h) ==
  /\ market # "OPEN"
  /\ \E d \in Dividends :
       LET ex == RoundToTick(stock.price - d, 1)
       IN  /\ d < stock.price
           /\ Ask(h, "dividend", [Blank("dividend") EXCEPT
                !.paid = d * shares, !.write.price = ex, !.write.ref = ex, !.band = "ignored"])

\* new-for-old: the position and every reference price are scaled; what would
\* be a fraction of a share is dropped (broken, which is history).
SplitStock(h) ==
  /\ market # "OPEN"
  /\ \E r \in Ratios :
       Ask(h, "split", [Blank("split") EXCEPT
         !.qty = (shares * r[1]) \div r[2], !.broken = (shares * r[1]) % r[2] # 0,
         !.write.price = RoundToTick(stock.price * r[2], r[1]),
         !.write.ref = RoundToTick(stock.ref * r[2], r[1]), !.band = "ignored"])

\* A day starts: the band is measured from the price, and circuits open.
StartDay ==
  [Blank("pre_open") EXCEPT !.write.ref = stock.price, !.market = {"PRE_OPEN"},
     !.write.status = IF stock.status \in Circuits THEN "ACTIVE" ELSE stock.status]

OperatorStartsDay(h) == days < Days /\ Ask(h, "pre_open", StartDay)

Request(h) ==
  \/ PriceMove(h) \/ PriceJump(h) \/ PriceVolatility(h)
  \/ HaltInstrument(h) \/ ResumeInstrument(h) \/ SuspendInstrument(h) \/ SetBand(h)
  \/ UndoPriceAction(h) \/ PayDividend(h) \/ SplitStock(h) \/ OperatorStartsDay(h)

-----------------------------------------------------------------------------
\* The tick loop.

\* A tick that finds the market before or in its session applies the live
\* actions; in the session it also walks the price.  It may open the market
\* (the pre-open is over) or halt it (the index breaker).
TickPrices ==
  /\ market \in {"PRE_OPEN", "OPEN"}
  /\ \E step \in IF market = "OPEN" THEN Walks ELSE {0} :
       LET applied == Applied(stock, acts)
           after   == IF market = "OPEN" THEN Walked(applied, step) ELSE applied
           live    == {n \in DOMAIN acts : Live(acts[n])}
       IN  Begin("tick", [Blank("tick") EXCEPT
             !.write  = after,
             !.retire = {n \in live : Retires(acts[n])},
             !.lands  = {n \in live : Lands(acts[n])},
             !.market = IF market = "OPEN" THEN {"HALTED"} ELSE {"OPEN"},
             !.band   = IF market = "OPEN" /\ after.status \notin Stopped THEN "applied" ELSE "as is"])
  /\ UNCHANGED asked

TickStartsDay ==
  /\ market = "CLOSED" /\ days < Days
  /\ Begin("tick", StartDay)
  /\ UNCHANGED asked

\* The clock, the breaker's end, or an operator.
MarketMoves ==
  /\ market' \in {"OPEN", "CLOSED"} \ {market}
  /\ UNCHANGED <<stock, acts, shares, cash, txn, asked, days, landed, loose, corp>>

\* The seconds of a move, or of volatility, are over.
Expire(n) ==
  /\ n <= Len(acts) /\ acts[n].timed /\ ~acts[n].ended
  /\ acts' = [acts EXCEPT ![n].ended = TRUE]
  /\ UNCHANGED <<market, stock, shares, cash, txn, asked, days, landed, loose, corp>>

Next ==
  \/ TickPrices \/ TickStartsDay
  \/ \E h \in Handlers : Request(h)
  \/ \E p \in Procs : Commit(p) \/ Abort(p)
  \/ MarketMoves
  \/ \E n \in 1 .. MaxActions : Expire(n)

Spec == Init /\ [][Next]_vars

-----------------------------------------------------------------------------
\* p commits over a stopped stock, and neither ends the stop nor moves the price.
KeepsStop(p) ==
  /\ stock'.status \in Stopped \/ txn[p].by = "resume"
  /\ stock'.price = stock.price \/ txn[p].by \in {"undo", "dividend", "split"}

\* A halted or suspended stock stays so until it is resumed, and meanwhile
\* only an undo or a corporate action touches its price, in whatever order
\* requests and ticks commit; but a tick, or a day's start, that had read the
\* stock before it was stopped overwrites it (market.py, _apply_price_actions:
\* the tick and the desk share no lock).
HaltHolds ==
  [][\A p \in Procs :
       /\ Commit(p) /\ stock.status \in Stopped
       /\ txn[p].found \in Stopped \/ txn[p].by \notin {"tick", "pre_open"}
       => KeepsStop(p)]_vars

\* "A halted stock does not tick" (tests/test_engine.py), not even then.  It
\* does not hold: the tick and the operators share no lock.
HaltedDoesNotTick ==
  [][\A p \in Procs : Commit(p) /\ stock.status \in Stopped => KeepsStop(p)]_vars

\* The price is inside the band, and a circuit tells which edge it is at.
InBand(s) ==
  /\ Low(s) <= s.price /\ s.price <= AtLeastTick(High(s))
  /\ s.status = "UPPER_CIRCUIT" => s.price = AtLeastTick(High(s))
  /\ s.status = "LOWER_CIRCUIT" => s.price = AtLeastTick(Low(s))

\* The price is on the grid.  From a tick of the session that finds the stock
\* trading it is positive and inside the day's band, and a circuit tells which
\* edge it is at (pricing.apply_band; rulebook, rule 14), through days, halts,
\* resumes and failed ticks, until a band is set, an action undone, a dividend
\* paid or the stock split, or a tick or a day's start commits over what
\* another has committed since it read.  A band whose upper edge rounds to
\* nothing gives way, to a price of one tick.
BandHolds ==
  /\ stock.price % Unit = 0 /\ stock.price >= 0
  /\ loose \/ (stock.price > 0 /\ InBand(stock))

\* An action's target is applied at most once, whatever ticks fail, and not
\* after it was undone, unless a tick had read it before (market.py:
\* "one-shot; keeps the row for undo").
LandsOnce ==
  [][\A n \in DOMAIN landed :
       landed'[n] > landed[n] => landed[n] = 0 /\ (~acts[n].undone \/ txn["tick"].stale)]_vars

\* "The price reverts" (runbook): undoing gives the holder back the worth of
\* the moment the action was made, unless the stock has paid a dividend or
\* has split since.
UndoReverts ==
  [][\A h \in Handlers, n \in DOMAIN acts :
       /\ Commit(h) /\ ~txn[h].stale /\ n \in txn[h].undo
       /\ acts[n].kind # "VOLATILITY" /\ acts[n].corp = corp
       => Worth' = acts[n].worth]_vars

\* ... and without the condition.
UndoAlwaysReverts ==
  [][\A h \in Handlers, n \in DOMAIN acts :
       /\ Commit(h) /\ ~txn[h].stale /\ n \in txn[h].undo
       /\ acts[n].kind # "VOLATILITY"
       => Worth' = acts[n].worth]_vars

\* A dividend and a split leave a holder's account where it was, but for the
\* price grid, half a tick a share, and a share that a split has broken.
CorporateActionsAreNeutral ==
  [][\A h \in Handlers :
       /\ Commit(h) /\ ~txn[h].stale /\ txn[h].by \in {"dividend", "split"}
       => LET moved == Worth' - Worth
          IN  /\ 2 * moved <= Unit * shares'
              /\ -2 * moved <= Unit * shares' + IF txn[h].broken THEN 2 * stock'.price + Unit ELSE 0]_vars

\* Raised volatility ends with the actions that raised it, unless one was undone.
VolatilityEnds ==
  stock.vol > 1 => \E n \in DOMAIN acts : acts[n].kind = "VOLATILITY" /\ (Live(acts[n]) \/ acts[n].undone)
=============================================================================
