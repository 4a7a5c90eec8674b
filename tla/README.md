# A formal model of the mock stock terminal

TLA+ modules, TLC configurations and machine-checked proofs about the exchange
in `src/`: a FastAPI service with one asyncio process, a PostgreSQL/SQLite
database, a tick loop, and browser terminals.

Run from this directory: `tlc -config MarketCrash.cfg MCMarketSession.tla`
checks a run, `tlapm MarketProofs.tla` the proofs of a module. `PROJECT.json` lists the
runs, the source lines behind every definition, the hazards and the theorems.

## 1. The system

| Component | State | Operations | Source |
|---|---|---|---|
| Team money | `teams.cash` (a cache), `ledger` rows, adjustments, a per-team `asyncio.Lock`, the research cooldowns | order fill, forced cover, research purchase, adjustment, borrow fee, dividend, reset | `app/db.py`, `app/engine/matching.py`, `app/engine/riskdesk.py`, `app/routers/trading.py`, `app/routers/admin.py` |
| Market state machine | the row of `market_state`: state, day, deadline, frozen seconds, breaker deadline | pre-open, open, close, halt, freeze, resume, finalise, reset, the tick, `recover` | `app/engine/market.py`, `app/routers/admin.py` |
| Order book | `orders` rows | place, resend, cancel, sweep, cancel-all at a close, a suspension, a split | `app/engine/matching.py`, `app/engine/market.py`, `app/routers/trading.py` |
| Margin and risk desk | `positions`, team status | valuation, funds check, fill, liquidation plan, forced cover, bust | `app/risk.py`, `app/engine/riskdesk.py` |
| Live stream | connection queues and writer tasks; the terminal's socket, timer and poll | publish, snapshot, reconnect, poll | `app/ws.py`, `app/routers/stream.py`, `web/static/js/stream.js` |
| Price engine | instrument prices, status, circuits; active price actions; index | walk, price actions, undo, band, halts | `app/engine/pricing.py`, `app/engine/market.py`, `app/routers/admin.py` |
| Scenarios | `scenarios`, `scenario_steps`: status, start, counted pauses, fired and skipped steps | play, pause, skip, manual fire, the due steps of a tick | `app/engine/market.py`, `app/routers/admin.py` |
| Corporate actions | prices, positions, cash | dividend, split | `app/routers/admin.py` |
| Fees, rounding | none | itemised charges, half-up rounding | `app/fees.py`, `app/money.py` |
| Results | `equity_snapshots`, team status and `busted_at`; the live board in memory | snapshot, board, final table with tie-breaks, awards | `app/results.py`, `app/engine/valuations.py`, `app/engine/market.py` |
| Sign-in | token version, refresh cookie, access token; the page's own copies | sign in, refresh, log out, reset a password, open a socket | `app/security.py`, `app/routers/auth.py`, `web/static/js/api.js`, `web/static/js/terminal.js` |
| Rate limits | one window of attempts per key | check, clear | `app/security.py` |
| Rest | none that others depend on | AI drafts, read endpoints, seed and import scripts, rendering | `app/ai.py`, `app/routers/public.py`, `scripts/`, `web/` |

How they meet. The tick loop runs one transaction that moves prices, the index
and the state machine; then, if that transaction found the market open, it
sweeps the working orders team by team and runs the risk desk, each under the
team's lock and in a transaction of its own; a last transaction publishes and
advances the session clock. Members' requests take the team lock. Operators'
requests change the market row, instruments and, for dividends, splits, resets
and closes, the teams' rows **without** the team lock. Everything that happens
is published to the hub, whose queues feed the sockets.

What is hard:

- *Interleavings.* Handlers await between reading and committing; the ORM
  writes absolute values of changed columns. Whoever is not under the team lock
  can lose or be lost. Nothing at all locks the market row.
- *Stale reads.* A state or a valuation read once is used for many teams.
- *Crashes.* Locks, cooldowns, queues and the tick's progress are memory; rows
  stay. `recover` runs at start-up.
- *Time.* Deadlines against the wall clock, freezes that preserve them, halts
  that do not, a breaker whose deadline is also its arming flag.
- *Retries.* A phone resends an order whose answer was lost; a terminal
  reconnects and polls, with a token that may have expired; a failed tick fires
  its script's steps again.
- *Things that end while something is under way.* A tick that began on an open
  market outlives the close and the finalising; a script's step closes the
  market inside the tick that fires it.
- *Boundaries.* Rounded-up liquidation legs, orders through zero, circuits where
  only one side trades, full queues.

What makes each component correct: money is in the ledger and spent once; a
trading day follows the calendar and is charged once; an order lives one life;
the plan restores the buffer and no more; a script's step lands once; the final
table follows the rulebook and stays; updates arrive in order and a client is
never stranded.

## 2. The modules

| Module | Models | Abstract specification |
|---|---|---|
| `TeamBook` | all handlers that move cash, with the team lock, sessions, commits, rollbacks and crashes | `CashLedger` |
| `MarketSession` | the market row, the tick's transactions, operators, the clock, crashes and restarts | `Calendar` |
| `Scenario` | a script of timed steps, composed with `MarketSession` (extends it) | |
| `OrderBook` | the orders of a team in one stock, two phones, sweep, bulk cancels, crash | `OrderLife` |
| `Funds` | the margin arithmetic as operators on a book of cash and positions | |
| `RiskDesk` | one team's book under moving prices: trade, sweep, scan, cover, bust (extends `Funds`) | |
| `PriceDesk` | one stock's price, status and band under the tick and the operators' desk: price actions, halts, undo, dividend, split | |
| `Standings` | snapshots, the live board and the final table around the end of the competition | the rulebook's order, `Beats` |
| `Stream` | hub queues, writer, handshake, snapshot, reconnect and polling | |
| `Terminal` | the page around the stream: tokens, refresh, sign-in (extends `Stream`) | |
| `SlidingWindow` | the limiter of sign-ins: the address's and the logins' windows, requests between check and answer, with a log of what happened | a count over the log |
| `TeamBookProofs`, `MarketProofs`, `OrderBookProofs`, `StandingsProofs`, `TerminalProofs`, `PriceDeskProofs`, `RiskDeskProofs` | the theorems | |
| `Induction` | what the proofs about loops and sums rest on: induction over numbers and over finite sets, the history of a loop, a finite set listed in an order | |
| `MC*` | the constants of the small instances | |

Operators named `X_Something`, placed before `X` and marked "Mutant", are
plausible wrong versions of the code of `X`. For every property of every passing
run one of them breaks it; no specification uses them.

### TeamBook

A process is a running handler. `Request*` is what it does before it asks for
the lock (the cooldown test, the test that an adjustment is unresolved),
`ReadFor*` what it reads under the lock and the funds check, `Commit` the end of
the transaction and of the `async with`, `Abort` an exception. `queue[t]` is
`asyncio.Lock`: FIFO, head is the holder. `Begin*`/`Bulk*` are the borrow fee,
the dividend and the reset, which load team rows and write them back without the
lock. `WriteBack` is the ORM's flush: the ledger row is an addition, the cash
column the absolute value computed from `snap`; a column that did not change is
not written. The history variable `mixed[t]` notes that two sessions, at least
one of them unlocked, had the row loaded at a time.

Abstractions: a team's ledger is its sum; a fill is the cash it moves; available
funds are cash (`Funds` has the margin); one stock's research.

### MarketSession

`row` is the database row; `txn[p]` what a handler has read and will write, only
the columns it changed. The engine's methods are functions of the row under
their own names. A tick is `TickBegin`/`TickCommit` (the first transaction),
`SweepRead`, `Trade`, `RiskRead`, `Trade` (each reads the state once and trades
on), `ClockBegin`/`ClockCommit` (the last). An operator's request is
`OperatorBegin`/`OperatorCommit`, with the refusals in `Allowed`; a resume goes
where the request says. Time is counted in moments, `Grain` to a second, because a
freeze and `recover` keep whole seconds only (`Seconds`): a market frozen with less
than one left keeps 0 and resumes without a deadline. `Elapse` is a moment;
deadlines are kept as what is left of them, and one that passes while the process is
down passes all the same. `Restart` is `recover`.

History variables: `ran` and `away`, the moments of the session that were run, and
that the code owns up to losing (the process was down, less than a second for each
freeze); `frozenFrom`; `traded`, the state in which the last fill of a pass took place,
and `stopped`, that the market was stopped since the pass read its state; `overrun`, that
a commit of this session, the one that opened it included, overwrote a row it had not read.
`FullSession` promises a whole session until the first such commit: the tick and the operators
share no lock, and `NoTimeLost`, without the exception, does not hold with operators. Nor is a length promised to a session
that an operator or a script moves on purpose (`Breaks`), a resume to OPEN of what was
no session among them. `OperatorBegin` does not start a day after the one that follows
the last (a bound).

Not modelled: banners, the leaderboard blackout.

### Scenario

`play` is the `scenarios` row, `steps` the fired and the skipped ones, `update[p]`
what a transaction will write to both, next to what it will write to the market
row. Instants are kept as the moments since then: `since` (`started_at`),
`idle` (`paused_at`), next to `offset` (`paused_offset_seconds`), which takes whole
seconds of a pause; `At == since - offset` is what `_fire_scenarios` computes. History:
`played` counts the moments that the script has played, `resumes` the pauses in them, and
`again` notes the steps fired by hand that had fired or were being fired. `ScriptTickBegin` is the first transaction of a
tick: it fires `Due`, which may move the market (`StepRow`), and then branches
(`Branch`) on the state that the steps have left, where whatever is neither a
pre-open nor a halt, a day that a step has just closed included, is treated as
open. `TickFails` rolls a tick back. Fire and Skip take any step, as their handlers do:
the console offers those that have not fired, but its list is up to eight seconds old. Play and
Pause are guarded by what the console offers (Pause while the script plays, Play
otherwise). Left out: what news, moves and halts of a step do elsewhere (a step
counts as landed when it fires), loading and editing of scripts.

### OrderBook

Transactions again read (`Place`, `Cancel`, `Sweep`) and commit later. Market
data are choices: a stop triggers or not, a limit fills some of what is left, a
market order all or nothing (then it is rejected). `SweepCapture` takes the list of
working orders; `Sweep` works those that are still open when it holds the lock.
`BulkBegin` is the `UPDATE` of a close, a suspension or a split, which locks the rows it
hits; `BulkCommit` its commit. `raced` notes the orders that somebody was
writing while a bulk cancel was in flight.

### Funds and RiskDesk

Whole currency units; percentages are multiplied out, so no comparison is
rounded; average cost is rounded half up as the code's grid does. Market values are
sums over all stocks (`Total`); among equal losses `ByLoss` leaves the order open,
where the code keeps that of the positions. A trade may end with no positions and
exactly nothing: a valuation that says BUST, which the desk never sees because it
skips books without shorts, hence the second disjunct of `TradeIsSafe`. `Tape` moves
prices freely inside the band and halts stocks; `Trade` is a member's order that
passes `check_funds`; `Sweep` works what rests; `Scan` is the bulk valuation;
`Liquidate` is `_liquidate_team` with its revaluation under the lock, `Cover`,
and `SquareOff` (`_bust_team`).

### PriceDesk

One stock: `stock` is the instrument's row, `acts` its `price_actions`, `shares`
and `cash` one holder's position and what dividends paid. As in the other
modules a handler or a tick reads and computes (`PriceJump`, `TickPrices`, ...),
and `Commit` writes the columns that differ from what it read; `stale` marks a
transaction during which somebody else committed. `Abort` is a rollback.
`ApplyBand`, `RoundToTick` and `StartDay` have the code's names; `Lands`,
`Retires` and `Effect` are the three branches of `_apply_price_actions`, and
`Applied` its loop over the live actions, the oldest first. A price is at least a
tick, even where the band rounds to nothing, and the reference itself may round to
zero after a split or a dividend of a very cheap stock.
`found` is the status a transaction has read. `Expire` is a move's or a volatility's time running out. The market is the
environment (`MarketMoves`), except that a tick opens or halts it. History variables count
how often an action's target was applied (`landed`), the dividends and splits
(`corp`), and whether a band, an undo, a dividend, a split or a late commit (`Late`: a
tick or a day's start over what another committed since it read) came since the last tick
that clamped the price (`loose`); `broken` says of a split that a fraction of a
share is dropped with it. Prices are whole units, two to a tick, so that
rounding shows. Left out: the walk's size, `day_high` and its kin, candles, the
index, average costs, resets, halts by a scenario.

### Standings

`worth[t]` is a team's book at the marks, whatever led to it; `snapshots` is the
table of equity snapshots in the order of their times. Whoever reads the market commits
later, so that a finalise may fall in between: a tick that read it open commits its prices
(`TickPrices`), fills (`SweepFill`), busts and, at its end, writes a snapshot or closes the
day (`TickRead`, `TickEnd`), whatever has become of the market; an order that read it open
fills (`OrderBegin`, `OrderEnd`); a close or a finalise reads the books (`Read`) and writes
them with the state (`Write`). A snapshot bears the time at which its writer began: `older[p]`
counts the snapshots that are older than that, and is where `Write` inserts it. `Key` is the tuple
the results sort by, `Scan` the running peak of the drawdown. `touched` notes the teams that
changed since the last snapshot was read. At most one operator closes or finalises at a time,
and a snapshot reads all books at once. Left out: awards, percentages, exports.

### Stream and Terminal

`Offer` is `Connection.offer`, `Write` the writer task, `ReadSnapshot` and
`SendSnapshot` the two halves of the socket handler, `ScheduleReconnect`,
`Open`, `OpenFails`, `Poll` the functions of `stream.js`. An update is its
number, and of a kind (`published`). A page shows the market, its portfolio, and news
as they come: `market` and `book` are the updates its pictures are as of, `unseen` the news it
has not shown. A snapshot and a poll renew the first two only, and a poll the portfolio only if
its token is accepted. `Terminal` adds what decides whether they work: `token` is what the
stream presents, `bearer` what requests carry, `cookie` the refresh cookie.
A handshake refuses an expired token before it accepts the socket; whether its
close code reaches the page depends on server and browser (`Told`). Requests
also test the token version. Heartbeats and `close_all` are left out, and a page
lives less long than its refresh cookie.

### SlidingWindow

`windows` holds the hits of the address and of each login as it is typed, in lower case;
`Member` says whose login that is once the blanks around it are gone. `Attempt` is a request
that checks both windows, `SignsIn` and `Refuse` are its answers, and other requests come
and go in between (`working`). The log is history; `SignInsAreLimited` says which attempts
are turned away by counting in the log itself. Left out: pruning of idle keys, the order
limiter (the same class).

## 3. The runs

| Run | Instance | Shows |
|---|---|---|
| `TeamBookDrift` | 2 teams, 3 handlers of 7 kinds, 1 adjustment | cash leaves the ledger only after an unlocked handler overlapped (`DriftNeedsBulkOverlap`); a checked debit is covered at commit (`CheckedDebitIsCovered`) |
| `TeamBookLocked` | the same, locked handlers | `RefinesLedger`, `WaiterIsServed` |
| `TeamBookCash` | 1 team, an order and a borrow fee | **violated**: `CashIsLedger` |
| `MarketCrash` | 2 days of 2 seconds, 2 moments each, 2 crashes, 2 breaker trips, an operator who resumes without limit | `RefinesCalendar`, `OneChargePerDay`, `OpenMeansArmed`, `Finishes` |
| `MarketScripted` | 1 day of a second and a half (3 moments, 2 to a second), a script (open at 0, close at 2), all ten controls and play, pause, skip, fire, 3 requests, a breaker trip or a crash or a failed tick | `ScriptTypeOK`, `CrashedSessionWaits`, `NoFillWhileStopped`, `FullSession`, `StepLandsOnce`, `PauseKeepsOffset` |
| `OrdersRaced` | 3 orders (limit of 2, stop-limit, market), 2 phones, 3 sends, a bulk cancel, a crash | `OneOrderPerId`, `FilledIffComplete`, `CloseLeavesNone`, `RefinesOrderLife` |
| `RiskCover` | 2 shorts, 5 prices, 3 ticks, a trade | `PlanIsExact`, `ProjectionIsExact`, `TradeIsSafe`, `CoverIsDue`, `BustKeepsOnlyStuck` |
| `RiskFlip` | 1 short, 4 ticks | **violated**: `SweepKeepsShort` |
| `StandingsFinal` | 2 teams, books worth -1 or 1, a trade each, 1 order under way, 2 snapshots, 1 act of an administrator | `TableFollowsRulebook`, `TableAgreesWithBoard`, `TableIsLocked` |
| `TerminalLive` | 1 terminal, queue of 2, 3 updates (quotes and portfolio), 1 break, 1 expiry, 1 password reset, close codes told or not; or 5 events of signing in, one login typed in two ways, a window of 2, limits of 2 and 3 | `InOrder`, `OnlyDurablesEvict`, `BackOrPolling`, `PollingCatchesUp`, `ResetSignsOut`, `SignInsAreLimited` |
| `PriceDesk` | 2 requests of 11 kinds, 2 bands, a target past the band, splits of 2 for 1 and 1 for 2, 1 day start, a walk of a tick up or down | `BandHolds`, `LandsOnce`, `HaltHolds`, `VolatilityEnds`, `UndoReverts`, `CorporateActionsAreNeutral` |
| `PriceUndo` | a jump, a split, an undo | **violated**: `UndoAlwaysReverts` |

Why the bounds are enough. Lost updates need two sessions of one row: three
handlers give a third that runs between them. Days repeat, so two days contain a
last and a not-last one; four moments of two to a second have a first, a middle and a last
one, and a freeze in any of them loses nothing or half a second, in the last one the deadline; a
second breaker trip meets a breaker that has been used. In the scripted run three
requests are play, pause and play again, or freeze, fire and resume, around a
tick; the script has the frame of the repository's own day
(`config/scenarios/day1.yaml`), whose other steps differ in nothing the model keeps; it closes the
market a moment before the clock would. `OneUpset`, a constraint, keeps a breaker's trip and a
crash out of each other's behaviours there; `MarketCrash` has them together. Two
shares are the least that fill in two parts, three sends a retry of one order
next to another. The five prices include the band's ends, one margin call, and a
bust that trades. Two teams are what a ranking compares (its order is pairwise),
two snapshots and the opening a rise and a fall. Two requests
at the price desk are an action and whatever comes after it (an undo, a halt, a
split); the tick supplies the interleavings, and as many ticks, market changes and
failed transactions come between as they like. Two queued updates are the least
queue in which the head, the tail and the new one differ; an expiry and a reset
can each come before and after a break. Five attempts fill a window of two and
one of three, and leave them again; two ways to type a login give it two windows. Handlers, phones and so on are
interchangeable, so `SYMMETRY` is used where a run without liveness has several.

A bound keeps known disagreements (section 5) out of the way of the calendar: nobody but the
engine opens, freezes or closes a day in `MarketCrash`. `MarketScripted` has all of them, and its
properties except what cannot be had. The terminal and the sign-ins have no bearing on each other,
so that a behaviour of `TerminalLive` is of one of them, and their states add up.

Fairness. `TeamBook`: `WF` on every locked handler: asyncio runs ready tasks
and every awaited call has a timeout. `MarketSession`: `WF` on the tick loop
(it swallows exceptions and goes on), on restarts (`recover` runs under a
supervisor) and on the commits of requests; `SF` on `Elapse`, since time passes
whatever runs; none on operators and crashes. `Finishes` therefore promises an
end only if the market is not for ever frozen again. `Terminal`: `WF` on the
writer, the handler, the disconnect, on "the timer fires", which the network
may answer with a failure every time, and on the page's request for the
leaderboard, which `terminal.js` repeats every 20 seconds; nobody has to sign in.
`CHECK_DEADLOCK FALSE` is set where a bound ends the run.

## 4. What is proved

For every value of the constants that satisfies the module's named assumption,
that is, for any number of teams, handlers, phones, pages, days, crashes and so on:

| Module | Theorem | Statement |
|---|---|---|
| `TeamBookProofs` | `TypeCorrect` | `Spec => []TypeOK` |
| | `CashTracksLedger` | `Spec => []DriftNeedsBulkOverlap` |
| | `ChecksHoldAtCommit` | `Spec => CheckedDebitIsCovered` |
| | `LockedBookRefines` | if no unlocked kind runs, `Spec => RefinesLedger` |
| `MarketProofs` | `CrashedWaits` | `Spec => []CrashedSessionWaits` |
| | `ChargedOnce` | `UnattendedSpec => []OneChargePerDay` |
| | `Armed` | `UnattendedSpec => []OpenMeansArmed` |
| | `TradesWhenOpen` | `Spec => []NoFillWhileStopped` |
| | `WholeSessions` | `UnattendedSpec => FullSession /\ NoTimeLost` |
| | `RunsTheCalendar` | `UnattendedSpec => RefinesCalendar` |
| | `LandsOnce` | `ScriptSpec => []StepLandsOnce` |
| | `KeepsItsPlace` | with one operator at a time, `ScriptSpec => []PauseKeepsOffset` |
| | `ScriptTypes` | `ScriptSpec => []ScriptTypeOK` |
| `OrderBookProofs` | `OrderedOnce` | `Spec => []OneOrderPerId` |
| | `FilledMeansComplete` | `Spec => []FilledIffComplete` |
| | `ClosedBook` | `Spec => []CloseLeavesNone` |
| | `LivesAsPromised` | `Spec => RefinesOrderLife` |
| `StandingsProofs` | `AgreesWithBoard` | `Spec => []TableAgreesWithBoard` |
| | `Locked` | `Spec => TableIsLocked` |
| | `FollowsRulebook` | `Spec => []TableFollowsRulebook` |
| `TerminalProofs` | `CarriesInOrder` | `Spec => []InOrder` |
| | `OnlyDurables` | `Spec => []OnlyDurablesEvict` |
| | `LimitsByTheLog` | `WindowSpec => []SignInsAreLimited` |
| `PriceDeskProofs` | `PricesInTheirBand` | `Spec => []BandHolds` |
| | `VolatilityIsAccountedFor` | `Spec => []VolatilityEnds` |
| | `HaltsHold` | `Spec => HaltHolds` |
| | `TargetsLandOnce` | `Spec => LandsOnce` |
| | `UndosRevert` | `Spec => UndoReverts` |
| | `CorporateActionsBalance` | `Spec => CorporateActionsAreNeutral` |
| `RiskDeskProofs` | `ProjectionHolds` | `Spec => []ProjectionIsExact` |
| | `PlanSuffices` | `Spec => []PlanIsExact` |
| | `TradesAreSafe` | `Spec => TradeIsSafe` |
| | `CoversAreDue` | `Spec => CoverIsDue` |
| | `BustsKeepOnlyStuck` | `Spec => BustKeepsOnlyStuck` |

**TeamBook.** `DriftNeedsBulkOverlap` is not inductive: it says nothing about what
the open sessions will write. The inductive invariant
`IInv == TypeOK /\ Discipline /\ Fresh /\ Afforded` adds

- `Discipline`: a handler that has its row loaded is at the head of its team's
  queue and has loaded that row only, so two locked handlers never have the
  same row loaded;
- `Fresh`: unless the row is mixed, at most one session has it loaded, and what
  that session read is what the database holds, and it will add the same amount
  to cash and to the ledger;
- `Afforded`: a checked debit fits the cash that was read.

Each has its lemma `...Step` with one step per action. The refinement adds
`OnlyLocked` and `Amounts` (what a handler is about to post is an amount of its
kind) and shows that a commit is one abstract posting and every other step a
stutter.

**MarketSession.** `CrashedWaits` and `TradesWhenOpen` hold whatever operators do. The
first rests on `Waits`: while a market that died open waits, no tick has a state to
write; the second on `OpenOrStopped`: a pass that trades began on an open market, which is open
still or has been stopped under it. The other four assume `Alone`: at most one handler, whose
only control is to resume to OPEN (the unattended competition of `MarketCrash`; with more
than that they are false, see section 5). Their common invariant says of every transaction that
it is `Fresh` (it will write what the engine's method makes of the row as it is
*now*) or `Void` (begun on a frozen market, it writes nothing), which nothing in
the code enforces and which a second operator breaks; of the row, that the
breaker's deadline is there exactly in a halt (`Calm`); of the fees, that they are a function of the row
(`Charged`); of the session, that moments run, moments lost and moments left make
up its length (`Whole`). With nobody who freezes, no commit overwrites what it has not read,
so that `NoTimeLost` holds there. The refinement
follows from `Follows`, the calendar's view of each transition of the engine.

**Scenario.** A step of the scripted market is seen from the script alone
(`ScriptMoves`): somebody begins or ends an update, drops one, time passes, or
nothing happens. `Paired` (an update is under way exactly as long as the
transaction that carries it) makes every step one of these, so that the two
invariants about the script need no case for each button. `Once` says
that a step that landed has fired, and that the tick that is firing one is alone in it,
unless the step is in `again`. For the pauses, `InPlace` says what `At` reads now (`Reads`:
what was played, and at most `Ahead` of it) and what it
will read after each update, even when a tick finishes the script in between
(`Merged`). It needs `OneOperator`: a resume that another operator's reset and
new start overtake would write the old pauses over the new clock. Types need the loop over the due
steps (`AllSteps`): what every step keeps, a tick's sequence of steps keeps.

**OrderBook.** The invariant says what a handler may have decided and not yet
committed (`Plans`): only the holder of the team lock has anything to write, a row
with a new id, or columns that leave a row consistent (`Writable`) even if a bulk
cancel has changed it since. `Races` adds that while a bulk cancel runs whatever
somebody writes is in `raced`, and that every working order is either hit or raced.
The refinement sees `OrderLife` as a relation between two rows (`Lives`).
`Meant` says that what a handler is about to write is a step in the life of the row
as it stands now, unless the row was raced; `Legal` says so of every plan, so that a commit
is such a step, and a bulk cancel is a step in the life of each order that it hits.

**Standings.** A finished competition has a snapshot (`Concluded`). The last one, and
every one that has been read and not yet written, shows what the teams are worth that nothing
has touched since it was read (`Current`); a snapshot that is written late goes before the last
(`Insertion`) and changes neither. For the rulebook's order, `Lasting` says
that `busted_at` is the place of a team's last bust, and `Scanned` that after any
prefix of a curve the recursive scan holds its peak and its largest fall, which
the rulebook's definition quantifies over.

**Terminal.** The updates of a queue are at least as far apart as their places, all
newer than what was sent and none newer than what was published (`Ordered`);
a durable update that is evicted for another then has a whole queue of newer ones behind it.

**SlidingWindow.** `WindowInv` says that a window holds only hits of events that count, and
all of them that are recent (`Holds`), whichever requests are between their check and their
answer. A window's size then is the count over the log;
the hits are told apart by their numbers, since several may share a second.

**PriceDesk.** `DeskInv` says of every transaction what it will make of the stock if
nobody commits before it does (`Sound`): a price on the grid and inside the band
unless an operator put it there, a halted price where it was, the targets it
applies among the actions it retires, an undone price as the newest action found it. A stale
transaction is promised only what its columns alone can keep: the ticks and day's starts among
them end the promise of `BandHolds` (`Late`), and may overwrite a halt that they have not read,
which `HaltHolds` excepts; an operator's transaction heeds a stop however old what it read is
(`HeedsStop`). `Applied` is a loop, and its history carries that a halted
stock stands still and that a raised volatility has an action to blame. The two
corporate actions are neutral up to a rounding: the price moves by at most half
a tick from the exact one, for each share.

**RiskDesk.** A market value is a sum over the stocks, and a fill changes one
term of it, which is `ProjectionIsExact`. Plan, forced cover, sweep and closing are
folds; the history of each carries what every leg keeps. `Planned` says of
the plan that each of its orders fits a short of its own (`Covering`); that filled at
the marks they leave the equity as it was and the exposure that the plan counts
with, and no short that the plan has passed unless the buffer is restored
(`Exact`); and that a share less in the last one would not do (`Tight`). A book with
available funds of at least zero is `OK` or empty-handed (`SafeBook`), because the
initial percentage is no less than the others. These theorems need
`MarginAssumption` (the percentages ascend) and whole positive prices, and
nothing about the number of stocks.

**Induction.** The library's induction theorems take an operator, which no
installed prover instantiates. `Climb` and its kin say the same of sets, which are
first-order: a set of numbers that holds 0 and with every number the next holds them
all; a set of finite sets that holds the empty one and grows by elements holds all. They
rest on minimal counterexamples, from the well-foundedness of the finite
subsets. From these follow that a recursive function exists and unfolds, that a fold
has a history, and that a finite set can be sorted.

Only model-checked: the liveness properties (`WaiterIsServed`, `Finishes`,
`BackOrPolling`, `PollingCatchesUp`, `ResetSignsOut`), because fairness and
`ENABLED` are outside the prover; `FullSession` with operators who may press every button; and, in the scripted market,
`CrashedSessionWaits` and `NoFillWhileStopped`, which are proved of `Spec`. The properties of the
violated runs are false. `PauseKeepsOffset` is
neither proved nor checked for several operators at a time.

## 5. Where the code and its words differ

Held by a violated run:

- **`TeamBookCash`.** `charge_borrow_fees` (`app/engine/riskdesk.py:268`), the
  dividend and the reset write `teams.cash` without the team lock. An order that
  read the cash before overwrites the charge. `app/models.py:5` calls cash a
  cache of the ledger's sum.
- **`RiskFlip`.** A forced cover that cannot fill at the upper circuit stays as a
  working order and the next tick adds another (`app/engine/riskdesk.py:136`).
  When the circuit opens they all fill, and the short becomes a long.
- **`PriceUndo`.** Undo writes back the price the newest move or jump had found
  (`app/routers/admin.py:464`), also across a split or a dividend, which it does
  not count as price actions: after a 2-for-1 split every holder has twice the
  shares at the old price. `UndoReverts` is what does hold.

Seen while modelling and reproduced by the models, not held by a run. Where a bullet ends with
a name, a module states under it what the quoted words say; nothing is claimed of that
definition, and TLC refutes it when it is added to the run that is named with it:

- A tick that had read a stock before its halt writes its own price, and its
  status if the circuit changed (`market.py:299`): a halted stock ticks, or trades again. The desk
  and the tick share no lock; `HaltHolds` excepts such a tick (`HaltedDoesNotTick`, `PriceDesk`).
- A tick that trips the breaker, or ends a halt, commits its state
  column over a freeze that came between, and the session, whose deadline the
  freeze has cleared, closes at once (`market.py:402`, `683`), although "the clock stops, so no
  team loses time" (`docs/runbook.md:52`). The same happens to a market that is frozen with less
  than a second left (`market.py:830`, `844`), which loses that second only (`NoTimeLost`,
  `MarketScripted`).
- Orders of later teams fill after a freeze, on the state the sweep read
  (`market.py:433`); "Freezing stops trading and the clock" (`console.html:81`)
  (`FreezeStopsTrading`, `MarketScripted`).
- "Resume from where it stopped" (`console.html:87`) always asks for OPEN
  (`console.js:342`), also after a frozen pre-open or break (`ResumeReturns`, `MarketScripted`).
- The poll carries the token the stream was given and skips a refusal
  (`stream.js:151`). When that token has expired and the page has not learnt of 4401, the
  portfolio stands still, although "the terminal keeps working on REST polling"
  (`terminal.js:84`); `PollingCatchesUp` excepts it. News, orders and fills are not polled at
  all (`PortfolioCatchesUp`, `TerminalLive`).
- In a full queue a durable update evicts the oldest, another durable one
  included, and the connection stays (`ws.py:81`), where `ws.py:7` promises to evict quotes, and
  to close otherwise (`DurablesAreKept`, `TerminalLive`).
- The snapshot of a reconnect has no news (`stream.py:33`), and those
  published while the terminal was away do not show; `stream.js:4` says "there is no partial state
  to reconcile" (`ReconnectRepaintsAll`, `TerminalLive` with `"news"` among its kinds).
- The window of a login is kept as it is typed (`auth.py:55`), the member is
  looked up without blanks (`auth.py:63`): "Ten attempts per account" (`security.py:291`) are ten
  for each (`LimitedPerAccount`, `TerminalLive`).
- An order under way at the finalise fills after it (`trading.py:99`), and
  the table counts its trade, although it is locked "permanently" (`admin.py:227`)
  (`ResultsAreLocked`, `StandingsFinal`).
- A tick under way at the finalise commits its prices after the last
  snapshot (`market.py:184`): the board moves, the results do not, although they "cannot disagree"
  (`results.py:7`) (`ResultsAgree`, `StandingsFinal`).
- The connection is registered and its writer started before the snapshot is
  read and sent (`stream.py:83`), so an update can overtake it, although
  `stream.py:8` calls the snapshot the first message.
- Undoing a volatility action leaves the multiplier raised (`admin.py:460` asks
  for a price to put back), hence the last disjunct of `VolatilityEnds`. An undo
  leaves the circuit status as it was, and the price may lie outside the band
  until the next tick (`loose`).
- A move aimed at before a split lands at its old target; an action on a halted
  stock is used up without effect (`market.py:253`, `pricing.py:170`).
- A script's step that closes the market is followed by the rest of that tick,
  which takes the day for an open one: a breaker trip in it halts the closed day,
  which then reopens, and is closed and charged again (`market.py:988`).
- An operator's pre-open that races the tick's opening leaves an open row with
  the deadline of a pre-open: `FullSession` excepts an opening over a row it had not read.
- Scripts know nothing of the market's clock: a freeze does not pause them, so
  that a scripted close cuts a session short that was frozen; what is left of a
  script that still plays fires in the next day's pre-open. `docs/runbook.md`
  ("The clock stops, so no team loses time") and the console ("Stop everything,
  clock included") speak of the session's clock only.
- Pausing an idle script and playing it leaves it without a start, and it never
  fires; a second pause restarts the count of the first one. The console offers
  neither.
- A tick that fails after firing a step has published the step's news, and
  publishes it again in the next one. An operator who fires a step that has fired, from a
  console whose list is seconds old, fires it again: the steps in `again`.
- The results are read from the last snapshot, the board from live marks: an adjustment or
  an undo after FINAL moves the board and not the results, and a team with negative equity that was
  not busted stands below a busted one on the board and above it in the results.
- A close in FINAL writes another snapshot, a change of status reorders the table, and a tick
  under way moves the drawdowns. An adjudication after the close (rulebook, rule 19) comes too late
  once the competition is final.
- `drawdown_pct` is that of the largest fall in rupees, not the largest in
  percent. A disqualified team is still ranked. The last snapshot of a busted
  team that is reinstated is 0, until the next one.
- A socket whose token has expired is closed before it is accepted, which most
  servers turn into an HTTP error and browsers into code 1006: the page then
  never learns of 4401, reconnects with the same expired token for ever, and
  polls (`stream.py`, `stream.js`); `Told` is both cases.
- The help desk "signs out their old sessions immediately" (`docs/runbook.md:58`):
  requests, not the live socket, and a handshake does not test the token
  version either. `ResetSignsOut` is what the page does in the end.
- "... or ask the help desk to reset your password": a reset does not clear the
  window that refuses the sign-in.
- Resuming a stock also lifts a suspension (`admin.py:408`).
- Two approvals of one adjustment post it twice; two taps buy one report twice:
  the test and the change are in different transactions (`admin.py:945-961`,
  `trading.py:445-507`).
- Closing, halting or freezing a finalised competition reopens it (`admin.py:165-203`).
- `close_day` has no guard: a day closed twice is charged twice (`market.py:790`).
- An index that stays at the breaker trips it in every tick after a halt, and
  the day never closes (`market.py:401`, `683`); opening by hand during a halt
  leaves the breaker unarmed for the rest of the day (`admin.py:160`). `MarketCrash`
  bounds the excursions, and nobody opens by hand in it.
- `recover` computes the remaining time when it runs, so an outage is taken off
  the session (`market.py:124`); `FullSession` counts it in `away`, with the part of a second
  that `int()` drops at a freeze.
- A sweep writes over the cancellation of an order it had read before a close
  cancelled it, and an order accepted while the close commits survives it:
  the `raced` orders of `OrderBook`.
- Busting a team leaves halted and circuit-locked positions open (`riskdesk.py:212`).
- The ticket offers the whole short although a cover may be refused (`risk.py:224`).
- A full queue refuses the newest quote instead of dropping the oldest
  (`ws.py:76`).

## 6. The plan

Done: `TeamBook`, `MarketSession`, `OrderBook`, `RiskDesk`, `Stream`, `PriceDesk`, in this
order, because money and the clock are what everything else depends on; then
`Scenario`, `Standings`, `Terminal` and `SlidingWindow`; and the theorems of
section 4, which state every safety property that a passing run checks.

Next, in order:

1. The ticket: itemised charges against the flat 0.15% of `max_affordable_qty`.
2. A sector's actions in `PriceDesk` (one action a stock, undone one at a time),
   closing in `Stream`, and the cooldown's clock in `TeamBook`.
3. Theorems: `CrashedSessionWaits` and `FullSession` of a script that plays into the
   market; the lemmas of the ticket, once it is modelled.

## 7. Not modelled

- Ticket limits and the itemised schedule of charges (`fees.py`): planned.
- Awards, percentages, risk-adjusted returns and exports: computed from the
  table, and nothing reads them back.
- The clock of the research cooldown: `TeamBook` has it set or not.
- Hashing and signing: cryptography. AI prompts and texts: a call that is slow
  and may fail.
- Read endpoints and serialisation: they change no state. Start-up wiring, seed
  and import scripts: Init. Rendering, charts and forms.
- Heartbeats and `close_all` of the hub; banners and the leaderboard blackout.
- The random walk is floating point; prices are a nondeterministic tape instead.
