--------------------------- MODULE MarketSession ---------------------------
(***************************************************************************)
(* The market state machine and its clock (app/engine/market.py), driven   *)
(* by the tick loop, by operators (app/routers/admin.py) and by crashes.   *)
(*                                                                         *)
(* The market_state table has one row.  Everybody who changes it reads it, *)
(* computes, and commits the columns it changed; a tick is two such        *)
(* transactions with the order sweep and the risk desk between them, each  *)
(* of which reads the state once and then trades team by team.  Nothing    *)
(* locks the row.                                                          *)
(*                                                                         *)
(* Time: durations and deadlines are counted in moments, Grain of them to  *)
(* a second, because a freeze keeps whole seconds only; Elapse is a moment *)
(* that passes between transactions (which last milliseconds).             *)
(***************************************************************************)
EXTENDS Integers, FiniteSets

CONSTANTS Handlers,    \* concurrent operator requests
          Controls,    \* what operators do
          Asks,        \* bound on the operators' requests
          Crashes,     \* bound on the number of crashes
          Excursions,  \* bound on the ticks that find the index at the breaker
          Grain,       \* the moments of a second
          TotalDays, PreOpenFor, OpenFor, BreakFor, HaltFor,
          AutoAdvance  \* rules.session.auto_advance

States == {"PRE_OPEN", "OPEN", "HALTED", "CLOSED", "FROZEN", "FINAL"}
NoTime == -1      \* an absent deadline or duration
NoDay == 0
Unbounded == -1

ASSUME ClockAssumption ==
  /\ Controls \subseteq {"pre_open", "open", "close", "halt", "freeze", "finalise", "reset",
                         "resume_open", "resume_pre_open", "resume_closed"}
  /\ AutoAdvance \in BOOLEAN
  /\ Crashes \in Nat /\ {Asks, Excursions} \subseteq Nat \cup {Unbounded}
  /\ {Grain, TotalDays, PreOpenFor, OpenFor, BreakFor, HaltFor} \subseteq Nat \ {0}
  /\ "tick" \notin Handlers

Procs == Handlers \cup {"tick"}

VARIABLES
  row,        \* the market_state row
  txn,        \* per handler: what it will write, or None
  phase,      \* where the tick loop is
  up,         \* the process runs
  fees,       \* per day: how often the borrow fee was charged
  tripped,    \* ticks that found the index at the breaker
  asked,      \* operators' requests so far
  crashed,    \* crashes so far
  ran,        \* history: moments of the session run since it was opened
  away,       \* history: ... and moments of it the code owns up to losing
  frozenFrom, \* history: the state the market was frozen in
  waits,      \* history: it died OPEN and no operator has acted since
  traded,     \* history: the state the last fill of this pass happened in
  stopped,    \* history: the market was stopped since this pass read its state
  overrun     \* history: a commit overwrote a row it had not read, this session

session == <<ran, away, frozenFrom, waits, overrun>>
fills   == <<traded, stopped>>
vars    == <<row, txn, phase, up, fees, tripped, asked, crashed, session, fills>>

None == [by |-> "none"]
Columns == {"state", "day", "ends", "frozen", "brk"}
Longest == CHOOSE n \in {PreOpenFor, OpenFor, BreakFor} :
             \A m \in {PreOpenFor, OpenFor, BreakFor} : m <= n
Row == [state : States, day : Nat, ends : {NoTime} \cup 0 .. Longest,
        frozen : {NoTime} \cup 0 .. Longest, brk : {NoTime} \cup 0 .. HaltFor]

TypeOK ==
  /\ row \in Row
  /\ \A p \in Procs : txn[p] # None => txn[p].write \in Row /\ txn[p].cols \subseteq Columns
  /\ phase \in {"idle", "sweep", "filling", "risk", "covering", "clock"}
  /\ fees \in [1 .. TotalDays + 1 -> 0 .. 2]
  /\ ran \in 0 .. OpenFor /\ away \in 0 .. OpenFor
  /\ traded \in States \cup {"none"} /\ {stopped, overrun} \subseteq BOOLEAN

InitWith(r) ==
  /\ row = r
  /\ txn = [p \in Procs |-> None]
  /\ phase = "idle" /\ up = TRUE
  /\ fees = [d \in 1 .. TotalDays + 1 |-> 0]
  /\ tripped = 0 /\ asked = 0 /\ crashed = 0
  /\ ran = 0 /\ away = 0 /\ frozenFrom = "OPEN" /\ waits = FALSE /\ overrun = FALSE
  /\ traded = "none" /\ stopped = FALSE

\* The row get_state creates.
NewRow == [state |-> "CLOSED", day |-> 0, ends |-> NoTime, frozen |-> NoTime, brk |-> NoTime]

Init == InitWith(NewRow)

\* The unattended competition starts where an operator opened day 1 for it.
InitDayOne == InitWith([NewRow EXCEPT !.state = "PRE_OPEN", !.day = 1, !.ends = PreOpenFor])

-----------------------------------------------------------------------------
\* The transitions of the engine, as functions of the row.

Remaining(r)   == IF r.ends = NoTime THEN 0 ELSE r.ends

StartDay(r)    == [r EXCEPT !.day = @ + 1, !.state = "PRE_OPEN", !.ends = PreOpenFor, !.brk = NoTime]
OpenTrading(r) == [r EXCEPT !.state = "OPEN", !.ends = OpenFor]
CloseDay(r)    == [r EXCEPT !.state = "CLOSED", !.ends = BreakFor]
Finalise(r)    == [r EXCEPT !.state = "FINAL", !.ends = NoTime]

\* Mutant: the remaining time is not kept.
Freeze_Forgets(r) ==
  IF r.state = "FROZEN" THEN r ELSE [r EXCEPT !.state = "FROZEN", !.ends = NoTime]

\* int() of a duration: a freeze keeps whole seconds.
Seconds(n)     == n - (n % Grain)

Freeze(r)      == IF r.state = "FROZEN" THEN r
                  ELSE [r EXCEPT !.frozen = Seconds(Remaining(r)), !.state = "FROZEN", !.ends = NoTime]

\* A market frozen in its last second resumes without a deadline.
Resume(r, to)  == [r EXCEPT !.state = to, !.ends = IF r.frozen > 0 THEN r.frozen ELSE NoTime,
                            !.frozen = NoTime]
Halt(r)        == [r EXCEPT !.state = "HALTED"]
Reset(r)       == [r EXCEPT !.state = "CLOSED", !.day = 0, !.ends = NoTime, !.frozen = NoTime, !.brk = NoTime]

\* The breaker of an index update: an index at the limit, and not armed yet.
TripBreaker(r, far) ==
  IF far /\ r.brk = NoTime THEN [r EXCEPT !.state = "HALTED", !.brk = HaltFor] ELSE r

\* Mutants: the breaker's deadline survives the halt; a halt never ends.
AdvanceClock_KeepsBreaker(r) ==
  CASE r.state = "HALTED" /\ r.brk = 0 -> [r EXCEPT !.state = "OPEN"]
    [] r.state = "OPEN" /\ AutoAdvance /\ Remaining(r) = 0 -> CloseDay(r)
    [] OTHER -> r
AdvanceClock_StaysHalted(r) ==
  IF r.state = "OPEN" /\ AutoAdvance /\ Remaining(r) = 0 THEN CloseDay(r) ELSE r

AdvanceClock(r) ==
  CASE r.state = "HALTED" /\ r.brk = 0 -> [r EXCEPT !.state = "OPEN", !.brk = NoTime]
    [] r.state = "OPEN" /\ AutoAdvance /\ Remaining(r) = 0 -> CloseDay(r)
    [] OTHER -> r

MaybeOpen(r) == IF AutoAdvance /\ Remaining(r) = 0 THEN OpenTrading(r) ELSE r

\* Mutant: the last day is found one day late.
MaybeStartNextDay_OneMore(r) ==
  IF ~AutoAdvance \/ r.day = 0 \/ Remaining(r) > 0 THEN r
  ELSE IF r.day > TotalDays THEN Finalise(r) ELSE StartDay(r)

MaybeStartNextDay(r) ==
  IF ~AutoAdvance \/ r.day = 0 \/ Remaining(r) > 0 THEN r
  ELSE IF r.day >= TotalDays THEN Finalise(r) ELSE StartDay(r)

\* The first transaction of a tick.
TickRow(r, far) ==
  CASE r.state = "CLOSED"   -> MaybeStartNextDay(r)
    [] r.state = "PRE_OPEN" -> MaybeOpen(r)
    [] r.state = "HALTED"   -> AdvanceClock(r)
    [] r.state = "OPEN"     -> TripBreaker(r, far)
    [] OTHER                -> r

-----------------------------------------------------------------------------
\* Transactions on the row.

\* p has read the row, settled on w, and will commit the columns it changed
\* and the borrow fee of a day.
BeginCharging(p, by, w, day) ==
  /\ txn[p] = None
  /\ txn' = [txn EXCEPT ![p] =
       [by     |-> by,
        read   |-> row,
        write  |-> w,
        cols   |-> {c \in Columns : w[c] # row[c]},
        charge |-> day]]

\* The same, for those who charge exactly when they close.
Begin(p, by, w) ==
  BeginCharging(p, by, w,
    IF by = "close" \/ (by = "clock" /\ w.state = "CLOSED" /\ row.state # "CLOSED")
    THEN row.day ELSE NoDay)

\* A session begins; or is moved on purpose, so that no length is promised to
\* it any more: among others, by a resume to OPEN of what was no session, and
\* by a script that closes it.
Opens(t)  == t.write.state = "OPEN" /\ t.read.state \notin {"OPEN", "HALTED", "FROZEN"}
Breaks(t) == \/ t.by \in {"pre_open", "close", "halt", "finalise", "reset", "fire"}
             \/ t.by = "resume_open" /\ frozenFrom \notin {"OPEN", "HALTED"}
             \/ t.by = "tick" /\ t.charge # NoDay

\* Two durations, counted up to a session's length.
Upto(n, m) == IF n + m < OpenFor THEN n + m ELSE OpenFor

\* The commit, with what the history variables note about it.
Commit(p) ==
  LET t == txn[p]
  IN  /\ row' = [c \in Columns |-> IF c \in t.cols THEN t.write[c] ELSE row[c]]
      /\ fees' = [d \in DOMAIN fees |-> IF d = t.charge /\ fees[d] < 2 THEN fees[d] + 1
                  ELSE IF t.by = "reset" THEN 0 ELSE fees[d]]
      /\ txn' = [txn EXCEPT ![p] = None]
      /\ ran' = IF Opens(t) THEN 0 ELSE IF Breaks(t) THEN OpenFor ELSE ran
      /\ away' = IF Opens(t) THEN 0 ELSE IF t.by = "freeze" THEN Upto(away, Grain - 1) ELSE away
      /\ overrun' = ((~Opens(t) /\ overrun) \/ (t.cols # {} /\ t.read # row))
      /\ stopped' = (stopped \/ (phase \in {"filling", "covering"} /\ row.state = "OPEN" /\ row'.state # "OPEN"))
      /\ frozenFrom' = IF t.by = "freeze" /\ t.read.state # "FROZEN" THEN t.read.state ELSE frozenFrom
      /\ waits' = (waits /\ t.by \notin Controls \cup {"fire"})

OperatorRow(r, k) ==
  CASE k = "pre_open"        -> StartDay(r)
    [] k = "open"            -> OpenTrading(IF r.day = 0 THEN StartDay(r) ELSE r)
    [] k = "close"           -> CloseDay(r)
    [] k = "halt"            -> Halt(r)
    [] k = "freeze"          -> Freeze(r)
    [] k = "finalise"        -> Finalise(r)
    [] k = "reset"           -> Reset(r)
    [] k = "resume_open"     -> Resume(r, "OPEN")
    [] k = "resume_pre_open" -> Resume(r, "PRE_OPEN")
    [] k = "resume_closed"   -> Resume(r, "CLOSED")

\* The refusals of the handlers.
Allowed(k) ==
  /\ k \in {"pre_open", "open"} => row.state # "FINAL"
  /\ k = "reset" => row.state # "OPEN"
  /\ k \in {"resume_open", "resume_pre_open", "resume_closed"} => row.state = "FROZEN"

OperatorBegin(h, k) ==
  /\ Asks = Unbounded \/ asked < Asks
  /\ up /\ k \in Controls /\ Allowed(k)
  /\ k = "pre_open" => row.day <= TotalDays   \* bound: days beyond the calendar
  /\ asked' = IF Asks = Unbounded THEN asked ELSE asked + 1
  /\ Begin(h, k, OperatorRow(row, k))
  /\ UNCHANGED <<row, phase, up, fees, tripped, crashed, session, fills>>

OperatorCommit(h) ==
  /\ txn[h] # None
  /\ Commit(h)
  /\ UNCHANGED <<phase, up, tripped, asked, crashed, traded>>

-----------------------------------------------------------------------------
\* The tick loop.

\* The index of this tick is at the breaker, or is not.
IndexFar(far) ==
  /\ far => Excursions = Unbounded \/ tripped < Excursions
  /\ tripped' = IF far /\ Excursions # Unbounded THEN tripped + 1 ELSE tripped

TickBegin ==
  /\ up /\ phase = "idle"
  /\ \E far \in IF row.state = "OPEN" THEN BOOLEAN ELSE {FALSE} :
       IndexFar(far) /\ Begin("tick", "tick", TickRow(row, far))
  /\ UNCHANGED <<row, phase, up, fees, asked, crashed, session, fills>>

\* A tick goes on to trade only if its first transaction found the market open.
TickCommit ==
  /\ phase = "idle" /\ txn["tick"] # None
  /\ phase' = IF txn["tick"].read.state = "OPEN" THEN "sweep" ELSE "idle"
  /\ Commit("tick")
  /\ UNCHANGED <<up, tripped, asked, crashed, traded>>

\* Mutant: the state is not read again after the first transaction.
Capture_Remembered(from, trading, next) ==
  /\ phase = from
  /\ phase' = trading
  /\ UNCHANGED <<row, txn, up, fees, tripped, asked, crashed, session, fills>>

\* The sweep, and then the risk desk, read the state once and trade on it.
Capture(from, trading, next) ==
  /\ phase = from
  /\ phase' = IF row.state = "OPEN" THEN trading ELSE next
  /\ UNCHANGED <<row, txn, up, fees, tripped, asked, crashed, session, fills>>

SweepRead == Capture("sweep", "filling", "risk")
RiskRead  == Capture("risk", "covering", "clock")

\* One team's fills (a swept order, a forced cover), in their own transaction.
Trade ==
  /\ phase \in {"filling", "covering"}
  /\ traded' = row.state
  /\ UNCHANGED <<row, txn, phase, up, fees, tripped, asked, crashed, session, stopped>>

TradingDone ==
  /\ phase \in {"filling", "covering"}
  /\ phase' = IF phase = "filling" THEN "risk" ELSE "clock"
  /\ traded' = "none" /\ stopped' = FALSE
  /\ UNCHANGED <<row, txn, up, fees, tripped, asked, crashed, session>>

\* The last transaction: read again, publish, advance the clock.
ClockBegin ==
  /\ phase = "clock"
  /\ Begin("tick", "clock", AdvanceClock(row))
  /\ UNCHANGED <<row, phase, up, fees, tripped, asked, crashed, session, fills>>

ClockCommit ==
  /\ phase = "clock" /\ txn["tick"] # None
  /\ phase' = "idle"
  /\ Commit("tick")
  /\ UNCHANGED <<up, tripped, asked, crashed, traded>>

TickStep ==
  \/ TickBegin \/ TickCommit \/ SweepRead \/ RiskRead \/ Trade \/ TradingDone
  \/ ClockBegin \/ ClockCommit

-----------------------------------------------------------------------------
\* Time, crashes, restarts.

Age(r) == [r EXCEPT !.ends = IF @ > 0 THEN @ - 1 ELSE @, !.brk = IF @ > 0 THEN @ - 1 ELSE @]

\* A moment, seen by the row and counted by the history of the session.
Moment ==
  /\ row' = Age(row)
  /\ LET one == IF row.state \in {"OPEN", "HALTED"} /\ row.ends > 0 THEN 1 ELSE 0
     IN  ran' = Upto(ran, IF up THEN one ELSE 0) /\ away' = Upto(away, IF up THEN 0 ELSE one)

Elapse ==
  /\ Age(row) # row /\ \A p \in Procs : txn[p] = None
  /\ Moment
  /\ UNCHANGED <<txn, phase, up, fees, tripped, asked, crashed, frozenFrom, waits, overrun, fills>>

\* Mutant: a day's fees are committed ahead of the state they close.
Crash_FeesFirst ==
  /\ up /\ crashed < Crashes
  /\ up' = FALSE /\ crashed' = crashed + 1
  /\ fees' = [d \in DOMAIN fees |->
       IF txn["tick"] # None /\ txn["tick"].charge = d /\ fees[d] < 2 THEN fees[d] + 1 ELSE fees[d]]
  /\ txn' = [p \in Procs |-> None] /\ phase' = "idle" /\ traded' = "none" /\ stopped' = FALSE
  /\ waits' = (waits \/ row.state = "OPEN")
  /\ UNCHANGED <<row, tripped, asked, ran, away, frozenFrom, overrun>>

Crash ==
  /\ up /\ crashed < Crashes
  /\ up' = FALSE /\ crashed' = crashed + 1
  /\ txn' = [p \in Procs |-> None] /\ phase' = "idle" /\ traded' = "none" /\ stopped' = FALSE
  /\ waits' = (waits \/ row.state = "OPEN")
  /\ UNCHANGED <<row, fees, tripped, asked, ran, away, frozenFrom, overrun>>

\* Mutant: recover() leaves an open market open.
Restart_Running ==
  /\ ~up
  /\ up' = TRUE
  /\ UNCHANGED <<row, txn, phase, fees, tripped, asked, crashed, session, fills>>

\* recover(): a market that was open comes back frozen.
Restart ==
  /\ ~up
  /\ up' = TRUE
  /\ IF row.state = "OPEN"
     THEN /\ row' = [row EXCEPT !.state = "FROZEN", !.frozen = Seconds(Remaining(row))]
          /\ away' = Upto(away, Grain - 1) /\ frozenFrom' = "OPEN"
     ELSE UNCHANGED <<row, away, frozenFrom>>
  /\ UNCHANGED <<txn, phase, fees, tripped, asked, crashed, ran, waits, overrun, fills>>

Next ==
  \/ TickStep
  \/ \E h \in Handlers : (\E k \in Controls : OperatorBegin(h, k)) \/ OperatorCommit(h)
  \/ Elapse \/ Crash \/ Restart

Spec == Init /\ [][Next]_vars

\* The loop never stops ticking, the database answers, a supervisor restarts
\* the process, and time passes whatever the others do.
Fairness ==
  /\ WF_vars(TickBegin \/ TickCommit \/ SweepRead \/ RiskRead \/ ClockBegin \/ ClockCommit)
  /\ WF_vars(TradingDone)
  /\ SF_vars(Elapse) /\ WF_vars(Restart)
  /\ \A h \in Handlers : WF_vars(OperatorCommit(h))

\* The competition the engine runs by itself, after day 1 was opened.
UnattendedSpec == InitDayOne /\ [][Next]_vars /\ Fairness

-----------------------------------------------------------------------------
\* Each day's borrow fee is charged once (rulebook, rule 12), and no day of a
\* finished competition is left out.
OneChargePerDay ==
  /\ \A d \in DOMAIN fees : fees[d] <= 1
  /\ row.state = "FINAL" => \A d \in 1 .. TotalDays : fees[d] = 1

\* The clock closes a day only after a whole session, breaker halts included
\* and frozen time excluded (resume() "picks the clock up").  Off it go the
\* time the process is down, because recover() keeps what remains when it
\* runs, and less than a second for every freeze, which keeps whole seconds.
\* A commit that overwrote a row it had not read ends the promise: see
\* NoTimeLost.
Closing == txn["tick"] = None /\ txn'["tick"] # None /\ txn'["tick"].by = "clock" /\ txn'["tick"].charge # NoDay
FullSession == [][Closing => ran + away >= OpenFor \/ overrun]_vars

\* "The clock stops, so no team loses time" (runbook.md, of a freeze): the
\* same, whatever a tick under way at the freeze had read.  It does not hold:
\* a breaker or an end of halt committed over a freeze leaves the market
\* running without a deadline, and the clock closes the day at once.
NoTimeLost == [][Closing => ran + away >= OpenFor]_vars

\* The breaker can trip whenever the market trades: no time of an earlier
\* trip is left in the row (_update_index trips only when there is none).
OpenMeansArmed == row.state = "OPEN" => row.brk = NoTime

\* A market that died open does not trade again before an operator acts
\* (market.py, recover).
CrashedSessionWaits == waits /\ up => row.state # "OPEN"

\* Orders fill and shorts are covered on a stopped market only in the one
\* pass, of the sweep or of the risk desk, that was under way when the stop
\* was committed; the next pass reads the state again and trades nothing.
\* Whoever stops it: the breaker, an operator, the clock or a restart.
NoFillWhileStopped == traded \in {"none", "OPEN"} \/ stopped

\* "Freezing stops trading and the clock" (console.html): no fill happens on
\* a frozen market.  It does not hold for the pass under way at the freeze.
FreezeStopsTrading == traded # "FROZEN"

\* "Resume from where it stopped" (console.html): a resume returns to the
\* state that was frozen.  It does not hold: the button always asks for OPEN
\* (console.js), and resume() does what it is asked.
ResumeReturns ==
  [][\A h \in Handlers :
       txn[h] # None /\ OperatorCommit(h) /\ txn[h].by \in {"resume_open", "resume_pre_open", "resume_closed"}
         => row'.state = IF frozenFrom = "HALTED" THEN "OPEN" ELSE frozenFrom]_vars

\* The competition ends by itself (config.py: "advances the day automatically
\* when the timer runs out"), unless it is left, or put back, in a freeze.
Finishes == <>[](row.state # "FROZEN") => <>(row.state = "FINAL")

\* Without operators, the market runs the calendar of the rulebook: a
\* market-wide halt and a freeze are part of the session they interrupt.
Stage ==
  CASE row.state = "HALTED" -> "OPEN"
    [] row.state = "FROZEN" -> IF frozenFrom = "HALTED" THEN "OPEN" ELSE frozenFrom
    [] OTHER                -> row.state
Rulebook == INSTANCE Calendar WITH day <- row.day, stage <- Stage
RefinesCalendar == Rulebook!Spec
=============================================================================
