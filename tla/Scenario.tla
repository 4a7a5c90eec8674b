------------------------------ MODULE Scenario ------------------------------
(***************************************************************************)
(* A script of timed steps that plays into the market (_fire_scenarios and *)
(* fire_step in app/engine/market.py, the scenario endpoints of            *)
(* app/routers/admin.py), composed with the market of MarketSession.       *)
(*                                                                         *)
(* The tick fires the steps that are due in its first transaction, before  *)
(* it branches on the market's state, which a step may just have changed.  *)
(* Operators play and pause the script, skip its steps and fire them by    *)
(* hand; a failed tick rolls back what it fired.                           *)
(*                                                                         *)
(* Of a step, the model keeps what it does to the market row.  Instants    *)
(* are kept as the moments since then: the engine's offset is what passed  *)
(* since started_at, less paused_offset_seconds.                           *)
(***************************************************************************)
EXTENDS MarketSession, Sequences

CONSTANTS Script,   \* the steps by offset: [at |-> moments, does |-> "open", "close", "pre_open" or "news"]
          MaxAt,    \* bound on the moments a script plays
          MaxIdle   \* bound on the moments of a pause

Steps == DOMAIN Script

ASSUME ScriptAssumption ==
  /\ Script \in Seq([at : Nat, does : {"open", "close", "pre_open", "news"}])
  /\ \A s, t \in Steps : s < t => Script[s].at <= Script[t].at
  /\ {MaxAt, MaxIdle} \subseteq Nat

VARIABLES
  play,     \* the scenario row
  steps,    \* its steps: which have fired, and which are skipped
  update,   \* per handler: what its transaction will write to these two
  landed,   \* history: how often each step took effect (at most 2 are counted)
  again,    \* history: steps fired by hand that had fired, or were being fired
  played,   \* history: moments played since the script was last started
  resumes   \* history: ... and the pauses in them

script == <<play, steps, update, landed, again, played, resumes>>
all    == <<vars, script>>

\* since: the moments since started_at; offset: paused_offset_seconds;
\* idle: the moments since paused_at.
Plays == [status : {"IDLE", "PLAYING", "PAUSED", "DONE"}, since : {NoTime} \cup Nat,
          offset : Nat, idle : {NoTime} \cup 0 .. MaxIdle]
PlayColumns == {"status", "since", "offset", "idle"}

Unplayed == [status |-> "IDLE", since |-> NoTime, offset |-> 0, idle |-> NoTime]
Untouched == [fired |-> {}, skipped |-> {}]

ScriptTypeOK ==
  /\ TypeOK
  /\ play \in Plays
  /\ steps \in [fired : SUBSET Steps, skipped : SUBSET Steps]
  /\ \A p \in Procs : update[p] # None <=> txn[p] # None /\ (p = "tick" => phase = "idle")
  /\ landed \in [Steps -> 0 .. 2] /\ again \subseteq Steps
  /\ {played, resumes} \subseteq Nat

InitScript ==
  /\ InitDayOne
  /\ play = Unplayed /\ steps = Untouched
  /\ update = [p \in Procs |-> None]
  /\ landed = [s \in Steps |-> 0] /\ again = {} /\ played = 0 /\ resumes = 0

-----------------------------------------------------------------------------
\* What a step does to the row, and to the borrow fee it may charge.
StepRow(m, s) ==
  CASE Script[s].does = "open"     -> [m EXCEPT !.row = OpenTrading(@)]
    [] Script[s].does = "close"    -> [row |-> CloseDay(m.row), charge |-> m.row.day]
    [] Script[s].does = "pre_open" -> [m EXCEPT !.row = StartDay(@)]
    [] OTHER                       -> m

Leave == [row |-> row, charge |-> NoDay]

\* The due steps in the order of their offsets.
FireAll(due) ==
  LET after[n \in 0 .. Len(Script)] ==
        IF n = 0 THEN Leave ELSE IF n \in due THEN StepRow(after[n - 1], n) ELSE after[n - 1]
  IN  after[Len(Script)]

Runs == play.status = "PLAYING" /\ play.since # NoTime
At == play.since - play.offset

Pending == Steps \ (steps.fired \cup steps.skipped)

\* Mutant: a step that has fired is due again.
Due_Again == IF Runs THEN {s \in Steps \ steps.skipped : Script[s].at <= At} ELSE {}

\* The steps the tick finds due.
Due == IF Runs THEN {s \in Pending : Script[s].at <= At} ELSE {}

\* What a transaction writes to the script.
NoUpdate == [play |-> play, cols |-> {}, fires |-> {}, skips |-> {}, clears |-> FALSE, trades |-> FALSE]

\* The columns that change, and those that are given the present instant.
Writes(w, now) == [NoUpdate EXCEPT !.play = w, !.cols = now \cup {c \in PlayColumns : w[c] # play[c]}]

BeginUpdate(p, u) ==
  /\ update' = [update EXCEPT ![p] = u]
  /\ again' = again \cup {s \in u.fires :
       \/ p \in Handlers /\ s \in steps.fired
       \/ \E q \in Procs \ {p} : update[q] # None /\ s \in update[q].fires}
  /\ UNCHANGED <<play, steps, landed, played, resumes>>

CommitUpdate(p) ==
  LET u == update[p]
  IN  /\ play' = [c \in PlayColumns |-> IF c \in u.cols THEN u.play[c] ELSE play[c]]
      /\ steps' = IF u.clears THEN Untouched
                  ELSE [fired |-> steps.fired \cup u.fires, skipped |-> steps.skipped \cup u.skips]
      /\ landed' = [s \in Steps |-> IF u.clears THEN 0
                                    ELSE IF s \in u.fires /\ landed[s] < 2 THEN landed[s] + 1 ELSE landed[s]]
      /\ played' = IF "since" \in u.cols /\ u.play.since = 0 THEN 0 ELSE played
      /\ resumes' = IF "since" \in u.cols THEN 0 ELSE IF "idle" \in u.cols /\ u.play.idle = NoTime THEN resumes + 1 ELSE resumes
      /\ update' = [update EXCEPT ![p] = None]
      /\ UNCHANGED again

-----------------------------------------------------------------------------
\* The tick.

\* Where the first transaction goes on, once its steps have fired: a day that
\* a step has closed is still taken for an open one.
Branch(r, far) ==
  CASE r.state = "PRE_OPEN" -> MaybeOpen(r)
    [] r.state = "HALTED"   -> AdvanceClock(r)
    [] OTHER                -> TripBreaker(r, far)

ScriptTickBegin ==
  /\ up /\ phase = "idle"
  /\ IF row.state \in {"PRE_OPEN", "HALTED", "OPEN"}
     THEN LET after  == FireAll(Due)
              trades == after.row.state \notin {"PRE_OPEN", "HALTED"}
          IN  /\ \E far \in IF trades THEN BOOLEAN ELSE {FALSE} :
                   IndexFar(far) /\ BeginCharging("tick", "tick", Branch(after.row, far), after.charge)
              /\ BeginUpdate("tick",
                   [Writes(IF Runs /\ Pending = {} THEN [play EXCEPT !.status = "DONE"] ELSE play, {})
                      EXCEPT !.fires = Due, !.trades = trades])
     ELSE /\ Begin("tick", "tick", TickRow(row, FALSE))
          /\ BeginUpdate("tick", NoUpdate)
          /\ UNCHANGED tripped
  /\ UNCHANGED <<row, phase, up, fees, asked, crashed, session, fills>>

ScriptTickCommit ==
  /\ phase = "idle" /\ txn["tick"] # None
  /\ phase' = IF update["tick"].trades THEN "sweep" ELSE "idle"
  /\ Commit("tick") /\ CommitUpdate("tick")
  /\ UNCHANGED <<up, tripped, asked, crashed, traded>>

\* A tick whose first transaction raises is rolled back, and the loop goes on
\* (bound: it counts as a crash).
TickFails ==
  /\ crashed < Crashes /\ phase = "idle" /\ txn["tick"] # None
  /\ crashed' = crashed + 1
  /\ txn' = [txn EXCEPT !["tick"] = None] /\ update' = [update EXCEPT !["tick"] = None]
  /\ UNCHANGED <<row, phase, up, fees, tripped, asked, session, fills>>
  /\ UNCHANGED <<play, steps, landed, again, played, resumes>>

RestOfTick ==
  /\ SweepRead \/ RiskRead \/ Trade \/ TradingDone \/ ClockBegin \/ ClockCommit
  /\ UNCHANGED script

-----------------------------------------------------------------------------
\* Operators.

Control(h, k) ==
  /\ OperatorBegin(h, k)
  /\ BeginUpdate(h, IF k = "reset" THEN [Writes(Unplayed, {}) EXCEPT !.clears = TRUE] ELSE NoUpdate)

\* A request to the script, which may change the market (m) with it.
Request(h, by, m, u) ==
  /\ up /\ asked < Asks /\ asked' = asked + 1
  /\ BeginCharging(h, by, m.row, m.charge) /\ BeginUpdate(h, u)
  /\ UNCHANGED <<row, phase, up, fees, tripped, crashed, session, fills>>

\* Play resumes a paused script, and restarts the clock of any other.
Resumes == play.status = "PAUSED" /\ play.idle # NoTime

\* Mutants: the pause is not taken off the clock, or is put on it.
PlayUpdate_Runs ==
  IF Resumes THEN Writes([play EXCEPT !.status = "PLAYING", !.idle = NoTime], {})
  ELSE Writes([status |-> "PLAYING", since |-> 0, offset |-> 0, idle |-> NoTime], {"since"})

PlayUpdate_PutOn ==
  IF Resumes THEN Writes([play EXCEPT !.status = "PLAYING", !.offset = @ - Seconds(play.idle), !.idle = NoTime], {})
  ELSE Writes([status |-> "PLAYING", since |-> 0, offset |-> 0, idle |-> NoTime], {"since"})

PlayUpdate ==
  IF Resumes THEN Writes([play EXCEPT !.status = "PLAYING", !.offset = @ + Seconds(play.idle), !.idle = NoTime], {})
  ELSE Writes([status |-> "PLAYING", since |-> 0, offset |-> 0, idle |-> NoTime], {"since"})

\* The console offers Pause while the script plays, and Play otherwise.
PlayBegin(h) == play.status # "PLAYING" /\ Request(h, "play", Leave, PlayUpdate)

PauseBegin(h) ==
  /\ play.status = "PLAYING"
  /\ Request(h, "pause", Leave, Writes([play EXCEPT !.status = "PAUSED", !.idle = 0], {"idle"}))

\* The handlers do not look whether the step has fired, and the console's
\* list, which offers those that have not, may be seconds old.
SkipBegin(h, s) == Request(h, "skip", Leave, [NoUpdate EXCEPT !.skips = {s}])

FireBegin(h, s) ==
  /\ Script[s].does = "pre_open" => row.day <= TotalDays   \* bound, as for the button
  /\ Request(h, "fire", StepRow(Leave, s), [NoUpdate EXCEPT !.fires = {s}])

RequestCommit(h) == OperatorCommit(h) /\ CommitUpdate(h)

-----------------------------------------------------------------------------
\* Time and failures.

\* A pause ends within MaxIdle moments, and after MaxAt moments every step is
\* long due: the script's clock stands still there.
AgePlay(p) ==
  LET plays == p.status = "PLAYING" /\ p.since - p.offset < MaxAt
      rests == p.status = "PAUSED" /\ p.idle # NoTime /\ p.idle < MaxIdle
  IN  CASE p.since # NoTime /\ plays    -> [p EXCEPT !.since = @ + 1]
        [] p.since # NoTime /\ rests    -> [p EXCEPT !.since = @ + 1, !.idle = @ + 1]
        [] OTHER -> p

Pass ==
  /\ Age(row) # row \/ AgePlay(play) # play
  /\ \A p \in Procs : txn[p] = None
  /\ Moment
  /\ play' = AgePlay(play)
  /\ played' = IF Runs /\ AgePlay(play) # play THEN played + 1 ELSE played
  /\ UNCHANGED <<txn, phase, up, fees, tripped, asked, crashed, frozenFrom, waits, overrun, fills>>
  /\ UNCHANGED <<steps, update, landed, again, resumes>>

ScriptCrash ==
  /\ Crash
  /\ update' = [p \in Procs |-> None]
  /\ UNCHANGED <<play, steps, landed, again, played, resumes>>

ScriptRestart == Restart /\ UNCHANGED script

ScriptNext ==
  \/ ScriptTickBegin \/ ScriptTickCommit \/ TickFails \/ RestOfTick
  \/ \E h \in Handlers :
       \/ \E k \in Controls : Control(h, k)
       \/ PlayBegin(h) \/ PauseBegin(h)
       \/ \E s \in Steps : SkipBegin(h, s) \/ FireBegin(h, s)
       \/ RequestCommit(h)
  \/ Pass \/ ScriptCrash \/ ScriptRestart

ScriptSpec == InitScript /\ [][ScriptNext]_all

-----------------------------------------------------------------------------
\* A step takes effect once, whatever rolls back, restarts or is replayed,
\* unless an operator fires it by hand although it has fired, or while it is
\* being fired (fire_step does not test fired_at): the tick never repeats it.
StepLandsOnce == \A s \in Steps : landed[s] <= 1 \/ s \in again

\* "A paused scenario resumes at the right offset" (models.py, Scenario): a
\* playing script stands at what it has played, pauses left out, and less than
\* a second ahead of it for every pause, of which whole seconds are kept.
PauseKeepsOffset == Runs => At >= played /\ At - played <= resumes * (Grain - 1)
=============================================================================
