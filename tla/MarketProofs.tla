---------------------------- MODULE MarketProofs ----------------------------
(***************************************************************************)
(* The market's promises, for any number of days, any lengths of its       *)
(* periods, and any number of crashes and breaker trips.                   *)
(*                                                                         *)
(* First, whatever operators do: a market that died open waits for one,    *)
(* and nothing but the pass under way trades on a market that was stopped. *)
(* Then the unattended competition, whose operator only resumes it: it     *)
(* implements the calendar of the rulebook, gives every day its whole      *)
(* session and charges it once, and is armed whenever it trades.  Last, a  *)
(* script that plays into the market: its steps land once, and it keeps    *)
(* its place over pauses.                                                  *)
(***************************************************************************)
EXTENDS Scenario, Induction

USE DEF session, fills

\* Commiting exactly what differs from the row makes the row what was written.
RowType == [state : States, day : Int, ends : Int, frozen : Int, brk : Int]

Differs(w) == {c \in Columns : w[c] # row[c]}

LEMMA Applied ==
  ASSUME row \in RowType, NEW w \in RowType
  PROVE  [c \in Columns |-> IF c \in Differs(w) THEN w[c] ELSE row[c]] = w
<1>1. w = [c \in Columns |-> w[c]]
  BY DEF RowType, Columns
<1>2. \A c \in Columns : (IF c \in Differs(w) THEN w[c] ELSE row[c]) = w[c]
  BY DEF Differs
<1> QED
  BY <1>1, <1>2

LEMMA Unapplied ==
  ASSUME row \in RowType
  PROVE  [c \in Columns |-> IF c \in {} THEN row[c] ELSE row[c]] = row
BY DEF RowType, Columns

-----------------------------------------------------------------------------
(* A market that died open waits for an operator. *)

\* It is frozen once it is up again, nobody but an operator has anything to
\* write to its state, and while it is down nobody has anything to write.
Waits ==
  /\ waits \in BOOLEAN /\ up \in BOOLEAN /\ DOMAIN row = Columns
  /\ txn = [p \in Procs |-> txn[p]]
  /\ \A h \in Handlers : txn[h] # None => txn[h].by \in Controls
  /\ ~up => phase = "idle" /\ \A p \in Procs : txn[p] = None
  /\ waits => /\ up => row.state = "FROZEN"
              /\ ~up => row.state \in {"OPEN", "FROZEN"}
              /\ txn["tick"] # None => "state" \notin txn["tick"].cols

LEMMA TickKeepsFrozen ==
  ASSUME row.state = "FROZEN"
  PROVE  \A far : TickRow(row, far) = row /\ AdvanceClock(row) = row
BY DEF TickRow, AdvanceClock

LEMMA WaitsStep == Waits /\ [Next]_vars => Waits'
<1> SUFFICES ASSUME Waits, [Next]_vars PROVE Waits'
  OBVIOUS
<1> USE DEF Waits
<1>1. "tick" \in Procs /\ Handlers \subseteq Procs /\ "tick" \notin Handlers
  BY ClockAssumption DEF Procs
<1>2. ASSUME NEW by \in {"tick", "clock"}, NEW w, Begin("tick", by, w), up,
             w.state = row.state \/ row.state # "FROZEN",
             UNCHANGED <<row, up, waits>>
      PROVE  Waits'
  <2>1. /\ txn["tick"] = None
        /\ \A p \in Procs : p # "tick" => txn'[p] = txn[p]
        /\ txn'["tick"].cols = {c \in Columns : w[c] # row[c]}
        /\ txn' = [p \in Procs |-> txn'[p]]
    BY <1>1, <1>2 DEF Begin, BeginCharging
  <2>2. waits => "state" \notin txn'["tick"].cols
    BY <1>2, <2>1
  <2> QED
    BY <1>1, <1>2, <2>1, <2>2
<1>3. CASE TickBegin
  <2>1. PICK far \in BOOLEAN : Begin("tick", "tick", TickRow(row, far))
    BY <1>3 DEF TickBegin
  <2> QED
    BY <1>2, <1>3, <2>1, TickKeepsFrozen DEF TickBegin
<1>4. CASE ClockBegin
  BY <1>2, <1>4, TickKeepsFrozen DEF ClockBegin
<1>5. CASE SweepRead \/ RiskRead \/ Trade \/ TradingDone
  BY <1>5 DEF SweepRead, RiskRead, Capture, Trade, TradingDone
<1>6. ASSUME NEW p \in Procs, Commit(p), txn[p] # None, up' = up, phase' = "idle" \/ up
      PROVE  Waits'
  <2>1. /\ txn' = [txn EXCEPT ![p] = None] /\ waits' = (waits /\ txn[p].by \notin Controls \cup {"fire"})
        /\ row' = [c \in Columns |-> IF c \in txn[p].cols THEN txn[p].write[c] ELSE row[c]]
    BY <1>6 DEF Commit
  <2>2. /\ \A q \in Procs : txn'[q] = IF q = p THEN None ELSE txn[q]
        /\ txn' = [q \in Procs |-> txn'[q]]
    BY <2>1
  <2>3. waits' => p = "tick"
    BY <1>1, <1>6, <2>1 DEF Procs
  <2>4. waits' => waits
    BY <2>1
  <2>5. waits' => row'.state = row.state
    BY <1>6, <2>1, <2>3, <2>4 DEF Columns
  <2>6. up
    BY <1>6
  <2>7. waits' \in BOOLEAN
    BY <2>1
  <2>8. DOMAIN row' = Columns
    BY <2>1
  <2> QED
    BY <1>1, <1>6, <2>2, <2>4, <2>5, <2>6, <2>7, <2>8
<1>7. CASE TickCommit \/ ClockCommit
  BY <1>1, <1>6, <1>7 DEF TickCommit, ClockCommit
<1>8. ASSUME NEW h \in Handlers, NEW k \in Controls, OperatorBegin(h, k)
      PROVE  Waits'
  <2>1. /\ txn[h] = None /\ up /\ UNCHANGED <<row, up, waits>>
        /\ \A p \in Procs : p # h => txn'[p] = txn[p]
        /\ txn'[h].by = k /\ txn' = [p \in Procs |-> txn'[p]]
    BY <1>1, <1>8 DEF OperatorBegin, Begin, BeginCharging
  <2> QED
    BY <1>1, <1>8, <2>1
<1>9. ASSUME NEW h \in Handlers, OperatorCommit(h)
      PROVE  Waits'
  <2>1. up
    BY <1>1, <1>9 DEF OperatorCommit
  <2> QED
    BY <1>1, <1>6, <1>9, <2>1 DEF OperatorCommit
<1>10. CASE Elapse
  <2>1. row'.state = row.state /\ UNCHANGED <<txn, up, waits, phase>> /\ DOMAIN row' = DOMAIN row
    BY <1>10 DEF Elapse, Moment, Age
  <2> QED
    BY <2>1
<1>11. CASE Crash
  <2>1. /\ ~up' /\ txn' = [p \in Procs |-> None] /\ phase' = "idle" /\ row' = row
        /\ waits' = (waits \/ row.state = "OPEN") /\ up
    BY <1>11 DEF Crash
  <2>2. waits' \in BOOLEAN /\ up' \in BOOLEAN
    BY <1>11 DEF Crash
  <2>3. \A p \in Procs : txn'[p] = None
    BY <2>1
  <2>4. row'.state \in {"OPEN", "FROZEN"} \/ ~waits'
    BY <2>1
  <2> QED
    BY <1>1, <2>1, <2>2, <2>3, <2>4
<1>12. CASE Restart
  <2>1. /\ ~up /\ up' = TRUE /\ UNCHANGED <<txn, phase, waits>>
        /\ row' = IF row.state = "OPEN" THEN [row EXCEPT !.state = "FROZEN", !.frozen = Seconds(Remaining(row))] ELSE row
    BY <1>12 DEF Restart
  <2>2. (row.state \in {"OPEN", "FROZEN"} => row'.state = "FROZEN") /\ DOMAIN row' = Columns
    <3>1. \A n : LET w == [row EXCEPT !.state = "FROZEN", !.frozen = n] IN w.state = "FROZEN" /\ DOMAIN w = Columns
      BY DEF Columns
    <3> QED
      BY <2>1, <3>1
  <2> QED
    BY <1>1, <2>1, <2>2
<1>13. CASE UNCHANGED vars
  BY <1>13 DEF vars
<1> QED
  BY <1>3, <1>4, <1>5, <1>7, <1>8, <1>9, <1>10, <1>11, <1>12, <1>13 DEF Next, TickStep

\* Whatever operators do, and however often it dies: a market that died open
\* does not trade before one of them acts (recover in market.py).
THEOREM CrashedWaits == Spec => []CrashedSessionWaits
<1>1. Init => Waits
  BY ClockAssumption DEF Init, InitWith, NewRow, Columns, Waits, Procs
<1>2. Waits => CrashedSessionWaits
  BY DEF Waits, CrashedSessionWaits
<1> QED
  BY <1>1, <1>2, WaitsStep, PTL DEF Spec

\* What a pass of the sweep or of the risk desk trades on: an open market, or
\* one that was stopped after the pass had read it.
OpenOrStopped ==
  /\ stopped \in BOOLEAN /\ up \in BOOLEAN
  /\ ~up => phase = "idle"
  /\ phase \in {"filling", "covering"} => row.state = "OPEN" \/ stopped
  /\ NoFillWhileStopped

LEMMA StoppedKept ==
  ASSUME OpenOrStopped, NEW p, Commit(p), UNCHANGED <<up, traded>>,
         phase' = phase \/ {phase, phase'} \cap {"filling", "covering"} = {},
         up \/ phase' = "idle"
  PROVE  OpenOrStopped'
<1>1. stopped' = (stopped \/ (phase \in {"filling", "covering"} /\ row.state = "OPEN" /\ row'.state # "OPEN"))
  BY DEF Commit
<1> QED
  BY <1>1 DEF OpenOrStopped, NoFillWhileStopped

LEMMA StoppedStep == Waits /\ OpenOrStopped /\ [Next]_vars => OpenOrStopped'
<1> SUFFICES ASSUME Waits, OpenOrStopped, [Next]_vars PROVE OpenOrStopped'
  OBVIOUS
<1> USE DEF OpenOrStopped, NoFillWhileStopped
<1>1. CASE TickBegin \/ ClockBegin
  BY <1>1 DEF TickBegin, ClockBegin
<1>2. CASE TickCommit \/ ClockCommit
  <2>1. Commit("tick") /\ UNCHANGED <<up, traded>> /\ txn["tick"] # None /\ phase \in {"idle", "clock"}
        /\ phase' \in {"idle", "sweep"}
    BY <1>2 DEF TickCommit, ClockCommit
  <2>2. up
    BY <2>1 DEF Waits, Procs
  <2> QED
    BY <2>1, <2>2, StoppedKept
<1>3. CASE SweepRead \/ RiskRead
  BY <1>3 DEF SweepRead, RiskRead, Capture
<1>4. CASE Trade \/ TradingDone
  BY <1>4 DEF Trade, TradingDone
<1>5. ASSUME NEW h \in Handlers, NEW k, OperatorBegin(h, k) PROVE OpenOrStopped'
  BY <1>5 DEF OperatorBegin
<1>6. ASSUME NEW h \in Handlers, OperatorCommit(h) PROVE OpenOrStopped'
  <2>1. Commit(h) /\ UNCHANGED <<up, traded>> /\ phase' = phase /\ txn[h] # None /\ h \in Procs
    BY <1>6 DEF OperatorCommit, Procs
  <2>2. up
    BY <2>1 DEF Waits
  <2>3. /\ phase' = phase \/ {phase, phase'} \cap {"filling", "covering"} = {}
        /\ up \/ phase' = "idle"
    BY <2>1, <2>2
  <2> HIDE DEF OpenOrStopped
  <2> QED
    BY <2>1, <2>2, <2>3, StoppedKept
<1>7. CASE Elapse
  <2>1. row'.state = row.state /\ UNCHANGED <<phase, up, traded, stopped>>
    BY <1>7 DEF Elapse, Moment, Age
  <2> QED
    BY <2>1
<1>8. CASE Crash
  BY <1>8 DEF Crash
<1>9. CASE Restart
  <2>1. ~up /\ up' \in BOOLEAN /\ UNCHANGED <<phase, traded, stopped>>
    BY <1>9 DEF Restart
  <2> QED
    BY <2>1
<1>10. CASE UNCHANGED vars
  BY <1>10 DEF vars
<1> QED
  BY <1>1, <1>2, <1>3, <1>4, <1>5, <1>6, <1>7, <1>8, <1>9, <1>10 DEF Next, TickStep

\* Whatever operators, breakers, clocks and crashes stop the market, and
\* whenever: nothing trades on a stopped market but the one pass, of the sweep
\* or of the risk desk, that had read it open before the stop was committed
\* (process_open_orders and sweep read the state once and trade team by team).
THEOREM TradesWhenOpen == Spec => []NoFillWhileStopped
<1>1. Init => Waits /\ OpenOrStopped
  BY ClockAssumption DEF Init, InitWith, NewRow, Columns, Waits, Procs, OpenOrStopped, NoFillWhileStopped
<1>2. Waits /\ OpenOrStopped /\ [Next]_vars => (Waits /\ OpenOrStopped)'
  BY WaitsStep, StoppedStep
<1>3. OpenOrStopped => NoFillWhileStopped
  BY DEF OpenOrStopped
<1> QED
  BY <1>1, <1>2, <1>3, PTL DEF Spec

-----------------------------------------------------------------------------
(* The unattended competition. *)

\* At most one operator, who does nothing but resume a frozen session.
Alone == Controls \subseteq {"resume_open"} /\ \A g, h \in Handlers : g = h

Unattended == InitDayOne /\ [][Next]_vars

\* What the row looks like at any time.
Calm(r) ==
  /\ r \in RowType /\ r.day \in 1 .. TotalDays
  /\ r.ends >= NoTime /\ r.frozen >= NoTime
  /\ IF r.state = "HALTED" THEN r.brk >= 0 ELSE r.brk = NoTime
  /\ r.state = "FINAL" => r.day = TotalDays

\* Which days have been charged.
Charged(r, f) ==
  f = [d \in 1 .. TotalDays + 1 |->
         IF d < r.day \/ (d = r.day /\ r.state \in {"CLOSED", "FINAL"}) THEN 1 ELSE 0]

\* The session has its whole length, run and to come.
Left(r) == IF r.state = "FROZEN" THEN IF r.frozen > 0 THEN r.frozen ELSE 0 ELSE Remaining(r)
Whole(r, n) == r.state \in {"OPEN", "HALTED", "FROZEN"} => n + Left(r) >= OpenFor

\* A transaction will write w, which it made of the row as it is ...
Fresh(t, w) == t.read = row /\ t.write = w /\ t.cols = Differs(w)

\* ... or was begun on a frozen market and writes nothing.
Void(t) == t.read.state = "FROZEN" /\ t.write.state = "FROZEN" /\ t.cols = {}

Fee(w) == IF w.state = "CLOSED" /\ row.state # "CLOSED" THEN row.day ELSE NoDay

TickPlan ==
  txn["tick"] # None =>
    /\ up
    /\ \/ /\ phase = "idle" /\ txn["tick"].by = "tick" /\ txn["tick"].charge = NoDay
          /\ \/ Void(txn["tick"])
             \/ /\ row.state # "FROZEN"
                /\ \E far \in BOOLEAN : Fresh(txn["tick"], TickRow(row, far))
       \/ /\ phase = "clock" /\ txn["tick"].by = "clock" /\ row.state # "FROZEN"
          /\ Fresh(txn["tick"], AdvanceClock(row))
          /\ txn["tick"].charge = Fee(AdvanceClock(row))

OperatorPlan ==
  \A h \in Handlers : txn[h] # None =>
    /\ up /\ row.state = "FROZEN" /\ txn[h].by = "resume_open" /\ txn[h].charge = NoDay
    /\ Fresh(txn[h], Resume(row, "OPEN"))

Loop ==
  /\ up \in BOOLEAN /\ txn = [p \in Procs |-> txn[p]]
  /\ phase # "idle" => up /\ row.state \in {"OPEN", "HALTED"}
  /\ ~up => \A p \in Procs : txn[p] = None
  /\ frozenFrom = "OPEN"
  /\ ran \in Nat /\ away \in Nat

IInv ==
  /\ Loop /\ TickPlan /\ OperatorPlan
  /\ Calm(row) /\ Charged(row, fees) /\ Whole(row, ran + away)

-----------------------------------------------------------------------------
\* What the transitions make of a calm row.

LEMMA Lengths ==
  /\ TotalDays \in Nat /\ TotalDays > 0 /\ AutoAdvance \in BOOLEAN
  /\ PreOpenFor \in Nat /\ PreOpenFor > 0 /\ OpenFor \in Nat /\ OpenFor > 0
  /\ BreakFor \in Nat /\ BreakFor > 0 /\ HaltFor \in Nat /\ HaltFor > 0
  /\ Grain \in Nat /\ Grain > 0
BY ClockAssumption

\* A freeze takes less than a second off what remains.
LEMMA WholeSeconds ==
  ASSUME NEW n \in Nat
  PROVE  Seconds(n) \in Nat /\ Seconds(n) <= n /\ n <= Seconds(n) + (Grain - 1)
<1>1. n % Grain \in 0 .. Grain - 1 /\ n % Grain <= n
  BY Lengths
<1>2. n % Grain \in Nat /\ Seconds(n) = n - (n % Grain)
  BY <1>1, Lengths DEF Seconds
<1> QED
  BY <1>1, <1>2, Lengths

\* Counting stops at the length of a session.
LEMMA CountedUpto ==
  ASSUME NEW n \in Nat, NEW m \in Nat
  PROVE  Upto(n, m) \in Nat /\ (Upto(n, m) = n + m \/ Upto(n, m) = OpenFor)
BY Lengths DEF Upto

LEMMA Values ==
  /\ "PRE_OPEN" \in States /\ "OPEN" \in States /\ "HALTED" \in States
  /\ "CLOSED" \in States /\ "FROZEN" \in States /\ "FINAL" \in States
  /\ PreOpenFor \in Int /\ OpenFor \in Int /\ BreakFor \in Int /\ HaltFor \in Int /\ NoTime \in Int
BY Lengths DEF States, NoTime

Unhalted(r) == [r EXCEPT !.state = "OPEN", !.brk = NoTime]
Tripped(r)  == [r EXCEPT !.state = "HALTED", !.brk = HaltFor]
Caught(r)   == [r EXCEPT !.state = "FROZEN", !.frozen = Seconds(Remaining(r))]

LEMMA Started ==
  ASSUME NEW r \in RowType
  PROVE  /\ StartDay(r) \in RowType
         /\ StartDay(r).state = "PRE_OPEN" /\ StartDay(r).day = r.day + 1
         /\ StartDay(r).ends = PreOpenFor
         /\ StartDay(r).frozen = r.frozen /\ StartDay(r).brk = NoTime
<1>1. StartDay(r) \in RowType
  <2>1. PICK n \in Int : n = r.day + 1
    BY DEF RowType
  <2>2. StartDay(r) = [r EXCEPT !.day = n, !.state = "PRE_OPEN", !.ends = PreOpenFor, !.brk = NoTime]
    BY <2>1 DEF StartDay
  <2> QED
    BY <2>2, Values DEF RowType
<1>2. StartDay(r).state = "PRE_OPEN" /\ StartDay(r).day = r.day + 1
  BY DEF RowType, StartDay
<1>3. StartDay(r).ends = PreOpenFor /\ StartDay(r).frozen = r.frozen /\ StartDay(r).brk = NoTime
  BY DEF RowType, StartDay
<1> QED
  BY <1>1, <1>2, <1>3

LEMMA Opened ==
  ASSUME NEW r \in RowType
  PROVE  /\ OpenTrading(r) \in RowType
         /\ OpenTrading(r).state = "OPEN" /\ OpenTrading(r).day = r.day
         /\ OpenTrading(r).ends = OpenFor
         /\ OpenTrading(r).frozen = r.frozen /\ OpenTrading(r).brk = r.brk
<1>1. OpenTrading(r) \in RowType
  BY Values DEF RowType, OpenTrading
<1>2. OpenTrading(r).state = "OPEN" /\ OpenTrading(r).day = r.day
  BY DEF RowType, OpenTrading
<1>3. OpenTrading(r).ends = OpenFor /\ OpenTrading(r).frozen = r.frozen /\ OpenTrading(r).brk = r.brk
  BY DEF RowType, OpenTrading
<1> QED
  BY <1>1, <1>2, <1>3

LEMMA Closed ==
  ASSUME NEW r \in RowType
  PROVE  /\ CloseDay(r) \in RowType
         /\ CloseDay(r).state = "CLOSED" /\ CloseDay(r).day = r.day
         /\ CloseDay(r).ends = BreakFor
         /\ CloseDay(r).frozen = r.frozen /\ CloseDay(r).brk = r.brk
<1>1. CloseDay(r) \in RowType
  BY Values DEF RowType, CloseDay
<1>2. CloseDay(r).state = "CLOSED" /\ CloseDay(r).day = r.day
  BY DEF RowType, CloseDay
<1>3. CloseDay(r).ends = BreakFor /\ CloseDay(r).frozen = r.frozen /\ CloseDay(r).brk = r.brk
  BY DEF RowType, CloseDay
<1> QED
  BY <1>1, <1>2, <1>3

LEMMA Finalised ==
  ASSUME NEW r \in RowType
  PROVE  /\ Finalise(r) \in RowType
         /\ Finalise(r).state = "FINAL" /\ Finalise(r).day = r.day
         /\ Finalise(r).ends = NoTime
         /\ Finalise(r).frozen = r.frozen /\ Finalise(r).brk = r.brk
<1>1. Finalise(r) \in RowType
  BY Values DEF RowType, Finalise
<1>2. Finalise(r).state = "FINAL" /\ Finalise(r).day = r.day
  BY DEF RowType, Finalise
<1>3. Finalise(r).ends = NoTime /\ Finalise(r).frozen = r.frozen /\ Finalise(r).brk = r.brk
  BY DEF RowType, Finalise
<1> QED
  BY <1>1, <1>2, <1>3

LEMMA Resumed ==
  ASSUME NEW r \in RowType
  PROVE  /\ Resume(r, "OPEN") \in RowType
         /\ Resume(r, "OPEN").state = "OPEN" /\ Resume(r, "OPEN").day = r.day
         /\ Resume(r, "OPEN").ends = (IF r.frozen > 0 THEN r.frozen ELSE NoTime)
         /\ Resume(r, "OPEN").frozen = NoTime /\ Resume(r, "OPEN").brk = r.brk
<1>1. Resume(r, "OPEN") \in RowType
  BY Values DEF RowType, Resume
<1>2. Resume(r, "OPEN").state = "OPEN" /\ Resume(r, "OPEN").day = r.day
  BY DEF RowType, Resume
<1>3. Resume(r, "OPEN").ends = (IF r.frozen > 0 THEN r.frozen ELSE NoTime) /\ Resume(r, "OPEN").frozen = NoTime /\ Resume(r, "OPEN").brk = r.brk
  BY DEF RowType, Resume
<1> QED
  BY <1>1, <1>2, <1>3

LEMMA AfterHalt ==
  ASSUME NEW r \in RowType
  PROVE  /\ Unhalted(r) \in RowType
         /\ Unhalted(r).state = "OPEN" /\ Unhalted(r).day = r.day
         /\ Unhalted(r).ends = r.ends
         /\ Unhalted(r).frozen = r.frozen /\ Unhalted(r).brk = NoTime
<1>1. Unhalted(r) \in RowType
  BY Values DEF RowType, Unhalted
<1>2. Unhalted(r).state = "OPEN" /\ Unhalted(r).day = r.day
  BY DEF RowType, Unhalted
<1>3. Unhalted(r).ends = r.ends /\ Unhalted(r).frozen = r.frozen /\ Unhalted(r).brk = NoTime
  BY DEF RowType, Unhalted
<1> QED
  BY <1>1, <1>2, <1>3

LEMMA AfterTrip ==
  ASSUME NEW r \in RowType
  PROVE  /\ Tripped(r) \in RowType
         /\ Tripped(r).state = "HALTED" /\ Tripped(r).day = r.day
         /\ Tripped(r).ends = r.ends
         /\ Tripped(r).frozen = r.frozen /\ Tripped(r).brk = HaltFor
<1>1. Tripped(r) \in RowType
  BY Values DEF RowType, Tripped
<1>2. Tripped(r).state = "HALTED" /\ Tripped(r).day = r.day
  BY DEF RowType, Tripped
<1>3. Tripped(r).ends = r.ends /\ Tripped(r).frozen = r.frozen /\ Tripped(r).brk = HaltFor
  BY DEF RowType, Tripped
<1> QED
  BY <1>1, <1>2, <1>3

LEMMA AfterCrash ==
  ASSUME NEW r \in RowType
  PROVE  /\ Caught(r) \in RowType
         /\ Caught(r).state = "FROZEN" /\ Caught(r).day = r.day
         /\ Caught(r).ends = r.ends
         /\ Caught(r).frozen = Seconds(Remaining(r)) /\ Caught(r).brk = r.brk
<1>1. Caught(r) \in RowType
  <2>1. Seconds(Remaining(r)) \in Int
    BY Lengths DEF RowType, Remaining, Seconds
  <2> QED
    BY <2>1, Values DEF RowType, Caught
<1>2. Caught(r).state = "FROZEN" /\ Caught(r).day = r.day
  BY DEF RowType, Caught
<1>3. Caught(r).ends = r.ends /\ Caught(r).frozen = Seconds(Remaining(r)) /\ Caught(r).brk = r.brk
  BY DEF RowType, Caught
<1> QED
  BY <1>1, <1>2, <1>3

LEMMA Aged ==
  ASSUME NEW r \in RowType
  PROVE  /\ Age(r) \in RowType
         /\ Age(r).state = r.state /\ Age(r).day = r.day
         /\ Age(r).ends = (IF r.ends > 0 THEN r.ends - 1 ELSE r.ends)
         /\ Age(r).frozen = r.frozen /\ Age(r).brk = (IF r.brk > 0 THEN r.brk - 1 ELSE r.brk)
<1>1. Age(r) \in RowType
  <2>1. PICK n \in Int, b \in Int : /\ n = IF r.ends > 0 THEN r.ends - 1 ELSE r.ends
                                    /\ b = IF r.brk > 0 THEN r.brk - 1 ELSE r.brk
    BY DEF RowType
  <2>2. Age(r) = [r EXCEPT !.ends = n, !.brk = b]
    BY <2>1 DEF Age
  <2> QED
    BY <2>2, Values DEF RowType
<1>2. Age(r).state = r.state /\ Age(r).day = r.day
  BY DEF RowType, Age
<1>3. Age(r).ends = (IF r.ends > 0 THEN r.ends - 1 ELSE r.ends) /\ Age(r).frozen = r.frozen /\ Age(r).brk = (IF r.brk > 0 THEN r.brk - 1 ELSE r.brk)
  BY DEF RowType, Age
<1> QED
  BY <1>1, <1>2, <1>3

\* The calendar's view of two rows: the later is the next stage, or the same.
StageOf(r) == IF r.state \in {"HALTED", "FROZEN"} THEN "OPEN" ELSE r.state

Follows(r, w) ==
  \/ StageOf(w) = StageOf(r) /\ w.day = r.day
  \/ StageOf(r) = "PRE_OPEN" /\ StageOf(w) = "OPEN" /\ w.day = r.day
  \/ StageOf(r) = "OPEN" /\ StageOf(w) = "CLOSED" /\ w.day = r.day
  \/ StageOf(r) = "CLOSED" /\ r.day < TotalDays /\ StageOf(w) = "PRE_OPEN" /\ w.day = r.day + 1
  \/ StageOf(r) = "CLOSED" /\ r.day = TotalDays /\ StageOf(w) = "FINAL" /\ w.day = r.day

\* A first transaction closes no day, and the session it opens is whole.
LEMMA Ticking ==
  ASSUME Calm(row), row.state # "FROZEN", NEW far \in BOOLEAN, NEW w, w = TickRow(row, far)
  PROVE  /\ Calm(w) /\ Follows(row, w) /\ w.state # "FROZEN"
         /\ row.state = "OPEN" => w.state \in {"OPEN", "HALTED"}
         /\ w.state = "CLOSED" => row.state = "CLOSED"
         /\ w.state = "FINAL" => row.state \in {"CLOSED", "FINAL"}
         /\ w.state \in {"OPEN", "HALTED"} =>
              IF row.state \in {"OPEN", "HALTED"} THEN w.ends = row.ends ELSE w.ends = OpenFor
         /\ w.state = "HALTED" => row.state \in {"OPEN", "HALTED"}
<1> USE Lengths DEF NoTime
<1>1. /\ row \in RowType /\ row.state \in States
      /\ row.day \in Int /\ row.ends \in Int /\ row.frozen \in Int /\ row.brk \in Int
  BY DEF Calm, RowType
<1>2. CASE row.state = "CLOSED"
  <2>1. w = MaybeStartNextDay(row)
    BY <1>2 DEF TickRow
  <2>2. CASE w = row
    BY <1>2, <2>2 DEF Follows
  <2>3. CASE w = Finalise(row) /\ row.day >= TotalDays
    <3>2. w \in RowType /\ w.state = "FINAL" /\ w.day = row.day /\ w.ends = NoTime
          /\ w.frozen = row.frozen /\ w.brk = row.brk
      BY <1>1, <2>3, Finalised
    <3>3. row.day = TotalDays
      BY <2>3 DEF Calm
    <3> QED
      BY <1>2, <3>2, <3>3 DEF Calm, Follows, StageOf
  <2>4. CASE w = StartDay(row) /\ row.day < TotalDays
    <3>2. w \in RowType /\ w.state = "PRE_OPEN" /\ w.day = row.day + 1 /\ w.ends = PreOpenFor
          /\ w.frozen = row.frozen /\ w.brk = NoTime
      BY <1>1, <2>4, Started
    <3> QED
      BY <1>2, <2>4, <3>2 DEF Calm, Follows, StageOf
  <2> QED
    BY <1>1, <2>1, <2>2, <2>3, <2>4 DEF MaybeStartNextDay
<1>3. CASE row.state = "PRE_OPEN"
  <2>1. w = MaybeOpen(row)
    BY <1>3 DEF TickRow
  <2>2. CASE w = row
    BY <1>3, <2>2 DEF Follows
  <2>3. CASE w = OpenTrading(row)
    <3>2. w \in RowType /\ w.state = "OPEN" /\ w.day = row.day /\ w.ends = OpenFor
          /\ w.frozen = row.frozen /\ w.brk = row.brk
      BY <1>1, <2>3, Opened
    <3> QED
      BY <1>3, <3>2 DEF Calm, Follows, StageOf
  <2> QED
    BY <2>1, <2>2, <2>3 DEF MaybeOpen
<1>4. CASE row.state = "HALTED"
  <2>1. w = AdvanceClock(row)
    BY <1>4 DEF TickRow
  <2>2. w = row \/ w = Unhalted(row)
    BY <1>4, <2>1 DEF AdvanceClock, Unhalted
  <2>3. w = row \/ (w \in RowType /\ w.state = "OPEN" /\ w.day = row.day /\ w.ends = row.ends
          /\ w.frozen = row.frozen /\ w.brk = NoTime)
    BY <1>1, <2>2, AfterHalt
  <2> QED
    BY <1>4, <2>3 DEF Calm, Follows, StageOf
<1>5. CASE row.state = "OPEN"
  <2>1. w = TripBreaker(row, far)
    BY <1>5 DEF TickRow
  <2>2. w = row \/ w = Tripped(row)
    BY <2>1 DEF TripBreaker, Tripped
  <2>3. w = row \/ (w \in RowType /\ w.state = "HALTED" /\ w.day = row.day /\ w.ends = row.ends
          /\ w.frozen = row.frozen /\ w.brk = HaltFor)
    BY <1>1, <2>2, AfterTrip
  <2> QED
    BY <1>5, <2>3 DEF Calm, Follows, StageOf
<1>6. CASE row.state = "FINAL"
  BY <1>6 DEF TickRow, Follows
<1> QED
  BY <1>1, <1>2, <1>3, <1>4, <1>5, <1>6 DEF States

\* A last transaction closes the day when nothing is left of the session.
LEMMA Advancing ==
  ASSUME Calm(row), row.state \in {"OPEN", "HALTED"}, NEW w, w = AdvanceClock(row)
  PROVE  /\ Calm(w) /\ Follows(row, w)
         /\ \/ w.state \in {"OPEN", "HALTED"} /\ w.ends = row.ends
            \/ row.state = "OPEN" /\ w.state = "CLOSED" /\ Remaining(row) = 0
<1> USE Lengths DEF NoTime
<1>1. /\ row \in RowType /\ row.state \in States
      /\ row.day \in Int /\ row.ends \in Int /\ row.frozen \in Int /\ row.brk \in Int
  BY DEF Calm, RowType
<1>2. CASE row.state = "HALTED"
  <2>2. w = row \/ w = Unhalted(row)
    BY <1>2 DEF AdvanceClock, Unhalted
  <2>3. w = row \/ (w \in RowType /\ w.state = "OPEN" /\ w.day = row.day /\ w.ends = row.ends
          /\ w.frozen = row.frozen /\ w.brk = NoTime)
    BY <1>1, <2>2, AfterHalt
  <2> QED
    BY <1>2, <2>3 DEF Calm, Follows, StageOf
<1>3. CASE row.state = "OPEN"
  <2>1. w = row \/ (w = CloseDay(row) /\ Remaining(row) = 0)
    BY <1>3 DEF AdvanceClock
  <2>2. w = row \/ (w \in RowType /\ w.state = "CLOSED" /\ w.day = row.day /\ w.ends = BreakFor
          /\ w.frozen = row.frozen /\ w.brk = row.brk)
    BY <1>1, <2>1, Closed
  <2> QED
    BY <1>3, <2>1, <2>2 DEF Calm, Follows, StageOf
<1> QED
  BY <1>2, <1>3

-----------------------------------------------------------------------------
\* What a commit makes of the row, of the charges and of the session.

LEMMA Committed ==
  ASSUME row \in RowType, NEW p \in Procs, Commit(p), txn = [q \in Procs |-> txn[q]],
         NEW w \in RowType, Fresh(txn[p], w) \/ (Void(txn[p]) /\ w = row)
  PROVE  /\ row' = w
         /\ txn'[p] = None /\ \A q \in Procs : q # p => txn'[q] = txn[q]
         /\ txn' = [q \in Procs |-> txn'[q]]
<1>1. row' = [c \in Columns |-> IF c \in txn[p].cols THEN txn[p].write[c] ELSE row[c]]
  BY DEF Commit
<1>2. CASE Fresh(txn[p], w)
  BY <1>1, <1>2, Applied DEF Fresh, Commit
<1>3. CASE Void(txn[p]) /\ w = row
  <2>1. row' = [c \in Columns |-> row[c]]
    BY <1>1, <1>3 DEF Void
  <2> QED
    BY <1>3, <2>1 DEF RowType, Columns, Commit
<1> QED
  BY <1>2, <1>3

LEMMA Uncharged ==
  ASSUME Calm(row), Charged(row, fees), NEW w, w.day \in Int,
         \/ w.day = row.day /\ (w.state \in {"CLOSED", "FINAL"} <=> row.state \in {"CLOSED", "FINAL"})
         \/ w.day = row.day + 1 /\ row.state = "CLOSED" /\ w.state = "PRE_OPEN"
  PROVE  Charged(w, fees)
<1>1. row.day \in Int
  BY DEF Calm
<1>2. ASSUME NEW d \in 1 .. TotalDays + 1
      PROVE  (d < w.day \/ (d = w.day /\ w.state \in {"CLOSED", "FINAL"}))
               <=> (d < row.day \/ (d = row.day /\ row.state \in {"CLOSED", "FINAL"}))
  BY <1>1, Lengths
<1> QED
  BY <1>2 DEF Charged

LEMMA Uncounted ==
  ASSUME Charged(row, fees), NEW p, Commit(p), txn[p].charge = NoDay, txn[p].by # "reset"
  PROVE  fees' = fees
<1>1. DOMAIN fees = 1 .. TotalDays + 1 /\ fees = [d \in DOMAIN fees |-> fees[d]]
  BY DEF Charged
<1>2. \A d \in DOMAIN fees : d # txn[p].charge
  BY <1>1, Lengths DEF NoDay
<1>3. fees' = [d \in DOMAIN fees |-> IF d = txn[p].charge /\ fees[d] < 2 THEN fees[d] + 1
                  ELSE IF txn[p].by = "reset" THEN 0 ELSE fees[d]]
  BY DEF Commit
<1> QED
  BY <1>1, <1>2, <1>3

LEMMA Counted ==
  ASSUME Calm(row), Charged(row, fees), row.state \in {"OPEN", "HALTED"},
         NEW p, Commit(p), txn[p].charge = row.day, txn[p].by = "clock",
         NEW w, w.day = row.day, w.state = "CLOSED"
  PROVE  Charged(w, fees')
<1>1. row.day \in Int /\ w.day \in Int
  BY DEF Calm
<1>2. DOMAIN fees = 1 .. TotalDays + 1
  BY DEF Charged
<1>3. fees' = [d \in DOMAIN fees |-> IF d = txn[p].charge /\ fees[d] < 2 THEN fees[d] + 1
                  ELSE IF txn[p].by = "reset" THEN 0 ELSE fees[d]]
  BY DEF Commit
<1>4. ASSUME NEW d \in 1 .. TotalDays + 1
      PROVE  fees'[d] = IF d < w.day \/ (d = w.day /\ w.state \in {"CLOSED", "FINAL"}) THEN 1 ELSE 0
  <2>1. fees[d] = IF d < row.day \/ (d = row.day /\ row.state \in {"CLOSED", "FINAL"}) THEN 1 ELSE 0
    BY DEF Charged
  <2>2. CASE d = row.day
    BY <1>1, <1>2, <1>3, <2>1, <2>2
  <2>3. CASE d # row.day
    BY <1>1, <1>2, <1>3, <2>1, <2>3
  <2> QED
    BY <2>2, <2>3
<1> QED
  BY <1>2, <1>3, <1>4 DEF Charged

-----------------------------------------------------------------------------
\* The invariant, commit by commit and then step by step.

\* Nobody resumes a market that is not frozen.
LEMMA NobodyWrites ==
  ASSUME IInv, row.state # "FROZEN"
  PROVE  \A h \in Handlers : txn[h] = None
BY DEF IInv, OperatorPlan

LEMMA AfterTick == IInv /\ TickCommit => IInv' /\ Follows(row, row')
<1> SUFFICES ASSUME IInv, TickCommit PROVE IInv' /\ Follows(row, row')
  OBVIOUS
<1>1. /\ "tick" \in Procs /\ Handlers \subseteq Procs /\ "tick" \notin Handlers
      /\ row \in RowType /\ row.day \in Int /\ row.ends \in Int /\ row.frozen \in Int
      /\ txn = [p \in Procs |-> txn[p]] /\ ran \in Nat /\ away \in Nat
  BY ClockAssumption DEF Procs, IInv, Calm, RowType, Loop
<1>2. /\ up /\ phase = "idle" /\ txn["tick"].by = "tick" /\ txn["tick"].charge = NoDay
      /\ Commit("tick") /\ UNCHANGED <<up, tripped, asked, crashed, traded>>
      /\ phase' = IF txn["tick"].read.state = "OPEN" THEN "sweep" ELSE "idle"
  BY DEF TickCommit, IInv, TickPlan
<1>3. fees' = fees
  BY <1>2, Uncounted DEF IInv
<1>4. /\ ran' = IF Opens(txn["tick"]) THEN 0 ELSE ran
      /\ away' = IF Opens(txn["tick"]) THEN 0 ELSE away
      /\ frozenFrom' = frozenFrom
  BY <1>2, Lengths DEF Commit, Breaks, NoDay
<1>5. CASE Void(txn["tick"])
  <2>1. row' = row /\ txn'["tick"] = None /\ (\A q \in Procs : q # "tick" => txn'[q] = txn[q])
        /\ txn' = [q \in Procs |-> txn'[q]]
    BY <1>1, <1>2, <1>5, Committed
  <2>2. ran' = ran /\ away' = away /\ phase' = "idle"
    BY <1>2, <1>4, <1>5 DEF Void, Opens
  <2>3. TickPlan'
    BY <2>1 DEF TickPlan
  <2>4. OperatorPlan'
    <3>1. \A h \in Handlers : txn'[h] = txn[h]
      BY <1>1, <2>1
    <3>2. \A h \in Handlers : Fresh(txn[h], Resume(row, "OPEN")) => Fresh(txn[h], Resume(row, "OPEN"))'
      BY <2>1, <3>1 DEF Fresh, Differs
    <3> QED
      BY <1>2, <2>1, <3>1, <3>2 DEF IInv, OperatorPlan
  <2>5. Loop'
    BY <1>2, <1>4, <2>1, <2>2 DEF IInv, Loop
  <2> QED
    BY <1>3, <2>1, <2>2, <2>3, <2>4, <2>5 DEF IInv, Follows
<1>6. ASSUME row.state # "FROZEN", NEW far \in BOOLEAN, Fresh(txn["tick"], TickRow(row, far))
      PROVE  IInv' /\ Follows(row, row')
  <2> DEFINE w == TickRow(row, far)
  <2> HIDE DEF w
  <2>1. /\ Calm(w) /\ Follows(row, w) /\ w.state # "FROZEN"
        /\ row.state = "OPEN" => w.state \in {"OPEN", "HALTED"}
        /\ w.state \in {"OPEN", "HALTED"} =>
             IF row.state \in {"OPEN", "HALTED"} THEN w.ends = row.ends ELSE w.ends = OpenFor
        /\ w.state = "HALTED" => row.state \in {"OPEN", "HALTED"}
    BY <1>6, Ticking DEF IInv, w
  <2>2. w \in RowType /\ w.day \in Int /\ w.ends \in Int
    BY <2>1 DEF Calm, RowType
  <2>3. row' = w /\ txn'["tick"] = None /\ (\A q \in Procs : q # "tick" => txn'[q] = txn[q])
        /\ txn' = [q \in Procs |-> txn'[q]]
    BY <1>1, <1>2, <1>6, <2>2, Committed DEF w
  <2>4. \A h \in Handlers : txn'[h] = None
    BY <1>1, <1>6, <2>3, NobodyWrites
  <2>5. Charged(w, fees)
    <3>1. \/ w.day = row.day /\ (w.state \in {"CLOSED", "FINAL"} <=> row.state \in {"CLOSED", "FINAL"})
          \/ w.day = row.day + 1 /\ row.state = "CLOSED" /\ w.state = "PRE_OPEN"
      BY <1>6, <2>1, Ticking DEF Follows, StageOf, IInv, w
    <3> QED
      BY <2>2, <3>1, Uncharged DEF IInv
  <2>6. txn["tick"].write = w /\ txn["tick"].read = row
    BY <1>6 DEF Fresh, w
  <2>7. Whole(w, ran' + away')
    <3>1. CASE w.state = "OPEN" /\ row.state \notin {"OPEN", "HALTED"}
      BY <1>4, <1>6, <2>1, <2>6, <3>1, Lengths DEF Opens, Whole, Left, Remaining, NoTime
    <3>2. CASE w.state \in {"OPEN", "HALTED"} /\ row.state \in {"OPEN", "HALTED"}
      <4>1. ran' = ran /\ away' = away /\ w.ends = row.ends
        BY <1>4, <2>1, <2>6, <3>2 DEF Opens
      <4> QED
        BY <3>2, <4>1 DEF IInv, Whole, Left, Remaining
    <3> QED
      BY <2>1, <3>1, <3>2 DEF Whole
  <2>8. ran' \in Nat /\ away' \in Nat
    BY <1>1, <1>4
  <2>9. Loop'
    BY <1>2, <1>4, <1>6, <2>1, <2>3, <2>6, <2>8 DEF IInv, Loop
  <2> QED
    BY <1>3, <2>1, <2>3, <2>4, <2>5, <2>7, <2>9 DEF IInv, TickPlan, OperatorPlan
<1> QED
  BY <1>2, <1>5, <1>6 DEF IInv, TickPlan, TickCommit

LEMMA AfterClock == IInv /\ ClockCommit => IInv' /\ Follows(row, row')
<1> SUFFICES ASSUME IInv, ClockCommit PROVE IInv' /\ Follows(row, row')
  OBVIOUS
<1> DEFINE w == AdvanceClock(row)
<1>1. /\ "tick" \in Procs /\ Handlers \subseteq Procs /\ "tick" \notin Handlers
      /\ row \in RowType /\ row.day \in Int /\ row.ends \in Int /\ row.frozen \in Int
      /\ txn = [p \in Procs |-> txn[p]] /\ ran \in Nat /\ away \in Nat
  BY ClockAssumption DEF Procs, IInv, Calm, RowType, Loop
<1>2. /\ up /\ phase = "clock" /\ txn["tick"].by = "clock" /\ row.state \in {"OPEN", "HALTED"}
      /\ Fresh(txn["tick"], w) /\ txn["tick"].charge = Fee(w)
      /\ Commit("tick") /\ UNCHANGED <<up, tripped, asked, crashed>>
      /\ phase' = "idle"
  BY DEF ClockCommit, IInv, TickPlan, Loop
<1>3. /\ Calm(w) /\ Follows(row, w)
      /\ \/ w.state \in {"OPEN", "HALTED"} /\ w.ends = row.ends
         \/ row.state = "OPEN" /\ w.state = "CLOSED" /\ Remaining(row) = 0
  BY <1>2, Advancing DEF IInv
<1> HIDE DEF w
<1>4. w \in RowType /\ w.day \in Int /\ w.ends \in Int /\ w.day = row.day
  BY <1>2, <1>3 DEF Calm, RowType, Follows, StageOf
<1>5. row' = w /\ txn'["tick"] = None /\ (\A q \in Procs : q # "tick" => txn'[q] = txn[q])
      /\ txn' = [q \in Procs |-> txn'[q]]
  BY <1>1, <1>2, <1>4, Committed
<1>6. \A h \in Handlers : txn'[h] = None
  BY <1>1, <1>2, <1>5, NobodyWrites
<1>7. /\ ran' = ran /\ away' = away /\ frozenFrom' = frozenFrom
  BY <1>2 DEF Commit, Breaks, Opens, Fresh
<1>8. Charged(w, fees')
  <2>1. CASE w.state = "CLOSED"
    <3>1. txn["tick"].charge = row.day
      BY <1>2, <2>1 DEF Fee
    <3> QED
      BY <1>2, <1>4, <2>1, <3>1, Counted DEF IInv
  <2>2. CASE w.state \in {"OPEN", "HALTED"}
    <3>1. fees' = fees
      BY <1>2, <2>2, Uncounted DEF Fee, IInv
    <3> QED
      BY <1>2, <1>4, <2>2, <3>1, Uncharged DEF IInv
  <2> QED
    BY <1>3, <2>1, <2>2
<1>9. Whole(w, ran' + away')
  BY <1>2, <1>3, <1>7 DEF IInv, Whole, Left, Remaining
<1>10. Loop'
  BY <1>1, <1>2, <1>5, <1>7 DEF IInv, Loop
<1> QED
  BY <1>3, <1>5, <1>6, <1>8, <1>9, <1>10 DEF IInv, TickPlan, OperatorPlan

LEMMA AfterResume ==
  ASSUME NEW h \in Handlers, Alone, IInv, OperatorCommit(h)
  PROVE  IInv' /\ Follows(row, row')
<1> DEFINE w == Resume(row, "OPEN")
<1>1. /\ h \in Procs /\ h # "tick" /\ "tick" \in Procs /\ Handlers \subseteq Procs
      /\ row \in RowType /\ row.day \in Int /\ row.ends \in Int /\ row.frozen \in Int
      /\ txn = [p \in Procs |-> txn[p]] /\ ran \in Nat /\ away \in Nat
  BY ClockAssumption DEF Procs, IInv, Calm, RowType, Loop
<1>2. /\ up /\ row.state = "FROZEN" /\ txn[h].by = "resume_open" /\ txn[h].charge = NoDay
      /\ Fresh(txn[h], w) /\ Commit(h) /\ UNCHANGED <<phase, up, tripped, asked, crashed, traded>>
  BY DEF OperatorCommit, IInv, OperatorPlan
<1>3. w \in RowType /\ w.state = "OPEN" /\ w.day = row.day /\ w.frozen = NoTime /\ w.brk = row.brk
      /\ w.ends = IF row.frozen > 0 THEN row.frozen ELSE NoTime
  BY <1>1, Resumed
<1> HIDE DEF w
<1>4. row' = w /\ txn'[h] = None /\ (\A q \in Procs : q # h => txn'[q] = txn[q])
      /\ txn' = [q \in Procs |-> txn'[q]]
  BY <1>1, <1>2, <1>3, Committed
<1>5. ran' = ran /\ away' = away /\ frozenFrom' = frozenFrom
  <2>1. frozenFrom = "OPEN"
    BY DEF IInv, Loop
  <2> QED
    BY <1>2, <2>1 DEF Commit, Breaks, Opens, Fresh, NoDay
<1>6. Charged(w, fees')
  <2>1. fees' = fees
    BY <1>2, Uncounted DEF IInv
  <2> QED
    BY <1>1, <1>2, <1>3, <2>1, Uncharged DEF IInv
<1>7. Whole(w, ran' + away')
  BY <1>1, <1>2, <1>3, <1>5 DEF IInv, Whole, Left, Remaining, NoTime
<1>8. Calm(w)
  BY <1>1, <1>2, <1>3 DEF IInv, Calm, NoTime
<1>9. TickPlan'
  BY <1>1, <1>2, <1>4 DEF IInv, TickPlan, Void
<1>10. \A g \in Handlers : txn'[g] = None
  BY <1>4 DEF Alone
<1>11. Loop'
  BY <1>1, <1>2, <1>3, <1>4, <1>5 DEF IInv, Loop
<1> QED
  BY <1>2, <1>3, <1>4, <1>6, <1>7, <1>8, <1>9, <1>10, <1>11 DEF IInv, OperatorPlan, Follows, StageOf

\* A transaction of the tick that has just begun.
LEMMA Planned ==
  ASSUME NEW p \in Procs, NEW by, NEW w, Begin(p, by, w), txn = [q \in Procs |-> txn[q]]
  PROVE  /\ txn'[p].by = by /\ txn'[p].read = row /\ txn'[p].write = w
         /\ txn'[p].cols = Differs(w)
         /\ txn'[p].charge = IF by = "close" \/ (by = "clock" /\ w.state = "CLOSED" /\ row.state # "CLOSED")
                             THEN row.day ELSE NoDay
         /\ \A q \in Procs : q # p => txn'[q] = txn[q]
         /\ txn' = [q \in Procs |-> txn'[q]]
BY DEF Begin, BeginCharging, Differs

\* The plans and the loop speak of the row as it is.
LEMMA PlansKept ==
  ASSUME IInv, UNCHANGED <<row, fees, ran, away>>, Loop', TickPlan', OperatorPlan'
  PROVE  IInv'
BY DEF IInv, Calm, Charged, Whole, Left, Remaining

LEMMA TickPlanKept ==
  ASSUME TickPlan, UNCHANGED <<row, phase, up>>, txn'["tick"] = txn["tick"]
  PROVE  TickPlan'
<1>1. \A w : Fresh(txn["tick"], w) => Fresh(txn["tick"], w)'
  BY DEF Fresh, Differs
<1>2. \A far : TickRow(row, far)' = TickRow(row, far)
  BY DEF TickRow, MaybeStartNextDay, MaybeOpen, AdvanceClock, TripBreaker
<1> QED
  BY DEF TickPlan, Fresh, Differs, Fee, Void

LEMMA OperatorPlanKept ==
  ASSUME OperatorPlan, UNCHANGED <<row, up>>, \A h \in Handlers : txn'[h] = txn[h]
  PROVE  OperatorPlan'
BY DEF OperatorPlan, Fresh, Differs

LEMMA Begun == IInv /\ (TickBegin \/ ClockBegin) => IInv'
<1> SUFFICES ASSUME IInv, TickBegin \/ ClockBegin PROVE IInv'
  OBVIOUS
<1>1. /\ "tick" \in Procs /\ Handlers \subseteq Procs /\ "tick" \notin Handlers
      /\ row \in RowType /\ txn = [p \in Procs |-> txn[p]]
  BY ClockAssumption DEF Procs, IInv, Calm, Loop
<1>2. ASSUME NEW by, NEW w, Begin("tick", by, w), up, UNCHANGED <<row, phase, up, fees, ran, away, frozenFrom>>,
             TickPlan'
      PROVE  IInv'
  <2>1. (\A q \in Procs : q # "tick" => txn'[q] = txn[q]) /\ txn' = [q \in Procs |-> txn'[q]]
    BY <1>1, <1>2, Planned
  <2>2. OperatorPlan'
    BY <1>1, <1>2, <2>1, OperatorPlanKept DEF IInv
  <2>3. Loop'
    BY <1>2, <2>1 DEF IInv, Loop
  <2> QED
    BY <1>2, <2>2, <2>3, PlansKept
<1>3. CASE TickBegin
  <2>1. PICK far \in BOOLEAN : Begin("tick", "tick", TickRow(row, far))
    BY <1>3 DEF TickBegin
  <2>2. up /\ phase = "idle" /\ UNCHANGED <<row, phase, up, fees, ran, away, frozenFrom>>
    BY <1>3 DEF TickBegin
  <2> DEFINE w == TickRow(row, far)
  <2>3. /\ txn'["tick"].by = "tick" /\ txn'["tick"].read = row /\ txn'["tick"].write = w
        /\ txn'["tick"].cols = Differs(w) /\ txn'["tick"].charge = NoDay
    BY <1>1, <2>1, Planned
  <2>4. row.state = "FROZEN" => Void(txn'["tick"])
    <3>1. row.state = "FROZEN" => w = row
      BY TickKeepsFrozen
    <3> QED
      BY <2>3, <3>1 DEF Void, Differs
  <2>5. Fresh(txn'["tick"], w)
    BY <2>3 DEF Fresh
  <2>6. TickPlan'
    BY <2>2, <2>3, <2>4, <2>5 DEF TickPlan, Void, Fresh, Differs
  <2> QED
    BY <1>2, <2>1, <2>2, <2>6
<1>4. CASE ClockBegin
  <2> DEFINE w == AdvanceClock(row)
  <2>1. /\ Begin("tick", "clock", w) /\ phase = "clock" /\ up
        /\ UNCHANGED <<row, phase, up, fees, ran, away, frozenFrom>>
    BY <1>4 DEF ClockBegin, IInv, Loop
  <2>2. /\ txn'["tick"].by = "clock" /\ txn'["tick"].read = row /\ txn'["tick"].write = w
        /\ txn'["tick"].cols = Differs(w) /\ txn'["tick"].charge = Fee(w)
    BY <1>1, <2>1, Planned DEF Fee
  <2>3. row.state # "FROZEN"
    BY <2>1 DEF IInv, Loop
  <2>4. TickPlan'
    BY <2>1, <2>2, <2>3 DEF TickPlan, Fresh, Differs, Fee
  <2> QED
    BY <1>2, <2>1, <2>4
<1> QED
  BY <1>3, <1>4

LEMMA Asked == ASSUME NEW h \in Handlers, NEW k \in Controls, Alone, IInv, OperatorBegin(h, k) PROVE IInv'
<1>1. /\ h \in Procs /\ h # "tick" /\ "tick" \in Procs /\ k = "resume_open"
      /\ txn = [p \in Procs |-> txn[p]]
  BY ClockAssumption DEF Procs, IInv, Loop, Alone
<1>2. /\ up /\ row.state = "FROZEN" /\ Begin(h, k, Resume(row, "OPEN"))
      /\ UNCHANGED <<row, phase, up, fees, ran, away, frozenFrom>>
  BY <1>1 DEF OperatorBegin, Allowed, OperatorRow
<1>3. /\ txn'[h].by = "resume_open" /\ txn'[h].charge = NoDay
      /\ Fresh(txn'[h], Resume(row, "OPEN"))
      /\ (\A q \in Procs : q # h => txn'[q] = txn[q]) /\ txn' = [q \in Procs |-> txn'[q]]
  BY <1>1, <1>2, Planned DEF Fresh
<1>4. OperatorPlan'
  BY <1>2, <1>3 DEF OperatorPlan, Alone, Fresh, Differs
<1>5. TickPlan'
  BY <1>1, <1>2, <1>3, TickPlanKept DEF IInv
<1>6. Loop'
  BY <1>2, <1>3 DEF IInv, Loop
<1> QED
  BY <1>2, <1>4, <1>5, <1>6, PlansKept

LEMMA Passed == IInv /\ Elapse => IInv' /\ Follows(row, row')
<1> SUFFICES ASSUME IInv, Elapse PROVE IInv' /\ Follows(row, row')
  OBVIOUS
<1>1. row \in RowType /\ row.ends \in Int /\ row.brk \in Int /\ row.frozen \in Int
  BY DEF IInv, Calm, RowType
<1>2. /\ row' \in RowType /\ row'.state = row.state /\ row'.day = row.day
      /\ row'.ends = (IF row.ends > 0 THEN row.ends - 1 ELSE row.ends)
      /\ row'.frozen = row.frozen /\ row'.brk = (IF row.brk > 0 THEN row.brk - 1 ELSE row.brk)
  BY <1>1, Aged DEF Elapse, Moment
<1>3. "tick" \in Procs /\ Handlers \subseteq Procs
  BY DEF Procs
<1>4. (\A p \in Procs : txn[p] = None) /\ UNCHANGED <<txn, phase, up, fees, frozenFrom>>
  BY DEF Elapse
<1>5. Calm(row')
  BY <1>1, <1>2 DEF IInv, Calm, NoTime
<1>6. Charged(row', fees')
  BY <1>2, <1>4 DEF IInv, Charged
<1>7. ran' \in Nat /\ away' \in Nat /\ Whole(row', ran' + away')
  <2>1. /\ ran \in Nat /\ away \in Nat /\ up \in BOOLEAN
        /\ row.state \in {"OPEN", "HALTED", "FROZEN"} => ran + away + Left(row) >= OpenFor
    BY DEF IInv, Loop, Whole
  <2> DEFINE runs == row.state \in {"OPEN", "HALTED"} /\ row.ends > 0
  <2>2. /\ ran' = Upto(ran, IF up /\ runs THEN 1 ELSE 0)
        /\ away' = Upto(away, IF ~up /\ runs THEN 1 ELSE 0)
    BY <2>1 DEF Elapse, Moment
  <2>3. ran' \in Nat /\ away' \in Nat
    BY <2>1, <2>2, CountedUpto
  <2>4. CASE runs
    <3>1. ran' + away' >= OpenFor \/ ran' + away' = ran + away + 1
      BY <2>1, <2>2, <2>4, Lengths DEF Upto
    <3>2. Left(row) = row.ends
      BY <1>1, <2>4 DEF Left, Remaining, NoTime
    <3>3. Left(row') = row.ends - 1
      BY <1>1, <1>2, <2>4 DEF Left, Remaining, NoTime
    <3>4. ran + away + row.ends >= OpenFor
      BY <2>1, <2>4, <3>2
    <3>5. ran' + away' + (row.ends - 1) >= OpenFor
      <4>1. \A n, m, l, k \in Int : (n >= k \/ n = m + 1) /\ l > 0 /\ m + l >= k => n + (l - 1) >= k
        OBVIOUS
      <4>2. ran' + away' \in Int /\ ran + away \in Int /\ OpenFor \in Int /\ row.ends \in Int /\ row.ends > 0
        BY <1>1, <2>1, <2>3, <2>4, Lengths
      <4> HIDE DEF runs
      <4> QED
        BY <3>1, <3>4, <4>1, <4>2
    <3>6. ran' + away' + Left(row') >= OpenFor
      BY <3>3, <3>5
    <3> QED
      BY <2>3, <3>6 DEF Whole
  <2>5. CASE ~runs
    <3>1. ran' + away' >= OpenFor \/ (ran' = ran /\ away' = away)
      BY <2>1, <2>2, <2>5, Lengths DEF Upto
    <3>2. row.state \in {"OPEN", "HALTED", "FROZEN"} => Left(row') = Left(row) /\ Left(row) \in Nat
      BY <1>1, <1>2, <2>5 DEF Left, Remaining, NoTime, IInv, Calm
    <3>3. ASSUME row.state \in {"OPEN", "HALTED", "FROZEN"} PROVE ran' + away' + Left(row') >= OpenFor
      <4>1. \A n, l, k \in Int : n >= k /\ l >= 0 => n + l >= k
        OBVIOUS
      <4>2. ran' + away' \in Int /\ OpenFor \in Int /\ Left(row') \in Nat
        BY <2>3, <3>2, <3>3, Lengths
      <4>3. CASE ran' + away' >= OpenFor
        BY <4>1, <4>2, <4>3
      <4>4. CASE ran' = ran /\ away' = away
        BY <2>1, <3>2, <3>3, <4>4
      <4> QED
        BY <3>1, <4>3, <4>4
    <3> QED
      BY <1>2, <2>3, <3>3 DEF Whole
  <2> QED
    BY <2>4, <2>5
<1>8. TickPlan' /\ OperatorPlan'
  BY <1>3, <1>4 DEF TickPlan, OperatorPlan
<1>9. Loop'
  BY <1>2, <1>4, <1>7 DEF IInv, Loop
<1> QED
  BY <1>2, <1>5, <1>6, <1>7, <1>8, <1>9 DEF IInv, Follows, StageOf

LEMMA Died == IInv /\ Crash => IInv'
<1> SUFFICES ASSUME IInv, Crash PROVE IInv'
  OBVIOUS
<1>1. "tick" \in Procs /\ Handlers \subseteq Procs
  BY DEF Procs
<1>2. /\ txn' = [p \in Procs |-> None] /\ phase' = "idle" /\ up' = FALSE
      /\ frozenFrom' = "OPEN" /\ UNCHANGED <<row, fees, ran, away>>
  BY DEF Crash, IInv, Loop
<1>3. \A p \in Procs : txn'[p] = None
  BY <1>2
<1>4. TickPlan' /\ OperatorPlan'
  BY <1>1, <1>3 DEF TickPlan, OperatorPlan
<1>5. Loop'
  <2>1. txn' = [p \in Procs |-> txn'[p]]
    BY <1>2
  <2> QED
    BY <1>2, <1>3, <2>1 DEF IInv, Loop
<1> QED
  BY <1>2, <1>4, <1>5, PlansKept

LEMMA Recovered == IInv /\ Restart => IInv' /\ Follows(row, row')
<1> SUFFICES ASSUME IInv, Restart PROVE IInv' /\ Follows(row, row')
  OBVIOUS
<1>1. row \in RowType /\ row.ends \in Int /\ row.brk \in Int /\ row.day \in Int
  BY DEF IInv, Calm, RowType
<1>2. "tick" \in Procs /\ Handlers \subseteq Procs
  BY DEF Procs
<1>3. /\ up' = TRUE /\ phase = "idle" /\ (\A p \in Procs : txn[p] = None)
      /\ UNCHANGED <<txn, phase, fees, ran, frozenFrom>> /\ ran \in Nat /\ away \in Nat
      /\ IF row.state = "OPEN" THEN row' = Caught(row) /\ away' = Upto(away, Grain - 1)
                               ELSE UNCHANGED <<row, away>>
  BY DEF Restart, IInv, Loop, Caught
<1>4. TickPlan' /\ OperatorPlan'
  BY <1>2, <1>3 DEF TickPlan, OperatorPlan
<1>5. Loop'
  <2>1. Grain - 1 \in Nat
    BY Lengths
  <2>2. away' \in Nat
    BY <1>3, <2>1, CountedUpto
  <2> QED
    BY <1>3, <2>2 DEF IInv, Loop
<1>6. CASE row.state # "OPEN"
  BY <1>3, <1>4, <1>5, <1>6, PlansKept DEF Follows
<1>7. CASE row.state = "OPEN"
  <2>1. row' \in RowType /\ row'.state = "FROZEN" /\ row'.day = row.day /\ row'.ends = row.ends
        /\ row'.frozen = Seconds(Remaining(row)) /\ row'.brk = row.brk
    BY <1>1, <1>3, <1>7, AfterCrash
  <2>5. Remaining(row) \in Nat
    BY <1>1 DEF IInv, Calm, Remaining, NoTime
  <2>6. /\ Seconds(Remaining(row)) \in Nat /\ Remaining(row) <= Seconds(Remaining(row)) + (Grain - 1)
    BY <2>5, WholeSeconds
  <2>2. Calm(row')
    BY <1>1, <1>7, <2>1, <2>6 DEF IInv, Calm, NoTime
  <2>3. Charged(row', fees')
    BY <1>3, <1>7, <2>1 DEF IInv, Charged
  <2>4. Whole(row', ran' + away')
    <3>1. ran + away + Remaining(row) >= OpenFor
      BY <1>7 DEF IInv, Whole, Left
    <3>2. Left(row') = Seconds(Remaining(row))
      BY <2>1, <2>6 DEF Left
    <3>3. away' = Upto(away, Grain - 1)
      BY <1>3, <1>7
    <3>4. ran + away' + Seconds(Remaining(row)) >= OpenFor
      BY <1>3, <2>5, <2>6, <3>1, <3>3, Lengths DEF Upto
    <3> QED
      BY <1>3, <2>1, <3>2, <3>4 DEF Whole
  <2> QED
    BY <1>4, <1>5, <1>7, <2>1, <2>2, <2>3, <2>4 DEF IInv, Follows, StageOf
<1> QED
  BY <1>6, <1>7

LEMMA TradingStep == IInv /\ (SweepRead \/ RiskRead \/ Trade \/ TradingDone) => IInv'
<1> SUFFICES ASSUME IInv, SweepRead \/ RiskRead \/ Trade \/ TradingDone PROVE IInv'
  OBVIOUS
<1>1. /\ UNCHANGED <<row, txn, up, fees, ran, away, frozenFrom>>
      /\ phase \in {"sweep", "risk", "filling", "covering"}
  BY DEF SweepRead, RiskRead, Capture, Trade, TradingDone, IInv, Loop
<1>2. txn["tick"] = None
  BY <1>1 DEF IInv, TickPlan
<1>3. TickPlan'
  BY <1>1, <1>2 DEF TickPlan
<1>4. OperatorPlan'
  BY <1>1, OperatorPlanKept DEF IInv
<1>5. Loop'
  BY <1>1 DEF IInv, Loop
<1> QED
  BY <1>1, <1>3, <1>4, <1>5, PlansKept

LEMMA Initially == InitDayOne => IInv
<1> SUFFICES ASSUME InitDayOne PROVE IInv
  OBVIOUS
<1>1. row = [state |-> "PRE_OPEN", day |-> 1, ends |-> PreOpenFor, frozen |-> NoTime, brk |-> NoTime]
  BY DEF InitDayOne, InitWith, NewRow
<1>2. /\ row.state = "PRE_OPEN" /\ row.day = 1 /\ row.ends = PreOpenFor /\ row.frozen = NoTime /\ row.brk = NoTime
      /\ row \in RowType
  BY <1>1, Values DEF RowType
<1>3. "tick" \in Procs /\ Handlers \subseteq Procs /\ \A p \in Procs : txn[p] = None
  BY DEF InitDayOne, InitWith, Procs
<1>4. Calm(row) /\ Whole(row, ran + away)
  BY <1>2, Lengths DEF Calm, Whole, NoTime
<1>5. Charged(row, fees)
  BY <1>2, Lengths DEF Charged, InitDayOne, InitWith
<1>6. Loop /\ TickPlan /\ OperatorPlan
  BY <1>3 DEF Loop, TickPlan, OperatorPlan, InitDayOne, InitWith
<1> QED
  BY <1>4, <1>5, <1>6 DEF IInv

LEMMA Preserved == Alone /\ IInv /\ [Next]_vars => IInv' /\ Follows(row, row')
<1> SUFFICES ASSUME Alone, IInv, [Next]_vars PROVE IInv' /\ Follows(row, row')
  OBVIOUS
<1>1. CASE UNCHANGED vars
  <2>1. UNCHANGED <<row, txn, phase, up, fees, ran, away, frozenFrom>>
    BY <1>1 DEF vars
  <2>2. TickPlan' /\ OperatorPlan'
    BY <2>1, TickPlanKept, OperatorPlanKept DEF IInv
  <2>3. Loop'
    BY <2>1 DEF IInv, Loop
  <2> QED
    BY <2>1, <2>2, <2>3, PlansKept DEF Follows
<1>2. ASSUME row' = row PROVE Follows(row, row')
  BY <1>2 DEF Follows
<1>3. CASE TickBegin \/ ClockBegin \/ Crash \/ SweepRead \/ RiskRead \/ Trade \/ TradingDone
  <2>1. row' = row
    BY <1>3 DEF TickBegin, ClockBegin, Crash, SweepRead, RiskRead, Capture, Trade, TradingDone
  <2> QED
    BY <1>2, <1>3, <2>1, Begun, Died, TradingStep
<1>4. ASSUME NEW h \in Handlers, NEW k \in Controls, OperatorBegin(h, k)
      PROVE  IInv' /\ Follows(row, row')
  <2>1. row' = row
    BY <1>4 DEF OperatorBegin
  <2> QED
    BY <1>2, <1>4, <2>1, Asked
<1> QED
  BY <1>1, <1>3, <1>4, AfterTick, AfterClock, AfterResume, Passed, Recovered DEF Next, TickStep

THEOREM Unattending == ASSUME Alone PROVE UnattendedSpec => []IInv
<1>1. InitDayOne => IInv
  BY Initially
<1>2. IInv /\ [Next]_vars => IInv'
  BY Preserved
<1> QED
  BY <1>1, <1>2, PTL DEF UnattendedSpec

-----------------------------------------------------------------------------
(* What it implies. *)

\* Without operators, each day's borrow fee is charged once, whatever crashes
\* and breaker trips there are, and no day of a finished competition is left out.
THEOREM ChargedOnce == ASSUME Alone PROVE UnattendedSpec => []OneChargePerDay
<1>1. IInv => OneChargePerDay
  <2> SUFFICES ASSUME IInv PROVE OneChargePerDay
    OBVIOUS
  <2>1. /\ DOMAIN fees = 1 .. TotalDays + 1
        /\ \A d \in DOMAIN fees : fees[d] =
             IF d < row.day \/ (d = row.day /\ row.state \in {"CLOSED", "FINAL"}) THEN 1 ELSE 0
    BY DEF IInv, Charged
  <2>2. row.state = "FINAL" => row.day = TotalDays
    BY DEF IInv, Calm
  <2>3. \A d \in 1 .. TotalDays : d \in DOMAIN fees /\ (d < TotalDays \/ d = TotalDays)
    BY <2>1, Lengths
  <2> QED
    BY <2>1, <2>2, <2>3 DEF OneChargePerDay
<1> QED
  BY <1>1, Unattending, PTL

\* Without operators, the breaker is armed whenever the market trades.
THEOREM Armed == ASSUME Alone PROVE UnattendedSpec => []OpenMeansArmed
<1>1. IInv => OpenMeansArmed
  BY DEF IInv, Calm, OpenMeansArmed
<1> QED
  BY <1>1, Unattending, PTL

\* Without operators, the clock closes a day only after its whole session,
\* halts included, frozen time excluded, however often the process died: what
\* it loses to its crashes is the time it was down, and less than a second of
\* what remained at each.  Nothing overwrites a row it has not read then, so
\* that the promise needs no exception.
THEOREM WholeSessions == ASSUME Alone PROVE UnattendedSpec => FullSession /\ NoTimeLost
<1>1. ASSUME IInv, Next, txn["tick"] = None, txn'["tick"] # None,
             txn'["tick"].by = "clock", txn'["tick"].charge # NoDay
      PROVE  ran + away >= OpenFor
  <2>1. "tick" \in Procs /\ "tick" \notin Handlers /\ txn = [p \in Procs |-> txn[p]]
    BY <1>1, ClockAssumption DEF Procs, IInv, Loop
  <2>2. ~TickBegin
    <3>1. ASSUME NEW far, Begin("tick", "tick", TickRow(row, far)) PROVE txn'["tick"].by = "tick"
      BY <2>1, <3>1, Planned
    <3> QED
      BY <1>1, <3>1 DEF TickBegin
  <2>3. ~(TickCommit \/ ClockCommit)
    BY <1>1 DEF TickCommit, ClockCommit
  <2>4. ~(SweepRead \/ RiskRead \/ Trade \/ TradingDone \/ Elapse \/ Restart)
    BY <1>1 DEF SweepRead, RiskRead, Capture, Trade, TradingDone, Elapse, Restart
  <2>5. ASSUME NEW h \in Handlers PROVE ~(\E k \in Controls : OperatorBegin(h, k)) /\ ~OperatorCommit(h)
    <3>1. h # "tick" /\ h \in Procs
      BY <2>1 DEF Procs
    <3>2. ASSUME NEW k, OperatorBegin(h, k) PROVE FALSE
      BY <1>1, <2>1, <3>1, <3>2, Planned DEF OperatorBegin
    <3>3. ~OperatorCommit(h)
      BY <1>1, <2>1, <3>1 DEF OperatorCommit, Commit
    <3> QED
      BY <3>2, <3>3
  <2>6. ~Crash
    BY <1>1, <2>1 DEF Crash
  <2>7. ClockBegin
    BY <1>1, <2>2, <2>3, <2>4, <2>5, <2>6 DEF Next, TickStep
  <2>8. row.state \in {"OPEN", "HALTED"} /\ Calm(row) /\ Whole(row, ran + away) /\ ran \in Nat /\ away \in Nat
    BY <1>1, <2>7 DEF ClockBegin, IInv, Loop
  <2>9. txn'["tick"].charge = Fee(AdvanceClock(row))
    BY <2>1, <2>7, Planned DEF ClockBegin, Fee
  <2>10. Remaining(row) = 0
    BY <1>1, <2>8, <2>9, Advancing DEF Fee
  <2> QED
    BY <2>8, <2>10 DEF Whole, Left
<1>2. IInv /\ [Next]_vars => [Closing => ran + away >= OpenFor]_vars
  BY <1>1 DEF Closing
<1>3. IInv /\ [Next]_vars => [Closing => ran + away >= OpenFor \/ overrun]_vars
  BY <1>2
<1> QED
  BY <1>2, <1>3, Unattending, PTL DEF UnattendedSpec, FullSession, NoTimeLost

\* Without operators, the engine runs the calendar of the rulebook, for any
\* number of days: every step is a step of Calendar or leaves it where it is.
THEOREM RunsTheCalendar == ASSUME Alone PROVE UnattendedSpec => RefinesCalendar
<1>1. InitDayOne => Rulebook!Init
  BY DEF InitDayOne, InitWith, NewRow, Rulebook!Init, Stage
<1>3. ASSUME Alone, IInv, IInv', [Next]_vars PROVE [Rulebook!Next]_<<row.day, Stage>>
  <2>1. Follows(row, row')
    BY <1>3, Preserved
  <2>2. Stage = StageOf(row) /\ Stage' = StageOf(row')
    <3>1. frozenFrom = "OPEN" /\ frozenFrom' = "OPEN"
      BY <1>3 DEF IInv, Loop
    <3> QED
      BY <3>1 DEF Stage, StageOf
  <2> QED
    BY <2>1, <2>2 DEF Follows, Rulebook!Next, Rulebook!Open, Rulebook!Close, Rulebook!StartDay,
                      Rulebook!Finalise
<1> QED
  BY <1>1, <1>3, Unattending, PTL DEF UnattendedSpec, RefinesCalendar, Rulebook!Spec, Rulebook!vars

-----------------------------------------------------------------------------
(* How a script moves. *)

\* What a transaction will write to the script, and to the market, begins
\* and ends as one; the last transaction of a tick leaves the script alone.
Paired ==
  /\ play = [c \in PlayColumns |-> play[c]]
  /\ txn = [p \in Procs |-> txn[p]] /\ update = [p \in Procs |-> update[p]]
  /\ \A p \in Procs : update[p] # None <=> txn[p] # None /\ (p = "tick" => phase = "idle")
  /\ txn["tick"] # None => phase \in {"idle", "clock"}

\* What the tick, and what a handler, may have set out to write.
TickWrites(u) ==
  /\ u.clears = FALSE /\ u.skips = {} /\ (u.fires = {} \/ u.fires = Due) /\ u.trades \in BOOLEAN
  /\ \/ u.cols = {} /\ u.play = play
     \/ Runs /\ u.cols = {"status"} /\ u.play = [play EXCEPT !.status = "DONE"]

Pause == Writes([play EXCEPT !.status = "PAUSED", !.idle = 0], {"idle"})
HandlerWrites(u) ==
  \/ u = NoUpdate
  \/ u = [Writes(Unplayed, {}) EXCEPT !.clears = TRUE]
  \/ u = PlayUpdate /\ play.status # "PLAYING"
  \/ u = Pause /\ play.status = "PLAYING"
  \/ \E s \in Steps : u = [NoUpdate EXCEPT !.skips = {s}]
  \/ \E s \in Steps : u = [NoUpdate EXCEPT !.fires = {s}]

Begins(p, u) == update[p] = None /\ u # None /\ BeginUpdate(p, u)
Ends(p)      == update[p] # None /\ CommitUpdate(p)
Drops ==
  /\ update' = [update EXCEPT !["tick"] = None] \/ update' = [p \in Procs |-> None]
  /\ UNCHANGED <<play, steps, landed, again, played, resumes>>
PlaysOn ==
  /\ \A p \in Procs : update[p] = None
  /\ play' = AgePlay(play)
  /\ played' = IF Runs /\ AgePlay(play) # play THEN played + 1 ELSE played
  /\ UNCHANGED <<steps, update, landed, again, resumes>>

ScriptMoves ==
  \/ \E u : Begins("tick", u) /\ TickWrites(u)
  \/ \E h \in Handlers : \E u : Begins(h, u) /\ HandlerWrites(u)
  \/ \E p \in Procs : Ends(p)
  \/ Drops
  \/ PlaysOn
  \/ UNCHANGED script

LEMMA SomeUpdate ==
  /\ NoUpdate # None
  /\ \A w, now : Writes(w, now) # None
  /\ \A w : [Writes(w, {}) EXCEPT !.clears = TRUE] # None
  /\ \A s : [NoUpdate EXCEPT !.skips = {s}] # None /\ [NoUpdate EXCEPT !.fires = {s}] # None
<1>1. ASSUME NEW u, DOMAIN u = {"play", "cols", "fires", "skips", "clears", "trades"} PROVE u # None
  <2>1. "play" \in DOMAIN u /\ "play" \notin DOMAIN None
    BY <1>1 DEF None
  <2> QED
    BY <2>1
<1>2. DOMAIN NoUpdate = {"play", "cols", "fires", "skips", "clears", "trades"}
  BY DEF NoUpdate
<1>3. \A w, now : DOMAIN Writes(w, now) = DOMAIN NoUpdate
  BY DEF Writes, NoUpdate
<1>4. \A w : DOMAIN [Writes(w, {}) EXCEPT !.clears = TRUE] = DOMAIN NoUpdate
  BY <1>3, Zenon
<1>6. \A s : DOMAIN [NoUpdate EXCEPT !.skips = {s}] = DOMAIN NoUpdate /\ DOMAIN [NoUpdate EXCEPT !.fires = {s}] = DOMAIN NoUpdate
  OBVIOUS
<1> QED
  BY <1>1, <1>2, <1>3, <1>4, <1>6, Zenon

LEMMA PairBegun ==
  ASSUME Paired, NEW p \in Procs, NEW by, by # "none", NEW w, NEW day, NEW u, u # None, UNCHANGED phase,
         BeginCharging(p, by, w, day), BeginUpdate(p, u), p = "tick" => phase = "idle"
  PROVE  Paired' /\ Begins(p, u)
<1>1. /\ txn[p] = None /\ txn' = [q \in Procs |-> txn'[q]] /\ txn'[p].by = by
      /\ \A q \in Procs \ {p} : txn'[q] = txn[q]
  BY DEF BeginCharging, Paired
<1>2. /\ update' = [q \in Procs |-> update'[q]] /\ update'[p] = u
      /\ \A q \in Procs \ {p} : update'[q] = update[q]
  BY DEF BeginUpdate, Paired
<1>3. txn'[p] # None
  BY <1>1 DEF None
<1>4. update[p] = None /\ play' = play
  BY <1>1 DEF Paired, BeginUpdate
<1>5. "tick" \in Procs /\ (p = "tick" \/ (p # "tick" /\ txn'["tick"] = txn["tick"]))
  BY <1>1 DEF Procs
<1>6. ASSUME NEW q \in Procs PROVE update'[q] # None <=> txn'[q] # None /\ (q = "tick" => phase' = "idle")
  <2>1. update[q] # None <=> txn[q] # None /\ (q = "tick" => phase = "idle")
    BY DEF Paired
  <2>2. CASE q = p
    BY <1>1, <1>2, <1>3, <2>2
  <2>3. CASE q # p
    BY <1>1, <1>2, <2>1, <2>3
  <2> QED
    BY <2>2, <2>3
<1>7. txn'["tick"] # None => phase' \in {"idle", "clock"}
  BY <1>5 DEF Paired
<1> QED
  BY <1>1, <1>2, <1>4, <1>6, <1>7 DEF Paired, Begins

LEMMA PairEnded ==
  ASSUME Paired, NEW p \in Procs, txn[p] # None, p = "tick" => phase = "idle",
         Commit(p), CommitUpdate(p), phase' = phase \/ p = "tick"
  PROVE  Paired' /\ Ends(p)
<1>1. /\ txn' = [q \in Procs |-> txn'[q]] /\ txn'[p] = None
      /\ \A q \in Procs \ {p} : txn'[q] = txn[q]
  BY DEF Commit, Paired
<1>2. /\ update' = [q \in Procs |-> update'[q]] /\ update'[p] = None
      /\ \A q \in Procs \ {p} : update'[q] = update[q]
  BY DEF CommitUpdate, Paired
<1>3. ASSUME NEW q \in Procs PROVE update'[q] # None <=> txn'[q] # None /\ (q = "tick" => phase' = "idle")
  <2>1. update[q] # None <=> txn[q] # None /\ (q = "tick" => phase = "idle")
    BY DEF Paired
  <2>2. CASE q = p
    BY <1>1, <1>2, <2>2
  <2>3. CASE q # p
    BY <1>1, <1>2, <2>1, <2>3
  <2> QED
    BY <2>2, <2>3
<1>4. update[p] # None /\ play' = [c \in PlayColumns |-> play'[c]]
  BY DEF Paired, CommitUpdate
<1>5. txn'["tick"] # None => phase' \in {"idle", "clock"}
  <2>1. "tick" \in Procs /\ (p = "tick" \/ (p # "tick" /\ txn'["tick"] = txn["tick"]))
    BY <1>1 DEF Procs
  <2> QED
    BY <1>1, <2>1 DEF Paired
<1> QED
  BY <1>1, <1>2, <1>3, <1>4, <1>5 DEF Paired, Ends

LEMMA Moving == Paired /\ [ScriptNext]_all => Paired' /\ ScriptMoves
<1> SUFFICES ASSUME Paired, [ScriptNext]_all PROVE Paired' /\ ScriptMoves
  OBVIOUS
<1>1. "tick" \in Procs /\ Handlers \subseteq Procs /\ "tick" \notin Handlers
  BY ClockAssumption DEF Procs
<1>2. CASE ScriptTickBegin
  <2>1. PICK u : /\ BeginUpdate("tick", u) /\ TickWrites(u) /\ u # None
                 /\ \E w, day : BeginCharging("tick", "tick", w, day)
    <3>1. CASE row.state \in {"PRE_OPEN", "HALTED", "OPEN"}
      <4> DEFINE after  == FireAll(Due)
                 trades == after.row.state \notin {"PRE_OPEN", "HALTED"}
      <4>1. PICK w : w = IF Runs /\ Pending = {} THEN [play EXCEPT !.status = "DONE"] ELSE play
        OBVIOUS
      <4>2. PICK v, f, t : v = [Writes(w, {}) EXCEPT !.fires = f, !.trades = t] /\ f = Due /\ t = trades
        OBVIOUS
      <4>3. /\ BeginUpdate("tick", v)
            /\ \E far \in IF trades THEN BOOLEAN ELSE {FALSE} :
                 BeginCharging("tick", "tick", Branch(after.row, far), after.charge)
        BY <1>2, <3>1, <4>1, <4>2 DEF ScriptTickBegin
      <4>4. trades \in BOOLEAN
        OBVIOUS
      <4> HIDE DEF trades
      <4>5. v # None /\ v.fires = f /\ v.skips = {} /\ v.clears = FALSE /\ v.trades = t
        <5>1. /\ v.fires = f /\ v.skips = {} /\ v.clears = FALSE /\ v.trades = t
              /\ DOMAIN v = {"play", "cols", "fires", "skips", "clears", "trades"}
          BY <4>2 DEF Writes, NoUpdate
        <5>2. "play" \in DOMAIN v /\ "play" \notin DOMAIN None
          BY <5>1 DEF None
        <5> QED
          BY <5>1, <5>2
      <4>8. v.play = w /\ v.cols = {c \in PlayColumns : w[c] # play[c]}
        BY <4>2 DEF Writes, NoUpdate
      <4>6. \/ v.cols = {} /\ v.play = play
            \/ Runs /\ v.cols = {"status"} /\ v.play = [play EXCEPT !.status = "DONE"]
        <5>1. CASE w = play
          <6>1. v.cols = {} /\ v.play = play
            BY <4>8, <5>1
          <6> QED
            BY <6>1
        <5>2. CASE Runs /\ w = [play EXCEPT !.status = "DONE"]
          <6>1. w["status"] = "DONE" /\ play["status"] # "DONE"
            BY <5>2 DEF Runs, Paired, PlayColumns
          <6>2. \A c \in PlayColumns \ {"status"} : w[c] = play[c]
            BY <5>2 DEF Paired
          <6>3. v.cols = {"status"}
            BY <4>8, <6>1, <6>2 DEF PlayColumns
          <6> QED
            BY <4>8, <5>2, <6>3
        <5> QED
          BY <4>1, <5>1, <5>2
      <4>7. TickWrites(v)
        <5>1. v.trades \in BOOLEAN
          BY <4>2, <4>4, <4>5, Zenon
        <5>2. v.clears = FALSE /\ v.skips = {} /\ v.fires = Due
          BY <4>2, <4>5, Zenon
        <5> HIDE DEF after
        <5> QED
          BY <4>6, <5>1, <5>2, Zenon DEF TickWrites
      <4> QED
        BY <4>3, <4>5, <4>7
    <3>2. CASE row.state \notin {"PRE_OPEN", "HALTED", "OPEN"}
      <4>1. PICK v : v = NoUpdate
        OBVIOUS
      <4>2. BeginUpdate("tick", v) /\ Begin("tick", "tick", TickRow(row, FALSE))
        BY <1>2, <3>2, <4>1 DEF ScriptTickBegin
      <4>3. v.clears = FALSE /\ v.skips = {} /\ v.fires = {} /\ v.cols = {} /\ v.play = play
        BY <4>1 DEF NoUpdate
      <4>4. v.trades \in BOOLEAN
        BY <4>1 DEF NoUpdate
      <4>5. TickWrites(v)
        <5>1. /\ v.fires = {} \/ v.fires = Due
              /\ v.cols = {} /\ v.play = play
          BY <4>3
        <5>2. v.clears = FALSE /\ v.skips = {}
          BY <4>3
        <5> QED
          BY <4>4, <5>1, <5>2, Zenon DEF TickWrites
      <4> QED
        BY <4>1, <4>2, <4>5, SomeUpdate DEF Begin
    <3> QED
      BY <3>1, <3>2
  <2>2. UNCHANGED phase /\ phase = "idle"
    BY <1>2 DEF ScriptTickBegin
  <2>3. Paired' /\ Begins("tick", u)
    BY <1>1, <2>1, <2>2, PairBegun
  <2> QED
    BY <2>1, <2>3 DEF ScriptMoves
<1>3. CASE ScriptTickCommit
  <2>1. phase = "idle" /\ txn["tick"] # None /\ Commit("tick") /\ CommitUpdate("tick")
    BY <1>3 DEF ScriptTickCommit
  <2> QED
    BY <1>1, <2>1, PairEnded DEF ScriptMoves
<1>4. CASE TickFails
  <2>1. /\ txn' = [txn EXCEPT !["tick"] = None] /\ update' = [update EXCEPT !["tick"] = None]
        /\ UNCHANGED phase /\ UNCHANGED <<play, steps, landed, again, played, resumes>>
    BY <1>4 DEF TickFails
  <2>2. Drops
    BY <2>1 DEF Drops
  <2>3. Paired'
    BY <1>1, <2>1 DEF Paired
  <2> QED
    BY <2>2, <2>3 DEF ScriptMoves
<1>5. CASE RestOfTick
  <2>1. UNCHANGED script /\ UNCHANGED <<update, play>>
    BY <1>5 DEF RestOfTick, script
  <2>2. CASE SweepRead \/ RiskRead \/ Trade \/ TradingDone
    BY <1>1, <2>1, <2>2 DEF SweepRead, RiskRead, Capture, Trade, TradingDone, Paired, ScriptMoves
  <2>3. CASE ClockBegin
    <3>1. /\ phase = "clock" /\ phase' = phase /\ txn' = [q \in Procs |-> txn'[q]]
          /\ \A q \in Procs \ {"tick"} : txn'[q] = txn[q]
      BY <2>3 DEF ClockBegin, Begin, BeginCharging, Paired
    <3> QED
      BY <2>1, <3>1 DEF Paired, ScriptMoves
  <2>4. CASE ClockCommit
    <3>1. /\ phase = "clock" /\ phase' = "idle" /\ txn' = [q \in Procs |-> txn'[q]] /\ txn'["tick"] = None
          /\ \A q \in Procs \ {"tick"} : txn'[q] = txn[q]
      BY <1>1, <2>4 DEF ClockCommit, Commit, Paired
    <3>2. update["tick"] = None
      BY <1>1, <3>1 DEF Paired
    <3> QED
      BY <2>1, <3>1, <3>2 DEF Paired, ScriptMoves
  <2> QED
    BY <1>5, <2>2, <2>3, <2>4 DEF RestOfTick
<1>6. ASSUME NEW h \in Handlers, NEW u, u # None, HandlerWrites(u), BeginUpdate(h, u), UNCHANGED phase,
             NEW by, by # "none", NEW w, NEW day, BeginCharging(h, by, w, day)
      PROVE  Paired' /\ ScriptMoves
  <2>1. Paired' /\ Begins(h, u)
    BY <1>1, <1>6, PairBegun
  <2> QED
    BY <1>6, <2>1 DEF ScriptMoves
<1>7. ASSUME NEW h \in Handlers, NEW k \in Controls, Control(h, k) PROVE Paired' /\ ScriptMoves
  <2>1. OperatorBegin(h, k) /\ UNCHANGED phase /\ k # "none"
    BY <1>7, ClockAssumption DEF Control, OperatorBegin
  <2>2. \E day : BeginCharging(h, k, OperatorRow(row, k), day)
    BY <2>1 DEF OperatorBegin, Begin
  <2>3. PICK u : BeginUpdate(h, u) /\ (u = NoUpdate \/ u = [Writes(Unplayed, {}) EXCEPT !.clears = TRUE])
    BY <1>7, Zenon DEF Control
  <2>4. u # None /\ HandlerWrites(u)
    BY <2>3, SomeUpdate, Zenon DEF HandlerWrites
  <2> QED
    BY <1>6, <2>1, <2>2, <2>3, <2>4
<1>8. ASSUME NEW h \in Handlers, NEW by, by # "none", NEW m, NEW u, Request(h, by, m, u), u # None, HandlerWrites(u)
      PROVE  Paired' /\ ScriptMoves
  <2>1. UNCHANGED phase /\ BeginCharging(h, by, m.row, m.charge) /\ BeginUpdate(h, u)
    BY <1>8 DEF Request
  <2> QED
    BY <1>6, <1>8, <2>1
<1>9. ASSUME NEW h \in Handlers, PlayBegin(h) PROVE Paired' /\ ScriptMoves
  <2>1. PlayUpdate # None
    BY SomeUpdate, Zenon DEF PlayUpdate
  <2>2. play.status # "PLAYING" /\ Request(h, "play", Leave, PlayUpdate)
    BY <1>9 DEF PlayBegin
  <2>3. HandlerWrites(PlayUpdate)
    BY <2>2, Zenon DEF HandlerWrites
  <2> QED
    BY <1>8, <2>1, <2>2, <2>3
<1>10. ASSUME NEW h \in Handlers, PauseBegin(h) PROVE Paired' /\ ScriptMoves
  <2>1. Pause # None
    BY SomeUpdate DEF Pause
  <2>2. play.status = "PLAYING" /\ Request(h, "pause", Leave, Pause)
    BY <1>10 DEF PauseBegin, Pause
  <2>3. HandlerWrites(Pause)
    BY <2>2, Zenon DEF HandlerWrites
  <2> QED
    BY <1>8, <2>1, <2>2, <2>3
<1>11. ASSUME NEW h \in Handlers, NEW s \in Steps, SkipBegin(h, s) PROVE Paired' /\ ScriptMoves
  <2> DEFINE u == [NoUpdate EXCEPT !.skips = {s}]
  <2>1. u # None /\ HandlerWrites(u) /\ Request(h, "skip", Leave, u)
    BY <1>11, SomeUpdate, Zenon DEF SkipBegin, HandlerWrites
  <2> QED
    BY <1>8, <2>1
<1>12. ASSUME NEW h \in Handlers, NEW s \in Steps, FireBegin(h, s) PROVE Paired' /\ ScriptMoves
  <2> DEFINE u == [NoUpdate EXCEPT !.fires = {s}]
  <2>1. u # None /\ HandlerWrites(u) /\ Request(h, "fire", StepRow(Leave, s), u)
    BY <1>12, SomeUpdate, Zenon DEF FireBegin, HandlerWrites
  <2> QED
    BY <1>8, <2>1
<1>13. ASSUME NEW h \in Handlers, RequestCommit(h) PROVE Paired' /\ ScriptMoves
  <2>1. txn[h] # None /\ Commit(h) /\ CommitUpdate(h) /\ UNCHANGED phase
    BY <1>13 DEF RequestCommit, OperatorCommit
  <2> QED
    BY <1>1, <2>1, PairEnded DEF ScriptMoves
<1>14. CASE Pass
  <2>1. UNCHANGED <<txn, phase, update>> /\ \A p \in Procs : txn[p] = None
    BY <1>14 DEF Pass
  <2>2. PlaysOn
    BY <1>14, <2>1 DEF Pass, PlaysOn, Paired
  <2>3. play' = [c \in PlayColumns |-> play'[c]]
    <3>1. \A a, b : /\ [play EXCEPT !.since = a] = [c \in PlayColumns |-> [play EXCEPT !.since = a][c]]
                   /\ [play EXCEPT !.since = a, !.idle = b] = [c \in PlayColumns |-> [play EXCEPT !.since = a, !.idle = b][c]]
      BY DEF Paired
    <3>2. \/ AgePlay(play) = play
          \/ AgePlay(play) = [play EXCEPT !.since = play.since + 1]
          \/ AgePlay(play) = [play EXCEPT !.since = play.since + 1, !.idle = play.idle + 1]
      BY DEF AgePlay
    <3>3. play' = AgePlay(play)
      BY <2>2 DEF PlaysOn
    <3> QED
      BY <3>1, <3>2, <3>3 DEF Paired
  <2> QED
    BY <2>1, <2>2, <2>3 DEF Paired, ScriptMoves
<1>15. CASE ScriptCrash
  <2>1. /\ txn' = [p \in Procs |-> None] /\ update' = [p \in Procs |-> None] /\ phase' = "idle"
        /\ UNCHANGED <<play, steps, landed, again, played, resumes>>
    BY <1>15 DEF ScriptCrash, Crash
  <2> QED
    BY <1>1, <2>1 DEF Paired, ScriptMoves, Drops
<1>16. CASE ScriptRestart
  BY <1>16 DEF ScriptRestart, Restart, script, Paired, ScriptMoves
<1>17. CASE UNCHANGED all
  BY <1>17 DEF all, vars, script, Paired, ScriptMoves
<1> QED
  BY <1>2, <1>3, <1>4, <1>5, <1>7, <1>9, <1>10, <1>11, <1>12, <1>13, <1>14, <1>15, <1>16, <1>17 DEF ScriptNext

-----------------------------------------------------------------------------
(* A script's steps take effect once. *)

\* A step that was not fired again has landed once if it has fired and else
\* not at all; and whoever is firing it is alone in it.
FiresAlone(p, s) ==
  s \notin steps.fired /\ \A q \in Procs \ {p} : update[q] # None => s \notin update[q].fires

Once ==
  /\ update = [p \in Procs |-> update[p]]
  /\ \A s \in Steps : s \in again \/ landed[s] = 0 \/ (landed[s] = 1 /\ s \in steps.fired)
  /\ \A p \in Procs : update[p] # None => \A s \in update[p].fires : s \in again \/ FiresAlone(p, s)

LEMMA OnceBegun ==
  ASSUME NEW p \in Procs, NEW u, p \in Handlers \/ u.fires \cap steps.fired = {}, BeginUpdate(p, u), Once
  PROVE  Once'
<1>1. /\ UNCHANGED <<steps, landed>>
      /\ again' = again \cup {s \in u.fires :
           \/ p \in Handlers /\ s \in steps.fired
           \/ \E q \in Procs \ {p} : update[q] # None /\ s \in update[q].fires}
      /\ update' = [update EXCEPT ![p] = u]
  BY DEF BeginUpdate
<1>2. /\ update' = [q \in Procs |-> update'[q]] /\ update'[p] = u
      /\ \A q \in Procs \ {p} : update'[q] = update[q]
  BY <1>1 DEF Once
<1>3. \A s \in Steps : s \in again' \/ landed'[s] = 0 \/ (landed'[s] = 1 /\ s \in steps'.fired)
  BY <1>1 DEF Once
<1>4. ASSUME NEW q \in Procs, update'[q] # None, NEW s \in update'[q].fires
      PROVE  s \in again' \/ FiresAlone(q, s)'
  <2>1. CASE q = p
    <3>1. s \in again' \/ s \notin steps.fired
      BY <1>1, <1>2, <1>4, <2>1
    <3>2. s \in again' \/ \A r \in Procs \ {p} : update[r] # None => s \notin update[r].fires
      BY <1>1, <1>2, <1>4, <2>1
    <3> QED
      BY <1>1, <1>2, <2>1, <3>1, <3>2 DEF FiresAlone
  <2>2. CASE q # p
    <3>1. update[q] # None /\ s \in update[q].fires /\ q \in Procs \ {p}
      BY <1>2, <1>4, <2>2
    <3>2. s \in again \/ FiresAlone(q, s)
      BY <3>1 DEF Once
    <3>3. s \in u.fires => s \in again'
      BY <1>1, <3>1
    <3> QED
      BY <1>1, <1>2, <3>2, <3>3 DEF FiresAlone
  <2> QED
    BY <2>1, <2>2
<1> QED
  BY <1>2, <1>3, <1>4 DEF Once

LEMMA OnceCommitted ==
  ASSUME NEW p \in Procs, update[p] # None, CommitUpdate(p), Once
  PROVE  Once'
<1> DEFINE u == update[p]
<1>1. /\ update' = [update EXCEPT ![p] = None] /\ again' = again
      /\ steps' = IF u.clears THEN Untouched
                  ELSE [fired |-> steps.fired \cup u.fires, skipped |-> steps.skipped \cup u.skips]
      /\ landed' = [s \in Steps |-> IF u.clears THEN 0
                                    ELSE IF s \in u.fires /\ landed[s] < 2 THEN landed[s] + 1 ELSE landed[s]]
  BY DEF CommitUpdate
<1>2. /\ update' = [q \in Procs |-> update'[q]] /\ update'[p] = None
      /\ \A q \in Procs \ {p} : update'[q] = update[q]
  BY <1>1 DEF Once
<1>3. steps'.fired = IF u.clears THEN {} ELSE steps.fired \cup u.fires
  BY <1>1 DEF Untouched
<1>4. \A s \in u.fires : s \in again \/ FiresAlone(p, s)
  BY DEF Once
<1>5. ASSUME NEW s \in Steps PROVE s \in again' \/ landed'[s] = 0 \/ (landed'[s] = 1 /\ s \in steps'.fired)
  <2>1. landed'[s] = IF u.clears THEN 0
                     ELSE IF s \in u.fires /\ landed[s] < 2 THEN landed[s] + 1 ELSE landed[s]
    BY <1>1
  <2>2. s \in again \/ landed[s] = 0 \/ (landed[s] = 1 /\ s \in steps.fired)
    BY DEF Once
  <2>3. s \in u.fires => s \in again \/ s \notin steps.fired
    BY <1>4 DEF FiresAlone
  <2> QED
    BY <1>1, <1>3, <2>1, <2>2, <2>3
<1>6. ASSUME NEW q \in Procs, update'[q] # None, NEW s \in update'[q].fires
      PROVE  s \in again' \/ FiresAlone(q, s)'
  <2>1. q \in Procs \ {p} /\ update[q] # None /\ s \in update[q].fires
    BY <1>2, <1>6
  <2>2. s \in again \/ FiresAlone(q, s)
    BY <2>1 DEF Once
  <2>3. FiresAlone(q, s) => s \notin u.fires
    BY <2>1 DEF FiresAlone
  <2>4. FiresAlone(q, s) => s \notin steps'.fired
    BY <1>3, <2>3 DEF FiresAlone
  <2> QED
    BY <1>1, <1>2, <2>2, <2>4 DEF FiresAlone
<1> QED
  BY <1>2, <1>5, <1>6 DEF Once

LEMMA OnceDropped ==
  ASSUME Once, NEW p \in Procs, UNCHANGED <<steps, landed, again>>,
         update' = [update EXCEPT ![p] = None] \/ update' = [q \in Procs |-> None]
  PROVE  Once'
<1>1. /\ update' = [q \in Procs |-> update'[q]]
      /\ \A q \in Procs : update'[q] # None => update'[q] = update[q]
  BY DEF Once
<1> QED
  BY <1>1 DEF Once, FiresAlone

LEMMA HandlerFires ==
  ASSUME NEW u, HandlerWrites(u)
  PROVE  u.fires = {} \/ \E s \in Steps : u.fires = {s}
<1>1. NoUpdate.fires = {} /\ \A w, now : Writes(w, now).fires = {}
  BY DEF Writes, NoUpdate
<1>2. [Writes(Unplayed, {}) EXCEPT !.clears = TRUE].fires = {}
  BY DEF Writes, NoUpdate
<1>3. PlayUpdate.fires = {} /\ Pause.fires = {}
  BY <1>1, Zenon DEF PlayUpdate, Pause
<1>4. \A s : [NoUpdate EXCEPT !.skips = {s}].fires = {} /\ [NoUpdate EXCEPT !.fires = {s}].fires = {s}
  BY DEF NoUpdate
<1> QED
  BY <1>1, <1>2, <1>3, <1>4 DEF HandlerWrites

LEMMA OnceStep == Once /\ (ScriptMoves \/ UNCHANGED script) => Once'
<1> SUFFICES ASSUME Once, ScriptMoves PROVE Once'
  BY DEF ScriptMoves
<1>1. "tick" \in Procs /\ Handlers \subseteq Procs
  BY DEF Procs
<1>2. ASSUME NEW u, Begins("tick", u), TickWrites(u) PROVE Once'
  <2>1. u.fires \cap steps.fired = {}
    BY <1>2 DEF TickWrites, Due, Pending
  <2> QED
    BY <1>1, <1>2, <2>1, OnceBegun DEF Begins
<1>3. ASSUME NEW h \in Handlers, NEW u, Begins(h, u), HandlerWrites(u) PROVE Once'
  BY <1>1, <1>3, OnceBegun DEF Begins
<1>4. ASSUME NEW p \in Procs, Ends(p) PROVE Once'
  BY <1>4, OnceCommitted DEF Ends
<1>5. CASE Drops
  BY <1>1, <1>5, OnceDropped DEF Drops
<1>6. CASE PlaysOn
  BY <1>6 DEF PlaysOn, Once, FiresAlone
<1>7. CASE UNCHANGED script
  BY <1>7 DEF script, Once, FiresAlone
<1> QED
  BY <1>2, <1>3, <1>4, <1>5, <1>6, <1>7 DEF ScriptMoves

LEMMA Scripted == InitScript => Paired /\ Once
<1> SUFFICES ASSUME InitScript PROVE Paired /\ Once
  OBVIOUS
<1>1. /\ txn = [p \in Procs |-> None] /\ update = [p \in Procs |-> None] /\ phase = "idle"
      /\ play = Unplayed /\ landed = [s \in Steps |-> 0]
  BY DEF InitScript, InitDayOne, InitWith
<1>2. play = [c \in PlayColumns |-> play[c]]
  BY <1>1 DEF Unplayed, PlayColumns
<1> QED
  BY <1>1, <1>2 DEF Paired, Once, Procs

\* Whatever rolls back, crashes, resets or is replayed, and however many
\* operators fire and skip: a step takes effect once, unless one of them fired
\* it by hand although it had fired or was being fired (fire_step in market.py
\* does not test fired_at).  The tick by itself never repeats a step.
THEOREM LandsOnce == ScriptSpec => []StepLandsOnce
<1>1. InitScript => Paired /\ Once
  BY Scripted
<1>2. Paired /\ Once /\ [ScriptNext]_all => (Paired /\ Once)'
  BY Moving, OnceStep
<1>3. Once => StepLandsOnce
  BY DEF Once, StepLandsOnce
<1> QED
  BY <1>1, <1>2, <1>3, PTL DEF ScriptSpec

-----------------------------------------------------------------------------
(* A pause keeps a script's place. *)

OneOperator == \A g, h \in Handlers : g = h

\* A row whose clock reads n, or up to s more: while it plays, and at the
\* pause while it is paused.
Near(x, n, s) == n <= x /\ x - n <= s

Reads(p, n, s) ==
  p.since # NoTime => /\ p.status = "PLAYING" => Near(p.since - p.offset, n, s)
                      /\ p.status = "PAUSED" => p.idle # NoTime /\ Near(p.since - p.offset - p.idle, n, s)

\* What so many pauses may put ahead, of which whole seconds are kept.
Ahead(n) == n * (Grain - 1)

\* The row that an update will leave, the moments it will have played, and
\* the pauses in them.
Merged(u) == [c \in PlayColumns |-> IF c \in u.cols THEN u.play[c] ELSE play[c]]
Told(u) == IF "since" \in u.cols /\ u.play.since = 0 THEN 0 ELSE played
Paused(u) == IF "since" \in u.cols THEN 0
             ELSE IF "idle" \in u.cols /\ u.play.idle = NoTime THEN resumes + 1 ELSE resumes

InPlace ==
  /\ play \in Plays /\ played \in Nat /\ resumes \in Nat /\ update = [p \in Procs |-> update[p]]
  /\ Reads(play, played, Ahead(resumes))
  /\ update["tick"] # None => /\ update["tick"].cols \subseteq {"status"}
                              /\ "status" \in update["tick"].cols => update["tick"].play.status = "DONE"
  /\ \A h \in Handlers : update[h] # None =>
       update[h].play \in Plays /\ Reads(Merged(update[h]), Told(update[h]), Ahead(Paused(update[h])))

LEMMA Bounded == MaxAt \in Nat /\ MaxIdle \in Nat /\ NoTime = -1
BY ScriptAssumption DEF NoTime

LEMMA OneMoreAhead ==
  /\ Ahead(0) = 0
  /\ \A n \in Nat : Ahead(n) \in Nat /\ Ahead(n + 1) = Ahead(n) + (Grain - 1)
<1>1. Grain - 1 \in Nat
  BY Lengths
<1>2. \A g, n \in Nat : 0 * g = 0 /\ n * g \in Nat /\ (n + 1) * g = n * g + g
  OBVIOUS
<1> QED
  BY <1>1, <1>2 DEF Ahead

LEMMA Columned ==
  ASSUME NEW w \in Plays
  PROVE  /\ w = [c \in PlayColumns |-> w[c]]
         /\ w.status \in {"IDLE", "PLAYING", "PAUSED", "DONE"} /\ w.since \in {NoTime} \cup Nat
         /\ w.offset \in Nat /\ w.idle \in {NoTime} \cup 0 .. MaxIdle
BY DEF Plays, PlayColumns

LEMMA MergedTyped ==
  ASSUME play \in Plays, NEW u, u.play \in Plays
  PROVE  Merged(u) \in Plays
<1>1. PICK w : w = Merged(u)
  OBVIOUS
<1>2. w = [c \in PlayColumns |-> IF c \in u.cols THEN u.play[c] ELSE play[c]]
  BY <1>1 DEF Merged
<1>3. /\ w.status \in {"IDLE", "PLAYING", "PAUSED", "DONE"} /\ w.since \in {NoTime} \cup Nat
      /\ w.offset \in Nat /\ w.idle \in {NoTime} \cup 0 .. MaxIdle
  BY <1>2, Columned DEF PlayColumns
<1>4. w = [status |-> w.status, since |-> w.since, offset |-> w.offset, idle |-> w.idle]
  BY <1>2 DEF PlayColumns
<1>5. w \in Plays
  BY <1>3, <1>4 DEF Plays
<1> QED
  BY <1>1, <1>5

\* A row that differs from the present one, read as an update of it.
LEMMA WrittenWhole ==
  ASSUME play \in Plays, NEW w \in Plays, NEW now, now \subseteq PlayColumns,
         NEW u, u = Writes(w, now) \/ u = [Writes(w, now) EXCEPT !.clears = TRUE]
  PROVE  /\ u.play = w /\ Merged(u) = w
         /\ "since" \in u.cols <=> "since" \in now \/ w.since # play.since
<1>1. u.play = w /\ u.cols = now \cup {c \in PlayColumns : w[c] # play[c]}
  BY DEF Writes, NoUpdate
<1>2. \A c \in PlayColumns : (IF c \in u.cols THEN u.play[c] ELSE play[c]) = w[c]
  BY <1>1
<1>3. Merged(u) = w
  BY <1>2, Columned DEF Merged
<1>4. "since" \in PlayColumns /\ w["since"] = w.since /\ play["since"] = play.since
  BY DEF PlayColumns
<1> QED
  BY <1>1, <1>3, <1>4

\* What a handler sets out to write keeps the place.
LEMMA Placed ==
  ASSUME InPlace, NEW u, HandlerWrites(u)
  PROVE  u.play \in Plays /\ Reads(Merged(u), Told(u), Ahead(Paused(u)))
<1>1. play \in Plays /\ played \in Nat /\ resumes \in Nat /\ Reads(play, played, Ahead(resumes))
  BY DEF InPlace
<1>2. CASE u.cols = {} /\ u.play = play
  <2>1. Merged(u) = play
    BY <1>1, <1>2, Columned DEF Merged
  <2>2. Told(u) = played /\ Paused(u) = resumes
    BY <1>2 DEF Told, Paused
  <2> QED
    BY <1>1, <1>2, <2>1, <2>2
<1>3. CASE u = [Writes(Unplayed, {}) EXCEPT !.clears = TRUE]
  <2>1. Unplayed \in Plays /\ Unplayed.since = NoTime
    BY Bounded DEF Unplayed, Plays
  <2>2. u.play = Unplayed /\ Merged(u) = Unplayed
    BY <1>1, <1>3, <2>1, WrittenWhole
  <2> QED
    BY <2>1, <2>2 DEF Reads
<1>4. CASE u = PlayUpdate /\ play.status # "PLAYING"
  <2>1. CASE Resumes
    <3>1. PICK w : w = [play EXCEPT !.status = "PLAYING", !.offset = @ + Seconds(play.idle), !.idle = NoTime]
      OBVIOUS
    <3>2. u = Writes(w, {})
      BY <1>4, <2>1, <3>1, Zenon DEF PlayUpdate
    <3>3. /\ play.status = "PAUSED" /\ play.idle \in 0 .. MaxIdle /\ play.offset \in Nat
          /\ play.since \in {NoTime} \cup Nat
      BY <1>1, <2>1, Columned DEF Resumes
    <3>4. play.idle \in Nat /\ play.idle # NoTime
      BY <2>1, <3>3, Bounded DEF Resumes
    <3>5. /\ Seconds(play.idle) \in Nat /\ Seconds(play.idle) <= play.idle
          /\ play.idle <= Seconds(play.idle) + (Grain - 1)
      BY <3>4, WholeSeconds
    <3>6. /\ w.status = "PLAYING" /\ w.since = play.since /\ w.offset = play.offset + Seconds(play.idle)
          /\ w.idle = NoTime /\ w \in Plays
      <4>1. play.offset + Seconds(play.idle) \in Nat
        BY <3>3, <3>5
      <4> QED
        BY <1>1, <3>1, <4>1 DEF Plays
    <3>7. u.play = w /\ Merged(u) = w /\ "since" \notin u.cols /\ "idle" \in u.cols
      <4>1. u.cols = {c \in PlayColumns : w[c] # play[c]}
        BY <3>2 DEF Writes, NoUpdate
      <4>2. "idle" \in u.cols
        BY <3>4, <3>6, <4>1 DEF PlayColumns
      <4> QED
        BY <1>1, <3>2, <3>6, <4>2, WrittenWhole
    <3>8. Told(u) = played /\ Paused(u) = resumes + 1
      BY <3>6, <3>7 DEF Told, Paused
    <3>9. w.since # NoTime => Near(w.since - w.offset, played, Ahead(resumes + 1))
      <4>1. Ahead(resumes) \in Nat /\ Ahead(resumes + 1) = Ahead(resumes) + (Grain - 1)
        BY <1>1, OneMoreAhead
      <4>2. w.since # NoTime => Near(play.since - play.offset - play.idle, played, Ahead(resumes))
        BY <1>1, <3>3, <3>6 DEF Reads
      <4> QED
        BY <1>1, <3>3, <3>4, <3>5, <3>6, <4>1, <4>2, Lengths DEF Near
    <3> QED
      BY <3>6, <3>7, <3>8, <3>9 DEF Reads
  <2>2. CASE ~Resumes
    <3>1. PICK w : w = [status |-> "PLAYING", since |-> 0, offset |-> 0, idle |-> NoTime]
      OBVIOUS
    <3>2. u = Writes(w, {"since"})
      BY <1>4, <2>2, <3>1, Zenon DEF PlayUpdate
    <3>3. w \in Plays /\ w.since = 0 /\ w.offset = 0 /\ w.status = "PLAYING"
      BY <3>1 DEF Plays
    <3>4. u.play = w /\ Merged(u) = w /\ "since" \in u.cols
      BY <1>1, <3>2, <3>3, WrittenWhole DEF PlayColumns
    <3>5. Told(u) = 0 /\ Paused(u) = 0 /\ Ahead(0) \in Nat
      BY <3>3, <3>4, OneMoreAhead DEF Told, Paused
    <3> QED
      BY <3>3, <3>4, <3>5 DEF Reads, Near
  <2> QED
    BY <2>1, <2>2
<1>5. CASE u = Pause /\ play.status = "PLAYING"
  <2>1. PICK w : w = [play EXCEPT !.status = "PAUSED", !.idle = 0]
    OBVIOUS
  <2>2. u = Writes(w, {"idle"})
    BY <1>5, <2>1, Zenon DEF Pause
  <2>3. /\ w.status = "PAUSED" /\ w.since = play.since /\ w.offset = play.offset /\ w.idle = 0
        /\ w \in Plays
    <3>1. 0 \in 0 .. MaxIdle
      BY Bounded
    <3> QED
      BY <1>1, <2>1, <3>1 DEF Plays
  <2>4. u.play = w /\ Merged(u) = w /\ "since" \notin u.cols
    BY <1>1, <2>2, <2>3, WrittenWhole DEF PlayColumns
  <2>5. Told(u) = played /\ Paused(u) = resumes
    BY <2>3, <2>4, Bounded DEF Told, Paused
  <2>6. play.since \in {NoTime} \cup Nat /\ play.offset \in Nat
    BY <1>1, Columned
  <2>7. w.since # NoTime => Near(w.since - w.offset - w.idle, played, Ahead(resumes)) /\ w.idle # NoTime
    BY <1>1, <1>5, <2>3, <2>6, Bounded DEF Reads, Near
  <2> QED
    BY <2>3, <2>4, <2>5, <2>7 DEF Reads
<1>6. CASE u = NoUpdate \/ \E s : u = [NoUpdate EXCEPT !.skips = {s}] \/ u = [NoUpdate EXCEPT !.fires = {s}]
  <2>1. u.cols = {} /\ u.play = play
    BY <1>6 DEF NoUpdate
  <2> QED
    BY <1>2, <2>1
<1> QED
  BY <1>3, <1>4, <1>5, <1>6 DEF HandlerWrites

LEMMA Aging ==
  ASSUME play \in Plays, played \in Nat, NEW ahead \in Nat, Reads(play, played, ahead), PlaysOn
  PROVE  play' \in Plays /\ played' \in Nat /\ Reads(play', played', ahead)
<1>1. play' = AgePlay(play) /\ played' = IF Runs /\ play' # play THEN played + 1 ELSE played
  BY DEF PlaysOn
<1>2. /\ play.status \in {"IDLE", "PLAYING", "PAUSED", "DONE"} /\ play.since \in {NoTime} \cup Nat
      /\ play.offset \in Nat /\ play.idle \in {NoTime} \cup 0 .. MaxIdle
  BY Columned
<1>3. CASE play' = play
  BY <1>1, <1>3
<1>4. CASE play' # play /\ play.status = "PLAYING"
  <2>1. play.since \in Nat /\ Runs /\ play' = [play EXCEPT !.since = @ + 1]
    BY <1>1, <1>2, <1>4 DEF Runs, AgePlay
  <2>2. /\ play'.since = play.since + 1 /\ play'.status = "PLAYING" /\ play'.offset = play.offset
        /\ play' \in Plays
    BY <1>4, <2>1 DEF Plays
  <2>3. Near(play.since - play.offset, played, ahead)
    BY <1>4, <2>1, Bounded DEF Reads
  <2>4. played' = played + 1
    BY <1>1, <1>4, <2>1
  <2>5. Near(play'.since - play'.offset, played', ahead)
    BY <1>2, <2>1, <2>2, <2>3, <2>4 DEF Near
  <2> QED
    BY <2>2, <2>4, <2>5 DEF Reads
<1>5. CASE play' # play /\ play.status # "PLAYING"
  <2>1. /\ play.status = "PAUSED" /\ play.since \in Nat /\ play.idle \in 0 .. MaxIdle /\ play.idle < MaxIdle
        /\ play' = [play EXCEPT !.since = @ + 1, !.idle = @ + 1] /\ played' = played
    BY <1>1, <1>2, <1>5 DEF Runs, AgePlay
  <2>2. /\ play'.since = play.since + 1 /\ play'.status = "PAUSED" /\ play'.offset = play.offset
        /\ play'.idle = play.idle + 1 /\ play' \in Plays
    <3>1. play.idle + 1 \in 0 .. MaxIdle /\ play.since + 1 \in Nat
      BY <2>1, Bounded
    <3> QED
      BY <2>1, <3>1 DEF Plays
  <2>3. Near(play.since - play.offset - play.idle, played, ahead)
    BY <2>1, Bounded DEF Reads
  <2>4. Near(play'.since - play'.offset - play'.idle, played', ahead) /\ play'.idle # NoTime
    BY <1>2, <2>1, <2>2, <2>3, Bounded DEF Near
  <2> QED
    BY <2>1, <2>2, <2>4 DEF Reads
<1> QED
  BY <1>3, <1>4, <1>5

LEMMA InPlaceBegun ==
  ASSUME OneOperator, InPlace, NEW p \in Procs, NEW u, Begins(p, u),
         \/ p = "tick" /\ TickWrites(u)
         \/ p \in Handlers /\ HandlerWrites(u)
  PROVE  InPlace'
<1>1. /\ UNCHANGED <<play, played, resumes>> /\ update'[p] = u /\ update' = [q \in Procs |-> update'[q]]
      /\ \A q \in Procs \ {p} : update'[q] = update[q]
  BY DEF Begins, BeginUpdate, InPlace
<1>2. "tick" \in Procs /\ Handlers \subseteq Procs /\ "tick" \notin Handlers
  BY ClockAssumption DEF Procs
<1>3. play' \in Plays /\ played' \in Nat /\ resumes' \in Nat /\ Reads(play', played', Ahead(resumes'))
  BY <1>1 DEF InPlace
<1>4. update'["tick"] # None => /\ update'["tick"].cols \subseteq {"status"}
                                /\ "status" \in update'["tick"].cols => update'["tick"].play.status = "DONE"
  <2>1. CASE p = "tick"
    <3>1. u.cols = {} \/ (u.cols = {"status"} /\ u.play = [play EXCEPT !.status = "DONE"])
      BY <1>2, <2>1 DEF TickWrites
    <3>2. [play EXCEPT !.status = "DONE"].status = "DONE"
      BY DEF InPlace, Plays
    <3> QED
      BY <1>1, <2>1, <3>1, <3>2
  <2>2. CASE p # "tick"
    BY <1>1, <1>2, <2>2 DEF InPlace
  <2> QED
    BY <2>1, <2>2
<1>5. ASSUME NEW h \in Handlers, update'[h] # None
      PROVE  (update[h].play \in Plays /\ Reads(Merged(update[h]), Told(update[h]), Ahead(Paused(update[h]))))'
  <2>1. PICK v : v = update'[h]
    OBVIOUS
  <2>2. v.play \in Plays /\ Reads(Merged(v), Told(v), Ahead(Paused(v)))
    <3>1. CASE h = p
      <4>1. PICK w : w = u /\ HandlerWrites(w)
        BY <1>2, <3>1
      <4>2. w.play \in Plays /\ Reads(Merged(w), Told(w), Ahead(Paused(w)))
        BY <4>1, Placed
      <4> QED
        BY <1>1, <2>1, <3>1, <4>1, <4>2
    <3>2. CASE h # p
      BY <1>1, <1>2, <1>5, <2>1, <3>2 DEF InPlace
    <3> QED
      BY <3>1, <3>2
  <2>3. Merged(update[h])' = Merged(v) /\ Told(update[h])' = Told(v) /\ Paused(update[h])' = Paused(v)
    BY <1>1, <2>1 DEF Merged, Told, Paused
  <2> QED
    BY <2>1, <2>2, <2>3
<1> QED
  BY <1>1, <1>3, <1>4, <1>5 DEF InPlace

LEMMA InPlaceEnded ==
  ASSUME OneOperator, InPlace, NEW p \in Procs, Ends(p)
  PROVE  InPlace'
<1> DEFINE u == update[p]
<1>1. /\ play' = Merged(u) /\ played' = Told(u) /\ resumes' = Paused(u) /\ update'[p] = None /\ update' = [q \in Procs |-> update'[q]]
      /\ \A q \in Procs \ {p} : update'[q] = update[q]
  BY DEF Ends, CommitUpdate, InPlace, Merged, Told, Paused
<1>2. "tick" \in Procs /\ Handlers \subseteq Procs /\ "tick" \notin Handlers
  BY ClockAssumption DEF Procs
<1>3. play \in Plays /\ played \in Nat /\ resumes \in Nat /\ Reads(play, played, Ahead(resumes)) /\ update[p] # None
  BY DEF InPlace, Ends
<1>4. Told(u) \in Nat /\ Paused(u) \in Nat
  BY <1>3 DEF Told, Paused
<1>5. CASE p \in Handlers
  <2>1. u.play \in Plays /\ Reads(Merged(u), Told(u), Ahead(Paused(u)))
    BY <1>3, <1>5 DEF InPlace
  <2>2. Merged(u) \in Plays
    <3>1. PICK v : v = u
      OBVIOUS
    <3> QED
      BY <1>3, <2>1, <3>1, MergedTyped
  <2>3. \A h \in Handlers : update'[h] = None
    BY <1>1, <1>5 DEF OneOperator
  <2>4. update'["tick"] = update["tick"]
    BY <1>1, <1>2, <1>5
  <2> QED
    BY <1>1, <1>4, <2>1, <2>2, <2>3, <2>4 DEF InPlace
<1>6. CASE p = "tick"
  <2>1. u.cols \subseteq {"status"} /\ ("status" \in u.cols => u.play.status = "DONE")
    BY <1>3, <1>6 DEF InPlace
  <2>2. played' = played /\ resumes' = resumes
    BY <1>1, <2>1 DEF Told, Paused
  <2>3. play' = play \/ ("status" \in u.cols /\ play' = [play EXCEPT !.status = "DONE"])
    <3>1. CASE "status" \in u.cols
      <4>1. \A c \in PlayColumns : (IF c \in u.cols THEN u.play[c] ELSE play[c]) = [play EXCEPT !.status = "DONE"][c]
        BY <1>3, <2>1, <3>1, Columned DEF PlayColumns
      <4>2. [play EXCEPT !.status = "DONE"] = [c \in PlayColumns |-> [play EXCEPT !.status = "DONE"][c]]
        BY <1>3, Columned
      <4> HIDE DEF u
      <4>3. Merged(u) = [play EXCEPT !.status = "DONE"]
        BY <4>1, <4>2, Zenon DEF Merged
      <4> QED
        BY <1>1, <3>1, <4>3
    <3>2. CASE "status" \notin u.cols
      <4>1. u.cols = {}
        BY <2>1, <3>2
      <4> QED
        BY <1>1, <1>3, <4>1, Columned DEF Merged
    <3> QED
      BY <3>1, <3>2
  <2>4. play' \in Plays /\ Reads(play', played', Ahead(resumes'))
    <3>1. CASE play' = play
      BY <1>3, <2>2, <3>1
    <3>2. CASE play' = [play EXCEPT !.status = "DONE"]
      <4>1. play' \in Plays /\ play'.status = "DONE"
        BY <1>3, <3>2 DEF Plays
      <4> QED
        BY <4>1 DEF Reads
    <3> QED
      BY <2>3, <3>1, <3>2
  <2>5. ASSUME NEW h \in Handlers, update'[h] # None
        PROVE  (update[h].play \in Plays /\ Reads(Merged(update[h]), Told(update[h]), Ahead(Paused(update[h]))))'
    <3>1. PICK v : v = update[h]
      OBVIOUS
    <3>2. update'[h] = v /\ v # None /\ v.play \in Plays /\ Reads(Merged(v), Told(v), Ahead(Paused(v)))
      BY <1>1, <1>2, <1>6, <2>5, <3>1 DEF InPlace
    <3>3. /\ Told(update[h])' = Told(v) /\ Paused(update[h])' = Paused(v)
          /\ Merged(update[h])' = Merged(v)'
      BY <2>2, <3>2 DEF Told, Paused, Merged
    <3>4. CASE Merged(v)' = Merged(v)
      BY <3>2, <3>3, <3>4
    <3>5. CASE Merged(v)' # Merged(v)
      <4>1. play' = [play EXCEPT !.status = "DONE"] /\ "status" \notin v.cols
        <5>1. play' # play
          BY <3>5 DEF Merged
        <5>2. play' = [play EXCEPT !.status = "DONE"]
          BY <2>3, <5>1
        <5>3. \A c \in PlayColumns \ {"status"} : play'[c] = play[c]
          BY <1>3, <5>2, Columned
        <5>4. "status" \in v.cols => \A c \in PlayColumns :
                (IF c \in v.cols THEN v.play[c] ELSE play'[c]) = (IF c \in v.cols THEN v.play[c] ELSE play[c])
          BY <5>3
        <5> QED
          BY <3>5, <5>2, <5>4, Zenon DEF Merged
      <4>2. Merged(v)'["status"] = "DONE"
        <5>1. "status" \in PlayColumns
          BY DEF PlayColumns
        <5>2. play'["status"] = "DONE"
          BY <1>3, <4>1, <5>1, Columned
        <5> QED
          BY <4>1, <5>1, <5>2 DEF Merged
      <4>3. Merged(v)'.status = "DONE"
        BY <4>2
      <4>4. Reads(Merged(v)', Told(v), Ahead(Paused(v)))
        BY <4>3 DEF Reads
      <4> QED
        BY <3>2, <3>3, <4>4
    <3> QED
      BY <3>4, <3>5
  <2>6. update'["tick"] = None
    BY <1>1, <1>6
  <2> QED
    BY <1>1, <1>4, <2>4, <2>5, <2>6 DEF InPlace
<1> QED
  BY <1>5, <1>6 DEF Procs

LEMMA InPlaceStep == OneOperator /\ InPlace /\ (ScriptMoves \/ UNCHANGED script) => InPlace'
<1> SUFFICES ASSUME OneOperator, InPlace, ScriptMoves PROVE InPlace'
  BY DEF ScriptMoves
<1>1. "tick" \in Procs /\ Handlers \subseteq Procs
  BY DEF Procs
<1>2. ASSUME NEW u, Begins("tick", u), TickWrites(u) PROVE InPlace'
  BY <1>1, <1>2, InPlaceBegun
<1>3. ASSUME NEW h \in Handlers, NEW u, Begins(h, u), HandlerWrites(u) PROVE InPlace'
  BY <1>1, <1>3, InPlaceBegun
<1>4. ASSUME NEW p \in Procs, Ends(p) PROVE InPlace'
  BY <1>4, InPlaceEnded
<1>5. ASSUME UNCHANGED <<play, played, resumes>>, update' = [q \in Procs |-> update'[q]],
             \A q \in Procs : update'[q] # None => update'[q] = update[q]
      PROVE  InPlace'
  <2>1. ASSUME NEW h \in Handlers, update'[h] # None
        PROVE  (update[h].play \in Plays /\ Reads(Merged(update[h]), Told(update[h]), Ahead(Paused(update[h]))))'
    <3>1. update'[h] = update[h]
      BY <1>1, <1>5, <2>1
    <3>2. /\ Merged(update[h])' = Merged(update[h]) /\ Told(update[h])' = Told(update[h])
          /\ Paused(update[h])' = Paused(update[h])
      BY <1>5, <3>1 DEF Merged, Told, Paused
    <3> QED
      BY <2>1, <3>1, <3>2 DEF InPlace
  <2> QED
    BY <1>1, <1>5, <2>1 DEF InPlace
<1>6. CASE Drops
  <2>1. UNCHANGED <<play, played, resumes>>
    BY <1>6 DEF Drops
  <2>2. /\ update' = [q \in Procs |-> update'[q]]
        /\ \A q \in Procs : update'[q] # None => update'[q] = update[q]
    BY <1>6 DEF Drops, InPlace
  <2> QED
    BY <1>5, <2>1, <2>2
<1>7. CASE PlaysOn
  <2>1. update' = update /\ resumes' = resumes /\ \A p \in Procs : update[p] = None
    BY <1>7 DEF PlaysOn
  <2>2. play' \in Plays /\ played' \in Nat /\ Reads(play', played', Ahead(resumes))
    <3>1. PICK ahead \in Nat : ahead = Ahead(resumes)
      BY OneMoreAhead DEF InPlace
    <3> QED
      BY <1>7, <3>1, Aging DEF InPlace
  <2> QED
    BY <1>1, <2>1, <2>2 DEF InPlace
<1>8. CASE UNCHANGED script
  <2>1. UNCHANGED <<play, played, resumes, update>>
    BY <1>8 DEF script
  <2> QED
    BY <1>5, <2>1 DEF InPlace
<1> QED
  BY <1>2, <1>3, <1>4, <1>6, <1>7, <1>8 DEF ScriptMoves

LEMMA PlacedFirst == InitScript => InPlace
<1> SUFFICES ASSUME InitScript PROVE InPlace
  OBVIOUS
<1>1. update = [p \in Procs |-> None] /\ play = Unplayed /\ played = 0 /\ resumes = 0
  BY DEF InitScript
<1>2. Unplayed \in Plays /\ Unplayed.since = NoTime
  BY Bounded DEF Unplayed, Plays
<1>3. "tick" \in Procs /\ Handlers \subseteq Procs
  BY DEF Procs
<1> QED
  BY <1>1, <1>2, <1>3 DEF InPlace, Reads

\* One operator at a time, racing the tick: whatever is paused, resumed,
\* restarted, reset or crashes in between, a playing script stands at what it
\* has played, and less than a second ahead for every pause (models.py,
\* Scenario: "A paused scenario resumes at the right offset"; of a pause, whole
\* seconds are kept).  With two operators it need not: a resume that read
\* the pause and commits after another operator's reset and replay takes that
\* pause off the new clock.
THEOREM KeepsItsPlace == ASSUME OneOperator PROVE ScriptSpec => []PauseKeepsOffset
<1>1. InitScript => Paired /\ InPlace
  BY Scripted, PlacedFirst
<1>2. Paired /\ InPlace /\ [ScriptNext]_all => (Paired /\ InPlace)'
  BY Moving, InPlaceStep
<1>3. InPlace => PauseKeepsOffset
  BY DEF InPlace, Reads, Near, Ahead, PauseKeepsOffset, Runs, At
<1> QED
  BY <1>1, <1>2, <1>3, PTL DEF ScriptSpec

-----------------------------------------------------------------------------
(* The types of a scripted market. *)

LEMMA LongestOfAll ==
  Longest \in Nat /\ PreOpenFor \in 0 .. Longest /\ OpenFor \in 0 .. Longest /\ BreakFor \in 0 .. Longest
<1> DEFINE All == {PreOpenFor, OpenFor, BreakFor}
<1>1. \E n \in All : \A m \in All : m <= n
  <2>1. \A m, n \in All : m <= n \/ n <= m
    BY Lengths
  <2> QED
    BY Lengths
<1>2. Longest \in All /\ \A m \in All : m <= Longest
  BY <1>1 DEF Longest
<1> QED
  BY <1>2, Lengths

LEMMA RowFields ==
  ASSUME NEW r \in Row
  PROVE  /\ r.state \in States /\ r.day \in Nat /\ r.ends \in {NoTime} \cup 0 .. Longest
         /\ r.frozen \in {NoTime} \cup 0 .. Longest /\ r.brk \in {NoTime} \cup 0 .. HaltFor
         /\ Remaining(r) \in 0 .. Longest /\ Seconds(Remaining(r)) \in 0 .. Longest
         /\ r = [c \in Columns |-> r[c]]
<1>1. /\ r.state \in States /\ r.day \in Nat /\ r.ends \in {NoTime} \cup 0 .. Longest
      /\ r.frozen \in {NoTime} \cup 0 .. Longest /\ r.brk \in {NoTime} \cup 0 .. HaltFor
      /\ r = [c \in Columns |-> r[c]]
  BY DEF Row, Columns
<1>2. Remaining(r) \in 0 .. Longest
  BY <1>1, LongestOfAll DEF Remaining
<1>3. Seconds(Remaining(r)) \in 0 .. Longest
  <2>1. Remaining(r) \in Nat
    BY <1>2, LongestOfAll
  <2>2. Seconds(Remaining(r)) \in Nat /\ Seconds(Remaining(r)) <= Remaining(r)
    BY <2>1, WholeSeconds
  <2> QED
    BY <1>2, <2>2, LongestOfAll
<1> QED
  BY <1>1, <1>2, <1>3

LEMMA RowMoves ==
  ASSUME NEW r \in Row
  PROVE  /\ StartDay(r) \in Row /\ OpenTrading(r) \in Row /\ CloseDay(r) \in Row /\ Finalise(r) \in Row
         /\ Freeze(r) \in Row /\ Halt(r) \in Row /\ Reset(r) \in Row
         /\ \A to \in States : Resume(r, to) \in Row
<1>1. /\ r.day + 1 \in Nat /\ 0 \in Nat /\ NoTime \in {NoTime} \cup 0 .. Longest
      /\ NoTime \in {NoTime} \cup 0 .. HaltFor
      /\ PreOpenFor \in 0 .. Longest /\ OpenFor \in 0 .. Longest /\ BreakFor \in 0 .. Longest
      /\ Seconds(Remaining(r)) \in 0 .. Longest
      /\ (IF r.frozen > 0 THEN r.frozen ELSE NoTime) \in {NoTime} \cup 0 .. Longest
  BY RowFields, LongestOfAll
<1>2. /\ "PRE_OPEN" \in States /\ "OPEN" \in States /\ "HALTED" \in States
      /\ "CLOSED" \in States /\ "FROZEN" \in States /\ "FINAL" \in States
  BY DEF States
<1>3. StartDay(r) \in Row /\ OpenTrading(r) \in Row /\ CloseDay(r) \in Row /\ Finalise(r) \in Row
  BY <1>1, <1>2 DEF StartDay, OpenTrading, CloseDay, Finalise, Row
<1>4. Freeze(r) \in Row
  BY <1>1, <1>2 DEF Freeze, Row
<1>5. Halt(r) \in Row /\ Reset(r) \in Row
  BY <1>1, <1>2 DEF Halt, Reset, Row
<1>6. ASSUME NEW to \in States PROVE Resume(r, to) \in Row
  BY <1>1 DEF Resume, Row
<1> QED
  BY <1>3, <1>4, <1>5, <1>6

LEMMA RowTicks ==
  ASSUME NEW r \in Row, NEW far
  PROVE  TickRow(r, far) \in Row /\ AdvanceClock(r) \in Row /\ Branch(r, far) \in Row /\ Age(r) \in Row
<1>1. TripBreaker(r, far) \in Row
  <2>1. "HALTED" \in States /\ HaltFor \in {NoTime} \cup 0 .. HaltFor
    BY Lengths DEF States
  <2> QED
    BY <2>1 DEF TripBreaker, Row
<1>2. AdvanceClock(r) \in Row
  <2>1. [r EXCEPT !.state = "OPEN", !.brk = NoTime] \in Row
    BY DEF Row, States
  <2>2. AdvanceClock(r) \in {r, [r EXCEPT !.state = "OPEN", !.brk = NoTime], CloseDay(r)}
    BY DEF AdvanceClock
  <2> QED
    BY <2>1, <2>2, RowMoves
<1>3. MaybeOpen(r) \in Row /\ MaybeStartNextDay(r) \in Row
  BY RowMoves, Zenon DEF MaybeOpen, MaybeStartNextDay
<1>4. TickRow(r, far) \in {r, MaybeStartNextDay(r), MaybeOpen(r), AdvanceClock(r), TripBreaker(r, far)}
  BY DEF TickRow
<1>5. Branch(r, far) \in {MaybeOpen(r), AdvanceClock(r), TripBreaker(r, far)}
  BY DEF Branch
<1>6. Age(r) \in Row
  <2>1. \A n, m \in Nat : \A k \in {NoTime} \cup 0 .. m : (IF k > 0 THEN k - 1 ELSE k) \in {NoTime} \cup 0 .. m
    BY DEF NoTime
  <2>2. /\ (IF r.ends > 0 THEN r.ends - 1 ELSE r.ends) \in {NoTime} \cup 0 .. Longest
        /\ (IF r.brk > 0 THEN r.brk - 1 ELSE r.brk) \in {NoTime} \cup 0 .. HaltFor
    BY <2>1, RowFields, LongestOfAll, Lengths
  <2> QED
    BY <2>2 DEF Age, Row
<1> QED
  BY <1>1, <1>2, <1>3, <1>4, <1>5, <1>6

LEMMA OperatorRows ==
  ASSUME NEW r \in Row, NEW k \in Controls
  PROVE  OperatorRow(r, k) \in Row
<1>1. OpenTrading(IF r.day = 0 THEN StartDay(r) ELSE r) \in Row
  <2>1. (IF r.day = 0 THEN StartDay(r) ELSE r) \in Row
    BY RowMoves
  <2> QED
    BY <2>1, RowMoves
<1>2. "OPEN" \in States /\ "PRE_OPEN" \in States /\ "CLOSED" \in States
  BY DEF States
<1>3. OperatorRow(r, k) \in {StartDay(r), OpenTrading(IF r.day = 0 THEN StartDay(r) ELSE r), CloseDay(r), Halt(r),
        Freeze(r), Finalise(r), Reset(r), Resume(r, "OPEN"), Resume(r, "PRE_OPEN"), Resume(r, "CLOSED")}
  BY ClockAssumption DEF OperatorRow
<1>4. /\ Resume(r, "OPEN") \in Row /\ Resume(r, "PRE_OPEN") \in Row /\ Resume(r, "CLOSED") \in Row
      /\ StartDay(r) \in Row /\ CloseDay(r) \in Row /\ Halt(r) \in Row /\ Freeze(r) \in Row
      /\ Finalise(r) \in Row /\ Reset(r) \in Row
  BY <1>2, RowMoves
<1> QED
  BY <1>1, <1>3, <1>4

\* Whatever a script does to the row, it is a row.
Moved == [row : Row, charge : Nat]

LEMMA StepMoves ==
  ASSUME NEW m \in Moved, NEW s \in Steps
  PROVE  StepRow(m, s) \in Moved
<1>1. m.row \in Row /\ m.charge \in Nat /\ m.row.day \in Nat
  BY RowFields DEF Moved
<1>2. OpenTrading(m.row) \in Row /\ CloseDay(m.row) \in Row /\ StartDay(m.row) \in Row
  BY <1>1, RowMoves
<1>3. /\ [m EXCEPT !.row = OpenTrading(@)] \in Moved
      /\ [row |-> CloseDay(m.row), charge |-> m.row.day] \in Moved
      /\ [m EXCEPT !.row = StartDay(@)] \in Moved
  BY <1>1, <1>2 DEF Moved
<1>4. StepRow(m, s) \in {m, [m EXCEPT !.row = OpenTrading(@)], [row |-> CloseDay(m.row), charge |-> m.row.day],
                         [m EXCEPT !.row = StartDay(@)]}
  BY DEF StepRow
<1> QED
  BY <1>3, <1>4

\* Nor does a tick's sequence of steps leave any set that each of them keeps to.
LEMMA AllSteps ==
  ASSUME NEW M, Leave \in M, \A m \in M, s \in Steps : StepRow(m, s) \in M, NEW due
  PROVE  FireAll(due) \in M
<1> DEFINE L == Len(Script)
           step(n, v) == IF n \in due THEN StepRow(v, n) ELSE v
           F == [x \in (1 .. L) \X M |-> step(x[1], x[2])]
<1>1. L \in Nat /\ Steps = 1 .. L
  BY ScriptAssumption DEF Steps
<1>2. Leave \in M
  OBVIOUS
<1>3. \A n \in 1 .. L, v \in M : step(n, v) \in M
  BY <1>1
<1>4. \A n \in 1 .. L, v \in M : F[<<n, v>>] = step(n, v)
  <2> HIDE DEF step
  <2> QED
    OBVIOUS
<1>5. IsLoop(L, M, F)
  <2>1. \A x \in (1 .. L) \X M : x[1] \in 1 .. L /\ x[2] \in M
    OBVIOUS
  <2>2. \A x \in (1 .. L) \X M : step(x[1], x[2]) \in M
    BY <1>3, <2>1
  <2> HIDE DEF step
  <2> QED
    BY <2>2 DEF IsLoop
<1> HIDE DEF F
<1>6. PICK h \in [0 .. L -> M] : h[0] = Leave /\ \A n \in 1 .. L : h[n] = step(n, h[n - 1])
  <2>1. PICK b : b = Leave
    OBVIOUS
  <2>2. PICK h : IsHistory(L, M, b, F, h)
    BY <1>1, <1>2, <1>5, <2>1, LoopHasHistory
  <2>3. h \in [0 .. L -> M] /\ h[0] = Leave
    BY <2>1, <2>2 DEF IsHistory
  <2>4. ASSUME NEW n \in 1 .. L PROVE h[n] = step(n, h[n - 1])
    <3>1. n - 1 \in 0 .. L
      BY <1>1
    <3>2. h[n - 1] \in M
      BY <2>3, <3>1
    <3> HIDE DEF step
    <3> QED
      BY <1>4, <2>2, <3>2 DEF IsHistory
  <2> HIDE DEF step
  <2> QED
    BY <2>3, <2>4
<1> DEFINE f == CHOOSE f : f = [n \in 0 .. L |-> IF n = 0 THEN Leave
                                ELSE IF n \in due THEN StepRow(f[n - 1], n) ELSE f[n - 1]]
<1>7. h = [n \in 0 .. L |-> IF n = 0 THEN Leave ELSE IF n \in due THEN StepRow(h[n - 1], n) ELSE h[n - 1]]
  <2>1. \A n \in 0 .. L : n = 0 \/ (n # 0 /\ n \in 1 .. L)
    BY <1>1
  <2> QED
    BY <1>6, <2>1
<1>8. f = [n \in 0 .. L |-> IF n = 0 THEN Leave ELSE IF n \in due THEN StepRow(f[n - 1], n) ELSE f[n - 1]]
  BY <1>7, Zenon
<1>9. FireAll(due) = f[L]
  BY DEF FireAll
<1> HIDE DEF f
<1>10. f[0] = Leave /\ \A n \in 1 .. L : f[n] = step(n, f[n - 1])
  <2>1. 0 \in 0 .. L /\ \A n \in 1 .. L : n \in 0 .. L /\ n # 0
    BY <1>1
  <2> QED
    BY <1>8, <2>1
<1> DEFINE S == {n \in Nat : n <= L => f[n] \in M}
<1>11. 0 \in S
  BY <1>2, <1>10
<1>12. ASSUME NEW n \in Nat, n \in S PROVE n + 1 \in S
  <2>1. SUFFICES ASSUME n + 1 <= L PROVE f[n + 1] \in M
    OBVIOUS
  <2>2. f[n] \in M /\ n + 1 \in 1 .. L /\ (n + 1) - 1 = n
    BY <1>1, <1>12, <2>1
  <2> HIDE DEF step
  <2> QED
    BY <1>3, <1>10, <2>2
<1>13. L \in S
  <2> HIDE DEF S
  <2> QED
    BY <1>1, <1>11, <1>12, Climb
<1> QED
  BY <1>1, <1>9, <1>13

LEMMA AllMoves ==
  ASSUME row \in Row, NEW due
  PROVE  FireAll(due) \in Moved
<1>1. Leave \in Moved
  BY DEF Leave, Moved, NoDay
<1> QED
  BY <1>1, StepMoves, AllSteps

LEMMA CountsToLength ==
  ASSUME NEW n \in 0 .. OpenFor, NEW m \in Nat
  PROVE  Upto(n, m) \in 0 .. OpenFor
BY Lengths DEF Upto

LEMMA TypedBegun ==
  ASSUME TypeOK, Paired, NEW p \in Procs, NEW by, NEW w \in Row, NEW day, BeginCharging(p, by, w, day),
         UNCHANGED <<row, phase, fees, ran, away, traded, stopped, overrun>>
  PROVE  TypeOK'
<1>1. /\ \A q \in Procs \ {p} : txn'[q] = txn[q]
      /\ txn'[p].write = w /\ txn'[p].cols = {c \in Columns : w[c] # row[c]}
  BY DEF BeginCharging, Paired
<1>2. \A q \in Procs : txn'[q] # None => txn'[q].write \in Row /\ txn'[q].cols \subseteq Columns
  BY <1>1 DEF TypeOK
<1> QED
  BY <1>2 DEF TypeOK

LEMMA TypedCommitted ==
  ASSUME TypeOK, Paired, NEW p \in Procs, txn[p] # None, Commit(p),
         phase' \in {"idle", "sweep", "filling", "risk", "covering", "clock"}, traded' \in States \cup {"none"}
  PROVE  TypeOK'
<1> DEFINE t == txn[p]
<1>1. /\ row' = [c \in Columns |-> IF c \in t.cols THEN t.write[c] ELSE row[c]]
      /\ fees' = [d \in DOMAIN fees |-> IF d = t.charge /\ fees[d] < 2 THEN fees[d] + 1
                  ELSE IF t.by = "reset" THEN 0 ELSE fees[d]]
      /\ ran' = IF Opens(t) THEN 0 ELSE IF Breaks(t) THEN OpenFor ELSE ran
      /\ away' = IF Opens(t) THEN 0 ELSE IF t.by = "freeze" THEN Upto(away, Grain - 1) ELSE away
      /\ txn' = [txn EXCEPT ![p] = None]
  BY DEF Commit
<1>2. t.write \in Row /\ row \in Row
  BY DEF TypeOK
<1>3. row' \in Row
  <2>1. \A r \in Row : /\ r["state"] \in States /\ r["day"] \in Nat /\ r["ends"] \in {NoTime} \cup 0 .. Longest
                       /\ r["frozen"] \in {NoTime} \cup 0 .. Longest /\ r["brk"] \in {NoTime} \cup 0 .. HaltFor
    BY DEF Row
  <2>2. row' = [state |-> row'.state, day |-> row'.day, ends |-> row'.ends, frozen |-> row'.frozen, brk |-> row'.brk]
    BY <1>1 DEF Columns
  <2>3. /\ row'.state \in States /\ row'.day \in Nat /\ row'.ends \in {NoTime} \cup 0 .. Longest
        /\ row'.frozen \in {NoTime} \cup 0 .. Longest /\ row'.brk \in {NoTime} \cup 0 .. HaltFor
    <3> HIDE DEF t
    <3>1. /\ row'["state"] \in {t.write["state"], row["state"]} /\ row'["day"] \in {t.write["day"], row["day"]}
          /\ row'["ends"] \in {t.write["ends"], row["ends"]} /\ row'["frozen"] \in {t.write["frozen"], row["frozen"]}
          /\ row'["brk"] \in {t.write["brk"], row["brk"]}
      BY <1>1 DEF Columns
    <3> QED
      BY <1>2, <2>1, <3>1
  <2> QED
    BY <2>2, <2>3 DEF Row
<1>4. fees' \in [1 .. TotalDays + 1 -> 0 .. 2]
  <2>1. fees \in [1 .. TotalDays + 1 -> 0 .. 2]
    BY DEF TypeOK
  <2>2. \A d \in DOMAIN fees : fees'[d] \in 0 .. 2
    <3> HIDE DEF t
    <3> QED
      BY <1>1, <2>1
  <2> HIDE DEF t
  <2> QED
    BY <1>1, <2>1, <2>2
<1>5. ran' \in 0 .. OpenFor /\ away' \in 0 .. OpenFor
  <2>1. ran \in 0 .. OpenFor /\ away \in 0 .. OpenFor /\ OpenFor \in Nat
    BY Lengths DEF TypeOK
  <2>2. ran' \in {0, OpenFor, ran} /\ away' \in {0, away, Upto(away, Grain - 1)}
    BY <1>1
  <2>3. Upto(away, Grain - 1) \in 0 .. OpenFor
    BY <2>1, CountsToLength, Lengths
  <2> QED
    BY <2>1, <2>2, <2>3
<1>6. \A q \in Procs : txn'[q] # None => txn'[q].write \in Row /\ txn'[q].cols \subseteq Columns
  <2>1. \A q \in Procs : txn'[q] = IF q = p THEN None ELSE txn[q]
    BY <1>1 DEF Paired
  <2> QED
    BY <2>1 DEF TypeOK
<1>7. {stopped', overrun'} \subseteq BOOLEAN
  <2>1. {stopped, overrun} \subseteq BOOLEAN
    BY DEF TypeOK
  <2>2. stopped' \in BOOLEAN /\ overrun' \in BOOLEAN
    BY <2>1 DEF Commit
  <2> QED
    BY <2>2
<1> QED
  BY <1>3, <1>4, <1>5, <1>6, <1>7 DEF TypeOK

LEMMA TypedMoment ==
  ASSUME TypeOK, Moment, UNCHANGED <<txn, phase, fees, traded, stopped, overrun>>
  PROVE  TypeOK'
<1>1. row' = Age(row) /\ row \in Row /\ ran \in 0 .. OpenFor /\ away \in 0 .. OpenFor
  BY DEF Moment, TypeOK
<1>2. row' \in Row
  <2>1. PICK r \in Row : r = row
    BY <1>1
  <2> QED
    BY <1>1, <2>1, RowTicks
<1>3. ran' \in 0 .. OpenFor /\ away' \in 0 .. OpenFor
  <2>1. \E n, m \in {0, 1} : ran' = Upto(ran, n) /\ away' = Upto(away, m)
    BY DEF Moment
  <2> QED
    BY <1>1, <2>1, CountsToLength
<1> QED
  BY <1>2, <1>3 DEF TypeOK

LEMMA TypedStep == TypeOK /\ Paired /\ [ScriptNext]_all => TypeOK'
<1> SUFFICES ASSUME TypeOK, Paired, [ScriptNext]_all PROVE TypeOK'
  OBVIOUS
<1>1. "tick" \in Procs /\ Handlers \subseteq Procs
  BY DEF Procs
<1>2. PICK r \in Row : r = row
  BY DEF TypeOK
<1>3. CASE ScriptTickBegin
  <2>1. UNCHANGED <<row, phase, fees, ran, away, traded, stopped, overrun>>
    BY <1>3 DEF ScriptTickBegin
  <2>2. \E by, day : \E w \in Row : BeginCharging("tick", by, w, day)
    <3>1. CASE row.state \in {"PRE_OPEN", "HALTED", "OPEN"}
      <4>1. PICK d : d = Due
        OBVIOUS
      <4>2. PICK far, m : m = FireAll(d) /\ BeginCharging("tick", "tick", Branch(m.row, far), m.charge)
        BY <1>3, <3>1, <4>1 DEF ScriptTickBegin
      <4>3. m \in Moved
        BY <1>2, <4>2, AllMoves
      <4>4. Branch(m.row, far) \in Row
        BY <4>3, RowTicks DEF Moved
      <4> QED
        BY <4>2, <4>4
    <3>2. CASE row.state \notin {"PRE_OPEN", "HALTED", "OPEN"}
      <4>1. Begin("tick", "tick", TickRow(r, FALSE))
        BY <1>2, <1>3, <3>2 DEF ScriptTickBegin
      <4>2. TickRow(r, FALSE) \in Row
        BY <1>2, RowTicks
      <4> QED
        BY <4>1, <4>2 DEF Begin
    <3> QED
      BY <3>1, <3>2
  <2>3. PICK by, day : \E w \in Row : BeginCharging("tick", by, w, day)
    BY <2>2
  <2>4. PICK w \in Row : BeginCharging("tick", by, w, day)
    BY <2>3
  <2> QED
    BY <1>1, <2>1, <2>4, TypedBegun
<1>4. CASE ScriptTickCommit
  <2>1. txn["tick"] # None /\ Commit("tick") /\ phase' \in {"idle", "sweep"} /\ traded' = traded
    BY <1>4 DEF ScriptTickCommit
  <2> QED
    BY <1>1, <2>1, TypedCommitted DEF TypeOK
<1>5. CASE TickFails
  <2>1. UNCHANGED <<row, phase, fees, ran, away, traded, stopped, overrun>> /\ txn' = [txn EXCEPT !["tick"] = None]
    BY <1>5 DEF TickFails
  <2>2. \A q \in Procs : txn'[q] # None => txn'[q] = txn[q]
    BY <2>1 DEF Paired
  <2> QED
    BY <2>1, <2>2 DEF TypeOK
<1>6. CASE SweepRead \/ RiskRead \/ Trade \/ TradingDone
  <2>1. /\ UNCHANGED <<row, txn, fees, ran, away, overrun>>
        /\ phase' \in {"idle", "sweep", "filling", "risk", "covering", "clock"}
        /\ traded' \in {traded, r.state, "none"} /\ stopped' \in {stopped, FALSE}
    BY <1>2, <1>6 DEF SweepRead, RiskRead, Capture, Trade, TradingDone, TypeOK
  <2>2. r.state \in States
    BY RowFields
  <2> QED
    BY <2>1, <2>2 DEF TypeOK
<1>7. CASE ClockBegin
  <2>1. /\ UNCHANGED <<row, phase, fees, ran, away, traded, stopped, overrun>>
        /\ \E day : BeginCharging("tick", "clock", AdvanceClock(r), day)
    BY <1>2, <1>7 DEF ClockBegin, Begin
  <2>2. AdvanceClock(r) \in Row
    BY <1>2, RowTicks
  <2> QED
    BY <1>1, <2>1, <2>2, TypedBegun
<1>8. CASE ClockCommit
  <2>1. txn["tick"] # None /\ Commit("tick") /\ phase' = "idle" /\ traded' = traded
    BY <1>8 DEF ClockCommit
  <2> QED
    BY <1>1, <2>1, TypedCommitted DEF TypeOK
<1>9. ASSUME NEW h \in Handlers, NEW k \in Controls, OperatorBegin(h, k) PROVE TypeOK'
  <2>1. /\ UNCHANGED <<row, phase, fees, ran, away, traded, stopped, overrun>>
        /\ \E day : BeginCharging(h, k, OperatorRow(r, k), day)
    BY <1>2, <1>9 DEF OperatorBegin, Begin
  <2>2. OperatorRow(r, k) \in Row
    BY <1>2, OperatorRows
  <2> QED
    BY <1>1, <2>1, <2>2, TypedBegun
<1>10. ASSUME NEW h \in Handlers, NEW by, NEW m, m \in Moved, NEW u, Request(h, by, m, u) PROVE TypeOK'
  <2>1. /\ UNCHANGED <<row, phase, fees, ran, away, traded, stopped, overrun>>
        /\ BeginCharging(h, by, m.row, m.charge) /\ m.row \in Row
    BY <1>10 DEF Request, Moved
  <2> QED
    BY <1>1, <2>1, TypedBegun
<1>11. PICK m0 \in Moved : m0 = Leave
  <2>1. Leave \in Moved
    BY <1>2 DEF Leave, Moved, NoDay
  <2> QED
    BY <2>1
<1>12. ASSUME NEW h \in Handlers, NEW s \in Steps, SkipBegin(h, s) \/ FireBegin(h, s) PROVE TypeOK'
  <2>1. PICK u, by, m : Request(h, by, m, u) /\ (m = Leave \/ m = StepRow(m0, s))
    BY <1>11, <1>12, Zenon DEF SkipBegin, FireBegin
  <2>2. m \in Moved
    BY <1>11, <2>1, StepMoves
  <2> QED
    BY <1>10, <2>1, <2>2
<1>13. ASSUME NEW h \in Handlers, PlayBegin(h) \/ PauseBegin(h) PROVE TypeOK'
  <2>1. PICK u, by : Request(h, by, m0, u)
    BY <1>11, <1>13, Zenon DEF PlayBegin, PauseBegin
  <2> QED
    BY <1>10, <1>11, <2>1
<1>14. ASSUME NEW h \in Handlers, RequestCommit(h) PROVE TypeOK'
  <2>1. txn[h] # None /\ Commit(h) /\ phase' = phase /\ traded' = traded
    BY <1>14 DEF RequestCommit, OperatorCommit
  <2> QED
    BY <1>1, <2>1, TypedCommitted DEF TypeOK
<1>15. CASE Pass
  <2>1. Moment /\ UNCHANGED <<txn, phase, fees, traded, stopped, overrun>>
    BY <1>15 DEF Pass
  <2> QED
    BY <2>1, TypedMoment
<1>16. CASE ScriptCrash
  <2>1. /\ UNCHANGED <<row, fees, ran, away>> /\ txn' = [p \in Procs |-> None]
        /\ phase' = "idle" /\ traded' = "none" /\ stopped' = FALSE /\ overrun' = overrun
    BY <1>16 DEF ScriptCrash, Crash
  <2> QED
    BY <2>1 DEF TypeOK
<1>17. CASE ScriptRestart
  <2>1. /\ UNCHANGED <<txn, phase, fees, ran, traded, stopped, overrun>>
        /\ away' \in {away, Upto(away, Grain - 1)}
        /\ row' = IF row.state = "OPEN"
                  THEN [row EXCEPT !.state = "FROZEN", !.frozen = Seconds(Remaining(row))]
                  ELSE row
    BY <1>17 DEF ScriptRestart, Restart
  <2>2. row' \in Row
    <3>1. "FROZEN" \in States /\ Seconds(Remaining(r)) \in {NoTime} \cup 0 .. Longest
      BY RowFields DEF States
    <3>2. [r EXCEPT !.state = "FROZEN", !.frozen = Seconds(Remaining(r))] \in Row
      BY <3>1 DEF Row
    <3> QED
      BY <1>2, <2>1, <3>2
  <2>3. away' \in 0 .. OpenFor
    <3>1. away \in 0 .. OpenFor /\ Grain - 1 \in Nat
      BY Lengths DEF TypeOK
    <3> QED
      BY <2>1, <3>1, CountsToLength
  <2> QED
    BY <2>1, <2>2, <2>3 DEF TypeOK
<1>18. CASE UNCHANGED all
  BY <1>18 DEF all, vars, TypeOK
<1> QED
  BY <1>3, <1>4, <1>5, <1>6, <1>7, <1>8, <1>9, <1>12, <1>13, <1>14, <1>15, <1>16, <1>17, <1>18
  DEF ScriptNext, RestOfTick, Control

\* What the transactions under way will write to the script.
ScriptTyped ==
  /\ play \in Plays /\ steps \in [fired : SUBSET Steps, skipped : SUBSET Steps]
  /\ landed \in [Steps -> 0 .. 2] /\ again \subseteq Steps /\ played \in Nat /\ resumes \in Nat
  /\ \A p \in Procs : update[p] # None =>
       update[p].play \in Plays /\ update[p].fires \subseteq Steps /\ update[p].skips \subseteq Steps

LEMMA WrittenTyped ==
  ASSUME ScriptTyped, NEW u, HandlerWrites(u) \/ TickWrites(u)
  PROVE  u.play \in Plays /\ u.fires \subseteq Steps /\ u.skips \subseteq Steps
<1>1. play \in Plays
  BY DEF ScriptTyped
<1>2. CASE TickWrites(u)
  <2>1. u.play = play \/ u.play = [play EXCEPT !.status = "DONE"]
    BY <1>2 DEF TickWrites
  <2>2. [play EXCEPT !.status = "DONE"] \in Plays
    BY <1>1 DEF Plays
  <2>3. u.fires \subseteq Steps /\ u.skips = {}
    BY <1>2 DEF TickWrites, Due, Pending
  <2> QED
    BY <1>1, <2>1, <2>2, <2>3
<1>3. CASE HandlerWrites(u)
  <2>1. u.fires \subseteq Steps
    BY <1>3, HandlerFires
  <2>2. CASE \/ u = NoUpdate
             \/ \E s \in Steps : u = [NoUpdate EXCEPT !.skips = {s}]
             \/ \E s \in Steps : u = [NoUpdate EXCEPT !.fires = {s}]
    <3>1. u.play = play /\ u.skips \subseteq Steps
      BY <2>2 DEF NoUpdate
    <3> QED
      BY <1>1, <2>1, <3>1
  <2>3. ASSUME NEW w \in Plays, NEW now, u = Writes(w, now) \/ u = [Writes(w, now) EXCEPT !.clears = TRUE]
        PROVE  u.play \in Plays /\ u.skips \subseteq Steps
    BY <2>3 DEF Writes, NoUpdate
  <2>4. CASE u = [Writes(Unplayed, {}) EXCEPT !.clears = TRUE]
    <3>1. PICK w \in Plays : w = Unplayed
      BY Bounded DEF Unplayed, Plays
    <3> QED
      BY <2>1, <2>3, <2>4, <3>1
  <2>5. CASE u = PlayUpdate
    <3>1. CASE Resumes
      <4>1. PICK w : w = [play EXCEPT !.status = "PLAYING", !.offset = @ + Seconds(play.idle), !.idle = NoTime]
        OBVIOUS
      <4>2. play.offset + Seconds(play.idle) \in Nat
        <5>1. play.offset \in Nat /\ play.idle \in 0 .. MaxIdle
          BY <1>1, <3>1, Columned DEF Resumes
        <5> QED
          BY <5>1, Bounded, WholeSeconds
      <4>3. w \in Plays
        BY <1>1, <4>1, <4>2 DEF Plays
      <4>4. u = Writes(w, {})
        BY <2>5, <3>1, <4>1, Zenon DEF PlayUpdate
      <4> QED
        BY <2>1, <2>3, <4>3, <4>4
    <3>2. CASE ~Resumes
      <4>1. PICK w \in Plays : w = [status |-> "PLAYING", since |-> 0, offset |-> 0, idle |-> NoTime]
        BY DEF Plays
      <4>2. u = Writes(w, {"since"})
        BY <2>5, <3>2, <4>1, Zenon DEF PlayUpdate
      <4> QED
        BY <2>1, <2>3, <4>2
    <3> QED
      BY <3>1, <3>2
  <2>6. CASE u = Pause
    <3>1. PICK w \in Plays : w = [play EXCEPT !.status = "PAUSED", !.idle = 0]
      <4>1. 0 \in 0 .. MaxIdle
        BY Bounded
      <4> QED
        BY <1>1, <4>1 DEF Plays
    <3>2. u = Writes(w, {"idle"})
      BY <2>6, <3>1, Zenon DEF Pause
    <3> QED
      BY <2>1, <2>3, <3>2
  <2> QED
    BY <1>3, <2>2, <2>4, <2>5, <2>6 DEF HandlerWrites
<1> QED
  BY <1>2, <1>3

LEMMA ScriptTypedStep == Paired /\ ScriptTyped /\ ScriptMoves => ScriptTyped'
<1> SUFFICES ASSUME Paired, ScriptTyped, ScriptMoves PROVE ScriptTyped'
  OBVIOUS
<1>1. "tick" \in Procs /\ Handlers \subseteq Procs
  BY DEF Procs
<1>2. ASSUME NEW p \in Procs, NEW u, Begins(p, u), HandlerWrites(u) \/ TickWrites(u) PROVE ScriptTyped'
  <2>1. /\ UNCHANGED <<play, steps, landed, played, resumes>> /\ again' \subseteq again \cup u.fires
        /\ update'[p] = u /\ \A q \in Procs \ {p} : update'[q] = update[q]
    BY <1>2 DEF Begins, BeginUpdate, Paired
  <2>2. u.play \in Plays /\ u.fires \subseteq Steps /\ u.skips \subseteq Steps
    BY <1>2, WrittenTyped
  <2>3. \A q \in Procs : q = p \/ q \in Procs \ {p}
    OBVIOUS
  <2> QED
    BY <2>1, <2>2, <2>3 DEF ScriptTyped
<1>3. ASSUME NEW p \in Procs, Ends(p) PROVE ScriptTyped'
  <2>1. PICK u : u = update[p]
    OBVIOUS
  <2>2. u.play \in Plays /\ u.fires \subseteq Steps /\ u.skips \subseteq Steps
    BY <1>3, <2>1 DEF ScriptTyped, Ends
  <2>3. /\ play' = Merged(u) /\ again' = again /\ update' = [update EXCEPT ![p] = None]
        /\ steps' = IF u.clears THEN Untouched
                    ELSE [fired |-> steps.fired \cup u.fires, skipped |-> steps.skipped \cup u.skips]
        /\ landed' = [s \in Steps |-> IF u.clears THEN 0
                                      ELSE IF s \in u.fires /\ landed[s] < 2 THEN landed[s] + 1 ELSE landed[s]]
        /\ played' \in {0, played} /\ resumes' \in {0, resumes, resumes + 1}
    BY <1>3, <2>1 DEF Ends, CommitUpdate, Merged
  <2>4. play' \in Plays
    BY <2>2, <2>3, MergedTyped DEF ScriptTyped
  <2>5. steps' \in [fired : SUBSET Steps, skipped : SUBSET Steps]
    BY <2>2, <2>3 DEF ScriptTyped, Untouched
  <2>6. landed' \in [Steps -> 0 .. 2]
    BY <2>3 DEF ScriptTyped
  <2>7. played' \in Nat /\ resumes' \in Nat
    BY <2>3 DEF ScriptTyped
  <2>8. \A q \in Procs : update'[q] = IF q = p THEN None ELSE update[q]
    BY <2>3 DEF Paired
  <2> QED
    BY <2>3, <2>4, <2>5, <2>6, <2>7, <2>8 DEF ScriptTyped
<1>4. CASE Drops
  <2>1. UNCHANGED <<play, steps, landed, again, played, resumes>>
        /\ \A q \in Procs : update'[q] # None => update'[q] = update[q]
    BY <1>4 DEF Drops, Paired
  <2> QED
    BY <2>1 DEF ScriptTyped
<1>5. CASE PlaysOn
  <2>1. /\ UNCHANGED <<steps, landed, again, update>> /\ play' = AgePlay(play)
        /\ played' = played \/ played' = played + 1
        /\ resumes' = resumes
    BY <1>5 DEF PlaysOn
  <2>2. AgePlay(play) \in Plays
    <3>1. play \in Plays /\ play.since \in {NoTime} \cup Nat /\ play.idle \in {NoTime} \cup 0 .. MaxIdle
      BY Columned DEF ScriptTyped
    <3>2. play.since # NoTime => [play EXCEPT !.since = @ + 1] \in Plays
      BY <3>1 DEF Plays
    <3>3. ASSUME play.since # NoTime, play.idle # NoTime, play.idle < MaxIdle
          PROVE  [play EXCEPT !.since = @ + 1, !.idle = @ + 1] \in Plays
      <4>1. play.idle + 1 \in 0 .. MaxIdle /\ play.since + 1 \in Nat
        BY <3>1, <3>3, Bounded
      <4> QED
        BY <3>1, <4>1 DEF Plays
    <3> QED
      BY <3>1, <3>2, <3>3 DEF AgePlay
  <2>3. played' \in Nat
    BY <2>1 DEF ScriptTyped
  <2> QED
    BY <2>1, <2>2, <2>3 DEF ScriptTyped
<1>6. CASE UNCHANGED script
  BY <1>6 DEF script, ScriptTyped
<1> QED
  BY <1>1, <1>2, <1>3, <1>4, <1>5, <1>6 DEF ScriptMoves

LEMMA TypedFirst == InitScript => TypeOK /\ ScriptTyped
<1> SUFFICES ASSUME InitScript PROVE TypeOK /\ ScriptTyped
  OBVIOUS
<1>1. /\ row = [NewRow EXCEPT !.state = "PRE_OPEN", !.day = 1, !.ends = PreOpenFor]
      /\ txn = [p \in Procs |-> None] /\ update = [p \in Procs |-> None] /\ phase = "idle"
      /\ fees = [d \in 1 .. TotalDays + 1 |-> 0] /\ ran = 0 /\ away = 0 /\ traded = "none"
      /\ play = Unplayed /\ steps = Untouched /\ landed = [s \in Steps |-> 0] /\ again = {} /\ played = 0 /\ resumes = 0
      /\ stopped = FALSE /\ overrun = FALSE
  BY DEF InitScript, InitDayOne, InitWith
<1>2. row \in Row
  BY <1>1, LongestOfAll DEF NewRow, Row, States
<1>3. TypeOK
  <2>1. {stopped, overrun} \subseteq BOOLEAN /\ \A p \in Procs : txn[p] = None
    BY <1>1
  <2>2. fees \in [1 .. TotalDays + 1 -> 0 .. 2]
    BY <1>1
  <2>3. ran \in 0 .. OpenFor /\ away \in 0 .. OpenFor
    BY <1>1, Lengths
  <2> QED
    BY <1>1, <1>2, <2>1, <2>2, <2>3 DEF TypeOK
<1>4. play \in Plays
  BY <1>1 DEF Unplayed, Plays
<1> QED
  BY <1>1, <1>3, <1>4, Bounded DEF ScriptTyped, Untouched

\* A scripted market keeps its types, for any script and any number of
\* operators, requests and crashes; and what a transaction will write to the
\* script is there exactly as long as what it will write to the market.
THEOREM ScriptTypes == ScriptSpec => []ScriptTypeOK
<1>1. InitScript => Paired /\ TypeOK /\ ScriptTyped
  BY Scripted, TypedFirst
<1>2. Paired /\ TypeOK /\ ScriptTyped /\ [ScriptNext]_all => (Paired /\ TypeOK /\ ScriptTyped)'
  BY Moving, TypedStep, ScriptTypedStep
<1>3. Paired /\ TypeOK /\ ScriptTyped => ScriptTypeOK
  BY DEF Paired, ScriptTyped, ScriptTypeOK
<1> QED
  BY <1>1, <1>2, <1>3, PTL DEF ScriptSpec

=============================================================================
