----------------------------- MODULE OrderBook -----------------------------
(***************************************************************************)
(* The life of a team's orders in one stock: placing, resending and        *)
(* cancelling from several phones (app/routers/trading.py), the tick       *)
(* loop's sweep (app/engine/market.py, app/engine/matching.py) and the     *)
(* bulk cancels of a close, a suspension and a split, which take no team   *)
(* lock (app/engine/market.py, app/routers/admin.py).                      *)
(*                                                                         *)
(* A transaction reads, decides, and writes the columns it changed when it *)
(* commits.  An UPDATE ... WHERE the order is open locks the rows it hits  *)
(* until its commit; a later writer of such a row waits and then writes.   *)
(*                                                                         *)
(* Abstractions: the market moves freely between two looks at it, so a     *)
(* trigger, a marketable limit, the depth it reaches and a refusal (funds, *)
(* slippage, validation, a circuit) are choices; the team is active.       *)
(***************************************************************************)
EXTENDS Integers, Sequences, FiniteSets

CONSTANTS Phones,   \* concurrent requests of the team
          Cids,     \* client order ids: one per order a member means to place
          Type,     \* the order type of each
          Qty,      \* the quantity of each
          Bulks,    \* the bulk cancels that happen
          MaxSends, \* bound on the requests
          MaxBulks, \* bound on the bulk cancels
          Crashes   \* bound on the crashes

Types   == {"MARKET", "LIMIT", "SL_M", "SL_L"}
Open    == {"PENDING", "TRIGGERED"}                  \* OrderStatus.is_open
Status  == Open \cup {"FILLED", "CANCELLED", "REJECTED"}
Markets == {"PRE_OPEN", "OPEN", "STOPPED", "CLOSED"} \* STOPPED: halted or frozen

ASSUME OrderAssumption ==
  /\ Type \in [Cids -> Types] /\ Qty \in [Cids -> Nat \ {0}]
  /\ Bulks \subseteq {"close", "suspend", "split"}
  /\ MaxSends \in Nat /\ MaxBulks \in Nat /\ Crashes \in Nat
  /\ {"sweep", "free"} \cap Phones = {}

Procs == Phones \cup {"sweep"}

VARIABLES
  market,    \* market_state.state, as far as orders see it
  suspended, \* the stock is suspended
  orders,    \* the orders table: ids are positions
  lock,      \* who holds the team lock
  job,       \* what each process is doing
  plan,      \* per process: the columns it will write, by order id
  bulk,      \* the bulk transaction and the rows it has locked
  raced,     \* history: orders that somebody was about to write in a bulk cancel
  sends, bulks, crashed \* requests, bulk cancels and crashes so far

vars == <<market, suspended, orders, lock, job, plan, bulk, raced, sends, bulks, crashed>>

Free    == "free"
Idle    == [op |-> "idle"]
NoPlan  == [i \in {} |-> Idle]
NoBulk  == [op |-> "none", ids |-> {}]
Ids     == DOMAIN orders
Working == {i \in Ids : orders[i].status \in Open}    \* working_orders
Columns == {"cid", "status", "filled"}

Init ==
  /\ market = "PRE_OPEN" /\ suspended = FALSE
  /\ orders = <<>>
  /\ lock = Free
  /\ job = [p \in Procs |-> Idle] /\ plan = [p \in Procs |-> NoPlan]
  /\ bulk = NoBulk /\ raced = {}
  /\ sends = 0 /\ bulks = 0 /\ crashed = 0

-----------------------------------------------------------------------------
\* matching.py, as functions of an order row.

IsStop(c) == Type[c] \in {"SL_M", "SL_L"}

\* The shares try_execute may fill: all that is left, fewer if a limit caps
\* the depth, or none.
Fills(o, m) ==
  LET left == Qty[o.cid] - o.filled
  IN  IF m # "OPEN" \/ left <= 0 THEN {0}
      ELSE IF Type[o.cid] \in {"MARKET", "SL_M"} THEN {0, left} ELSE 0 .. left

\* Mutant: an order is complete one share later.
ExecuteFill_OneLate(o, n) ==
  [o EXCEPT !.filled = @ + n,
            !.status = IF n > 0 /\ o.filled + n > Qty[o.cid] THEN "FILLED" ELSE @]

\* execute_fill: the order is FILLED when its quantity is complete.
ExecuteFill(o, n) ==
  [o EXCEPT !.filled = @ + n,
            !.status = IF n > 0 /\ o.filled + n >= Qty[o.cid] THEN "FILLED" ELSE @]

TryExecute(o, m) == {ExecuteFill(o, n) : n \in Fills(o, m)}

Triggered(o) == IF IsStop(o.cid) THEN [o EXCEPT !.status = "TRIGGERED"] ELSE o

Accepts(c) == /\ market \in {"OPEN", "PRE_OPEN"} /\ ~suspended
              /\ market = "PRE_OPEN" => Type[c] # "MARKET"

\* The rows submit_order may record: a rejection, a dormant stop, or an
\* order that went to the market; a market order that cannot fill is rejected.
Submitted(c) ==
  LET new == [cid |-> c, status |-> "PENDING", filled |-> 0]
  IN  {[new EXCEPT !.status = "REJECTED"]}
      \cup {o \in {new} : Accepts(c) /\ IsStop(c)}
      \cup {o \in TryExecute(Triggered(new), market) :
              Accepts(c) /\ (Type[c] = "MARKET" => o.filled > 0)}

\* What the sweep may make of an order: a stop that is not triggered waits;
\* one that works fills some shares, or is cancelled when that is refused.
Swept(o) ==
  {w \in {o} : IsStop(o.cid)}
  \cup TryExecute(Triggered(o), "OPEN") \cup {[o EXCEPT !.status = "CANCELLED"]}

Changed(old, new) == [c \in {d \in DOMAIN new : new[d] # old[d]} |-> new[c]]

-----------------------------------------------------------------------------
\* Requests of the team, under the team lock.

Send(p, j) ==
  /\ job[p] = Idle /\ sends < MaxSends
  /\ sends' = sends + 1
  /\ job' = [job EXCEPT ![p] = j]
  /\ UNCHANGED <<market, suspended, orders, lock, plan, bulk, raced, bulks, crashed>>

\* A member places an order, or resends one whose answer was lost.
SendOrder(p)  == \E c \in Cids : Send(p, [op |-> "place", cid |-> c])
SendCancel(p) == \E i \in Ids : Send(p, [op |-> "cancel", id |-> i])

\* p took the lock, read, and settled on the columns w; it commits later.
Decide(p, w) ==
  /\ lock = Free
  /\ lock' = p
  /\ job' = [job EXCEPT ![p] = [op |-> "commit"]]
  /\ plan' = [plan EXCEPT ![p] = w]
  /\ raced' = IF bulk = NoBulk THEN raced ELSE raced \cup DOMAIN w
  /\ UNCHANGED <<market, suspended, orders, bulk, sends, bulks, crashed>>

\* p took the lock, read, and has nothing to write.
Answer(p) ==
  /\ lock = Free
  /\ job' = [job EXCEPT ![p] = Idle]
  /\ UNCHANGED <<market, suspended, orders, lock, plan, bulk, raced, sends, bulks, crashed>>

\* Mutant: a resent order is looked up among the working orders.
Known_Working(c) == \E i \in Working : orders[i].cid = c

\* A resent order is answered with the row that is there.
Known(c) == \E i \in Ids : orders[i].cid = c

Place(p) ==
  /\ job[p].op = "place"
  /\ LET c == job[p].cid
     IN  IF Known(c) THEN Answer(p)
         ELSE \E o \in Submitted(c) : Decide(p, [i \in {Len(orders) + 1} |-> o])

\* Mutant: a cancel does not look at the status it finds.
Cancel_Any(p) ==
  /\ job[p].op = "cancel"
  /\ Decide(p, [j \in {job[p].id} |-> [status |-> "CANCELLED"]])

Cancel(p) ==
  /\ job[p].op = "cancel"
  /\ LET i == job[p].id
     IN  IF orders[i].status \in Open
         THEN Decide(p, [j \in {i} |-> [status |-> "CANCELLED"]])
         ELSE Answer(p)

\* A row another transaction has updated is locked until that one ends.
Commit(p) ==
  /\ job[p].op = "commit" /\ DOMAIN plan[p] \cap bulk.ids = {}
  /\ orders' = [i \in Ids \cup DOMAIN plan[p] |->
       IF i \notin DOMAIN plan[p] THEN orders[i]
       ELSE [c \in Columns |->
               IF c \in DOMAIN plan[p][i] THEN plan[p][i][c] ELSE orders[i][c]]]
  /\ lock' = Free
  /\ job' = [job EXCEPT ![p] = Idle] /\ plan' = [plan EXCEPT ![p] = NoPlan]
  /\ UNCHANGED <<market, suspended, bulk, raced, sends, bulks, crashed>>

-----------------------------------------------------------------------------
\* The sweep of a tick: it captures the working orders of an open market,
\* and works them later in one transaction under the team lock.

SweepCapture ==
  /\ job["sweep"] = Idle /\ market = "OPEN" /\ Working # {}
  /\ job' = [job EXCEPT !["sweep"] = [op |-> "sweep", ids |-> Working]]
  /\ UNCHANGED <<market, suspended, orders, lock, plan, bulk, raced, sends, bulks, crashed>>

Sweep ==
  /\ job["sweep"].op = "sweep"
  /\ LET due == IF suspended THEN {} ELSE job["sweep"].ids \cap Working
     IN  IF due = {} THEN Answer("sweep")
         ELSE \E w \in [due -> UNION {Swept(orders[i]) : i \in due}] :
                /\ \A i \in due : w[i] \in Swept(orders[i])
                /\ Decide("sweep", [i \in due |-> Changed(orders[i], w[i])])

-----------------------------------------------------------------------------
\* Bulk cancels: UPDATE every open order, then the commit.

\* Mutant: a triggered stop does not count as open.
BulkBegin_Pending ==
  /\ bulk = NoBulk /\ bulks < MaxBulks
  /\ \E k \in Bulks :
       /\ k = "split" => market # "OPEN"
       /\ bulk' = [op |-> k, ids |-> {i \in Ids : orders[i].status = "PENDING"}]
  /\ bulks' = bulks + 1
  /\ raced' = raced \cup UNION {DOMAIN plan[p] : p \in Procs}
  /\ UNCHANGED <<market, suspended, orders, lock, job, plan, sends, crashed>>

BulkBegin ==
  /\ bulk = NoBulk /\ bulks < MaxBulks
  /\ \E k \in Bulks :
       /\ k = "split" => market # "OPEN"
       /\ bulk' = [op |-> k, ids |-> Working]
  /\ bulks' = bulks + 1
  /\ raced' = raced \cup UNION {DOMAIN plan[p] : p \in Procs}
  /\ UNCHANGED <<market, suspended, orders, lock, job, plan, sends, crashed>>

BulkCommit ==
  /\ bulk # NoBulk
  /\ orders' = [i \in Ids |-> IF i \in bulk.ids THEN [orders[i] EXCEPT !.status = "CANCELLED"]
                              ELSE orders[i]]
  /\ market' = IF bulk.op = "close" THEN "CLOSED" ELSE market
  /\ suspended' = (suspended \/ bulk.op = "suspend")
  /\ bulk' = NoBulk
  /\ UNCHANGED <<lock, job, plan, raced, sends, bulks, crashed>>

-----------------------------------------------------------------------------
\* The market (MarketSession.tla) opens, stops and starts a day; a suspended
\* stock is resumed.
MarketMoves ==
  /\ \E m \in Markets \ {"CLOSED"} :
       /\ m # market
       /\ market' = m
  /\ UNCHANGED <<suspended, orders, lock, job, plan, bulk, raced, sends, bulks, crashed>>

ResumeInstrument ==
  /\ suspended /\ suspended' = FALSE
  /\ UNCHANGED <<market, orders, lock, job, plan, bulk, raced, sends, bulks, crashed>>

\* The process dies: open transactions roll back, committed rows stay.
Crash ==
  /\ crashed < Crashes
  /\ crashed' = crashed + 1
  /\ lock' = Free /\ bulk' = NoBulk
  /\ job' = [p \in Procs |-> Idle] /\ plan' = [p \in Procs |-> NoPlan]
  /\ raced' = raced \cap Ids
  /\ UNCHANGED <<market, suspended, orders, sends, bulks>>

Next ==
  \/ \E p \in Phones : SendOrder(p) \/ SendCancel(p) \/ Place(p) \/ Cancel(p)
  \/ \E p \in Procs : Commit(p)
  \/ SweepCapture \/ Sweep
  \/ BulkBegin \/ BulkCommit
  \/ MarketMoves \/ ResumeInstrument \/ Crash

Spec == Init /\ [][Next]_vars

-----------------------------------------------------------------------------
\* A client order id makes one order, however often it is sent (submit_order:
\* "A retry after a dropped connection returns the original order").
OneOrderPerId == \A i, j \in Ids : orders[i].cid = orders[j].cid => i = j

\* Nobody sees a complete order that is not FILLED, or the reverse: a cancel
\* that races the sweep or a bulk cancel does not hide shares that traded.
FilledIffComplete ==
  \A i \in Ids : orders[i].status = "FILLED" <=> orders[i].filled = Qty[orders[i].cid]

\* No order works after the close of its day (rulebook, rule 4), unless
\* somebody was writing it while the close ran: accepting it, or sweeping it.
CloseLeavesNone == market = "CLOSED" => Working \subseteq raced

\* Each order lives the life of OrderLife (a filled, cancelled or rejected
\* order is never touched again: cancel_order, "That order is no longer open"),
\* unless somebody was writing it during a bulk cancel, which takes no lock.
Life(c) == IF \E i \in Ids : orders[i].cid = c THEN orders[CHOOSE i \in Ids : orders[i].cid = c]
           ELSE [cid |-> c, status |-> "NEW", filled |-> 0]
Raced(c) == \E i \in raced \cap Ids : orders[i].cid = c
Promise(c) == INSTANCE OrderLife WITH
                Qty <- Qty[c], life <- Life(c).status, done <- Life(c).filled
RefinesOrderLife ==
  /\ \A c \in Cids : Promise(c)!Init
  /\ [][\A c \in Cids : Promise(c)!Next \/ UNCHANGED Life(c) \/ Raced(c)]_vars
=============================================================================
