------------------------------ MODULE TeamBook ------------------------------
(***************************************************************************)
(* The money of the teams: the cash column of the teams table, which is a  *)
(* cache, and the append-only ledger it caches.                            *)
(*                                                                         *)
(* A handler that holds a team's asyncio.Lock (app/db.py, locked_team)     *)
(* reads the team row, awaits (queries, an AI call), then commits          *)
(* ledger rows and the cash value computed from what it read: the ORM      *)
(* writes the absolute value of a changed column.  Three handlers do the   *)
(* same for many teams and take no team lock: the borrow fee at a close,   *)
(* a dividend and the competition reset.                                   *)
(*                                                                         *)
(* Abstractions: a ledger is its sum; a fill is the cash it moves (trade   *)
(* row and fee row together); available funds are cash (Funds.tla has the  *)
(* margin arithmetic); one stock is researched.                            *)
(***************************************************************************)
EXTENDS Integers, Sequences

CONSTANTS Teams,       \* team ids
          Procs,       \* concurrent handlers: requests, tick loop, operators
          Kinds,       \* the kinds of handler that run
          Opening,     \* opening balance
          FillDeltas,  \* cash moved by an order fill
          CoverDeltas, \* cash moved by a forced cover
          Cost,        \* price of a research report
          Fee,         \* a day's borrow fee
          Dividends,   \* cash moved by a dividend (shorts pay)
          Adjs,        \* adjustments requested by operators
          AdjTeam,     \* the team of each adjustment
          AdjAmount,   \* the amount of each adjustment
          MaxOps       \* bound on the number of handlers started

LockedKinds == {"order", "cover", "research", "adjust"}
BulkKinds   == {"borrow", "dividend", "reset"}

ASSUME MoneyAssumption ==
  /\ Kinds \subseteq LockedKinds \cup BulkKinds
  /\ Opening \in Nat /\ Cost \in Nat /\ Fee \in Nat /\ MaxOps \in Nat
  /\ FillDeltas \subseteq Int /\ CoverDeltas \subseteq Int /\ Dividends \subseteq Int
  /\ AdjTeam \in [Adjs -> Teams] /\ AdjAmount \in [Adjs -> Int]

VARIABLES
  cash,    \* teams.cash, committed
  posted,  \* SUM(ledger.amount) of a team, committed
  queue,   \* a team's asyncio.Lock: its holder, then the waiters in order
  pc,      \* where each handler is
  kind,    \* which handler it is
  target,  \* the team it locks
  item,    \* the adjustment it approves
  rows,    \* the team rows its session has loaded
  snap,    \* the cash it read
  due,     \* what it will add to that cash
  post,    \* what it will add to the ledger
  adj,     \* adjustments: open, resolved or deleted
  cool,    \* a research report was bought within the cooldown
  mixed,   \* history: two handlers, one without the lock, had the row loaded
  ops      \* handlers started

dbVars  == <<cash, posted, adj>>
jobVars == <<pc, kind, target, item, rows, snap, due, post>>
vars    == <<dbVars, jobVars, queue, cool, mixed, ops>>

TypeOK ==
  /\ cash \in [Teams -> Int] /\ posted \in [Teams -> Int]
  /\ queue \in [Teams -> Seq(Procs)]
  /\ pc \in [Procs -> {"idle", "waiting", "ready", "bulk"}]
  /\ kind \in [Procs -> LockedKinds \cup BulkKinds]
  /\ target \in [Procs -> Teams] /\ item \in [Procs -> Adjs \cup {"none"}]
  /\ rows \in [Procs -> SUBSET Teams]
  /\ snap \in [Procs -> [Teams -> Int]]
  /\ due \in [Procs -> [Teams -> Int]] /\ post \in [Procs -> [Teams -> Int]]
  /\ adj \in [Adjs -> {"open", "resolved", "deleted"}]
  /\ cool \in [Teams -> BOOLEAN] /\ mixed \in [Teams -> BOOLEAN]
  /\ ops \in 0 .. MaxOps

Zero == [t \in Teams |-> 0]

Init ==
  /\ cash = [t \in Teams |-> Opening] /\ posted = [t \in Teams |-> Opening]
  /\ queue = [t \in Teams |-> <<>>]
  /\ pc = [p \in Procs |-> "idle"] /\ kind = [p \in Procs |-> "order"]
  /\ target \in {[p \in Procs |-> t] : t \in Teams}
  /\ item = [p \in Procs |-> "none"]
  /\ rows = [p \in Procs |-> {}]
  /\ snap = [p \in Procs |-> Zero]
  /\ due = snap /\ post = snap
  /\ adj = [a \in Adjs |-> "open"]
  /\ cool = [t \in Teams |-> FALSE] /\ mixed = [t \in Teams |-> FALSE]
  /\ ops = 0

-----------------------------------------------------------------------------
\* Handlers that take the team lock.

Start(p, k) ==
  /\ pc[p] = "idle" /\ k \in Kinds /\ ops < MaxOps
  /\ ops' = ops + 1
  /\ kind' = [kind EXCEPT ![p] = k]

Enqueue(p, t) ==
  /\ pc' = [pc EXCEPT ![p] = "waiting"]
  /\ target' = [target EXCEPT ![p] = t]
  /\ queue' = [queue EXCEPT ![t] = Append(@, p)]
  /\ UNCHANGED <<dbVars, rows, snap, due, post, cool, mixed>>

\* An order, or the risk desk's cover of a team in margin call.
RequestTrade(p, t) ==
  /\ \E k \in {"order", "cover"} : Start(p, k)
  /\ Enqueue(p, t)
  /\ UNCHANGED item

\* The cooldown is tested before the lock is requested.
RequestResearch(p, t) ==
  /\ ~cool[t]
  /\ Start(p, "research") /\ Enqueue(p, t)
  /\ UNCHANGED item

\* Mutant: the approval remembers the team instead of the adjustment.
RequestApproval_TeamId(p, a) ==
  /\ adj[a] = "open"
  /\ Start(p, "adjust") /\ Enqueue(p, AdjTeam[a])
  /\ item' = [item EXCEPT ![p] = AdjTeam[a]]

\* The first transaction of an approval tests that it is unresolved.
RequestApproval(p, a) ==
  /\ adj[a] = "open"
  /\ Start(p, "adjust") /\ Enqueue(p, AdjTeam[a])
  /\ item' = [item EXCEPT ![p] = a]

\* Mutant: the lock is taken whoever holds it.
Holds_Anyway(p) == pc[p] = "waiting"

Holds(p) ==
  /\ pc[p] = "waiting"
  /\ queue[target[p]] # <<>> /\ Head(queue[target[p]]) = p

\* Mutant: the handler ends without releasing the lock.
Release_Kept(p) ==
  /\ pc' = [pc EXCEPT ![p] = "idle"]
  /\ UNCHANGED queue

Release(p) ==
  /\ pc' = [pc EXCEPT ![p] = "idle"]
  /\ queue' = [queue EXCEPT ![target[p]] = Tail(@)]

\* Loading rows S in p's session; the history variable notes an overlap
\* that the team lock did not prevent.
Load(p, S) ==
  /\ rows' = [rows EXCEPT ![p] = @ \cup S]
  /\ snap' = [snap EXCEPT ![p] = [t \in Teams |-> IF t \in S THEN cash[t] ELSE @[t]]]
  /\ mixed' = [t \in Teams |->
       \/ mixed[t]
       \/ /\ t \in S
          /\ \E q \in Procs \ {p} : /\ t \in rows[q]
                                    /\ {kind[p], kind[q]} \cap BulkKinds # {}]

\* The locked handler reads the team row and settles on the cash to move.
Prepare(p, d) ==
  /\ Load(p, {target[p]})
  /\ due' = [due EXCEPT ![p][target[p]] = d]
  /\ post' = [post EXCEPT ![p][target[p]] = d]
  /\ pc' = [pc EXCEPT ![p] = "ready"]
  /\ UNCHANGED <<dbVars, kind, target, item, queue, cool, ops>>

\* A refusal: the transaction moves no money.
Refuse(p) ==
  /\ Release(p)
  /\ UNCHANGED <<dbVars, kind, target, item, rows, snap, due, post, cool, mixed, ops>>

\* Mutant: the order is filled without the funds check.
ReadForOrder_Unchecked(p) ==
  /\ Holds(p) /\ kind[p] = "order"
  /\ \E d \in FillDeltas : Prepare(p, d)

ReadForOrder(p) ==
  /\ Holds(p) /\ kind[p] = "order"
  /\ \E d \in FillDeltas :
       IF cash[target[p]] + d >= 0 THEN Prepare(p, d) ELSE Refuse(p)

ReadForCover(p) ==
  /\ Holds(p) /\ kind[p] = "cover"
  /\ \E d \in CoverDeltas : Prepare(p, d)

\* Mutant: a report is sold to a team one unit short of its price.
ReadForResearch_OneShort(p) ==
  /\ Holds(p) /\ kind[p] = "research"
  /\ IF cash[target[p]] >= Cost - 1 THEN Prepare(p, -Cost) ELSE Refuse(p)

ReadForResearch(p) ==
  /\ Holds(p) /\ kind[p] = "research"
  /\ IF cash[target[p]] >= Cost THEN Prepare(p, -Cost) ELSE Refuse(p)

ReadForAdjustment(p) ==
  /\ Holds(p) /\ kind[p] = "adjust"
  /\ IF adj[item[p]] # "deleted" THEN Prepare(p, AdjAmount[item[p]]) ELSE Refuse(p)

\* The session is closed and what it loaded is gone.
Forget(p) ==
  /\ rows' = [rows EXCEPT ![p] = {}]
  /\ snap' = [snap EXCEPT ![p] = Zero]
  /\ due' = [due EXCEPT ![p] = Zero] /\ post' = [post EXCEPT ![p] = Zero]

\* The rows a session changed, written at its commit: the ledger by new
\* rows, the cash column by the value computed from the one that was read.
WriteBack(p) ==
  /\ cash' = [t \in Teams |-> IF t \in rows[p] /\ due[p][t] # 0
                              THEN snap[p][t] + due[p][t] ELSE cash[t]]
  /\ posted' = [t \in Teams |-> IF t \in rows[p] THEN posted[t] + post[p][t]
                                ELSE posted[t]]
  /\ Forget(p)

Commit(p) ==
  /\ pc[p] = "ready"
  /\ WriteBack(p) /\ Release(p)
  /\ adj' = [a \in Adjs |-> IF kind[p] = "adjust" /\ a = item[p] THEN "resolved" ELSE adj[a]]
  /\ cool' = [t \in Teams |-> cool[t] \/ (kind[p] = "research" /\ t = target[p])]
  /\ UNCHANGED <<kind, target, item, mixed, ops>>

\* An exception (the AI desk failing, slippage, a lost connection): rollback.
Abort(p) ==
  /\ pc[p] = "ready"
  /\ Release(p) /\ Forget(p)
  /\ UNCHANGED <<dbVars, kind, target, item, cool, mixed, ops>>

-----------------------------------------------------------------------------
\* Handlers that take no team lock.

BeginBulk(p) ==
  /\ \E k \in {"borrow", "dividend"} : Start(p, k)
  /\ pc' = [pc EXCEPT ![p] = "bulk"]
  /\ UNCHANGED <<dbVars, queue, target, item, rows, snap, due, post, cool, mixed>>

\* One team row of the pass over the positions: charged or credited.
BulkRow(p, t) ==
  /\ pc[p] = "bulk" /\ kind[p] # "reset" /\ t \notin rows[p]
  /\ Load(p, {t})
  /\ \E d \in IF kind[p] = "borrow" THEN {-Fee} ELSE Dividends :
       /\ due' = [due EXCEPT ![p][t] = d]
       /\ post' = [post EXCEPT ![p][t] = d]
  /\ UNCHANGED <<dbVars, pc, kind, target, item, queue, cool, ops>>

\* The reset loads every team and deletes the ledger rows it can see.
BeginReset(p) ==
  /\ Start(p, "reset")
  /\ pc' = [pc EXCEPT ![p] = "bulk"]
  /\ rows' = [rows EXCEPT ![p] = Teams]
  /\ snap' = [snap EXCEPT ![p] = cash]
  /\ due' = [due EXCEPT ![p] = [t \in Teams |-> Opening - cash[t]]]
  /\ post' = [post EXCEPT ![p] = [t \in Teams |-> Opening - posted[t]]]
  /\ mixed' = [t \in Teams |-> mixed[t] \/ \E q \in Procs \ {p} : t \in rows[q]]
  /\ UNCHANGED <<dbVars, target, item, queue, cool>>

EndBulk(p) ==
  /\ pc' = [pc EXCEPT ![p] = "idle"]
  /\ UNCHANGED <<kind, target, item, queue, cool, mixed, ops>>

BulkCommit(p) ==
  /\ pc[p] = "bulk"
  /\ WriteBack(p)
  /\ adj' = [a \in Adjs |-> IF kind[p] = "reset" THEN "deleted" ELSE adj[a]]
  /\ EndBulk(p)

BulkAbort(p) ==
  /\ pc[p] = "bulk"
  /\ Forget(p)
  /\ EndBulk(p)
  /\ UNCHANGED dbVars

-----------------------------------------------------------------------------
\* The cooldown of a report runs out.
CooldownEnds(t) ==
  /\ cool[t]
  /\ cool' = [cool EXCEPT ![t] = FALSE]
  /\ UNCHANGED <<dbVars, jobVars, queue, mixed, ops>>

\* The process dies: locks, sessions and cooldowns are memory, rows stay.
Crash ==
  /\ pc' = [p \in Procs |-> "idle"]
  /\ queue' = [t \in Teams |-> <<>>]
  /\ rows' = [p \in Procs |-> {}]
  /\ snap' = [p \in Procs |-> Zero] /\ due' = snap' /\ post' = snap'
  /\ cool' = [t \in Teams |-> FALSE]
  /\ UNCHANGED <<dbVars, kind, target, item, mixed, ops>>

LockedStep(p) ==
  \/ ReadForOrder(p) \/ ReadForCover(p) \/ ReadForResearch(p) \/ ReadForAdjustment(p)
  \/ Commit(p) \/ Abort(p)

BulkStep(p) ==
  \/ \E t \in Teams : BulkRow(p, t)
  \/ BulkCommit(p) \/ BulkAbort(p)

Request(p) ==
  \/ \E t \in Teams : RequestTrade(p, t) \/ RequestResearch(p, t)
  \/ \E a \in Adjs : RequestApproval(p, a)
  \/ BeginBulk(p) \/ BeginReset(p)

Next ==
  \/ \E p \in Procs : Request(p) \/ LockedStep(p) \/ BulkStep(p)
  \/ \E t \in Teams : CooldownEnds(t)
  \/ Crash

Spec == Init /\ [][Next]_vars

\* A handler that is running keeps running: asyncio schedules every ready
\* task, and the awaited calls (database, AI client) have timeouts.
FairSpec == Spec /\ \A p \in Procs : WF_vars(LockedStep(p))

-----------------------------------------------------------------------------
\* Cash is the ledger (app/models.py, app/db.py): the cached balance equals
\* the sum of the team's ledger rows, after anything that happens.
CashIsLedger == \A t \in Teams : cash[t] = posted[t]

\* The cached balance drifts from the ledger only after a handler that takes
\* no team lock had a team row loaded together with another handler: the
\* locked handlers never lose one another's money, whatever they interleave.
DriftNeedsBulkOverlap == \A t \in Teams : ~mixed[t] => cash[t] = posted[t]

\* An order fill or a report is paid from money that is in the ledger when
\* it commits, not only when it was checked, as long as only locked handlers
\* touched the row.
CheckedDebitIsCovered ==
  [][\A p \in Procs :
       (/\ Commit(p) /\ kind[p] \in {"order", "research"}
        /\ ~mixed[target[p]] /\ due[p][target[p]] < 0)
         => posted'[target[p]] >= 0]_vars

\* A handler waiting for a team lock gets it and finishes.
WaiterIsServed == \A p \in Procs : pc[p] = "waiting" ~> pc[p] = "idle"

\* With the locked handlers alone, the cash column is the abstract balance.
Ledger == INSTANCE CashLedger WITH
            balance   <- cash,
            Refusable <- FillDeltas \cup {-Cost},
            Forced    <- CoverDeltas \cup {AdjAmount[a] : a \in Adjs}
RefinesLedger == Ledger!Spec
=============================================================================
