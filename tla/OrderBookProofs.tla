--------------------------- MODULE OrderBookProofs ---------------------------
(***************************************************************************)
(* The book of orders, for any number of phones, orders, requests, bulk    *)
(* cancels and crashes.  The invariant says what a handler may have        *)
(* decided and not yet committed: only the holder of the lock has anything *)
(* to write, a row of its own or columns that keep a row consistent even   *)
(* after a bulk cancel has changed it.                                     *)
(***************************************************************************)
EXTENDS OrderBook, SequenceTheorems, TLAPS

Row == [cid : Cids, status : Status, filled : Nat]

\* FILLED and complete are the same.
Sound(o) == o.status = "FILLED" <=> o.filled = Qty[o.cid]

\* A row somebody has yet to insert.
Insertable(o) == o \in Row /\ Sound(o) /\ ~Known(o.cid)

StatusOf(o, w) == IF "status" \in DOMAIN w THEN w.status ELSE o.status
FilledOf(o, w) == IF "filled" \in DOMAIN w THEN w.filled ELSE o.filled

\* Columns somebody may write over o, also once o is cancelled.
Writable(o, w) ==
  /\ "cid" \notin DOMAIN w /\ StatusOf(o, w) \in Status /\ FilledOf(o, w) \in Nat
  /\ StatusOf(o, w) = "FILLED" <=> FilledOf(o, w) = Qty[o.cid]
  /\ "status" \notin DOMAIN w => FilledOf(o, w) # Qty[o.cid]

Jobs == [op : {"idle", "commit"}] \cup [op : {"place"}, cid : Cids]
        \cup [op : {"cancel"}, id : Nat] \cup [op : {"sweep"}, ids : SUBSET Nat]

Shape ==
  /\ market \in Markets /\ orders \in Seq(Row)
  /\ lock \in Procs \cup {Free}
  /\ job \in [Procs -> Jobs] /\ plan = [p \in Procs |-> plan[p]]
  /\ bulk \in [op : Bulks \cup {"none"}, ids : SUBSET Nat]
  /\ bulk.op = "none" => bulk = NoBulk

Rows == \A i \in Ids : Sound(orders[i])

Planned(i, w) ==
  \/ i = Len(orders) + 1 /\ Insertable(w)
  \/ i \in Ids /\ Writable(orders[i], w)

Plans ==
  \A p \in Procs :
    /\ lock # p => DOMAIN plan[p] = {}
    /\ job[p].op = "commit" => lock = p
    /\ job[p].op = "cancel" => job[p].id \in Ids
    /\ \A i \in DOMAIN plan[p] : Planned(i, plan[p][i])

Locks == bulk.ids \subseteq Working

\* Who writes while a bulk cancel runs is in raced, and who writes on a closed market.
Races ==
  /\ bulk # NoBulk =>
       /\ Working \subseteq bulk.ids \cup raced
       /\ \A p \in Procs : DOMAIN plan[p] \subseteq raced
  /\ market = "CLOSED" =>
       /\ Working \subseteq raced
       /\ \A p \in Procs : \A i \in DOMAIN plan[p] :
            i \in raced \/ (i \notin Ids /\ plan[p][i].status \notin Open)

IInv == Shape /\ OneOrderPerId /\ Rows /\ Plans /\ Locks /\ Races

-----------------------------------------------------------------------------
\* The rows and columns the handlers decide on.

LEMMA Executed ==
  ASSUME NEW o \in Row, Sound(o), o.status \in Open, NEW m, NEW r \in TryExecute(o, m)
  PROVE  /\ r \in Row /\ r.cid = o.cid /\ Sound(r)
         /\ r.status # "FILLED" => r.status = o.status
<1>1. PICK n \in Fills(o, m) : r = ExecuteFill(o, n)
  BY DEF TryExecute
<1>2. o.cid \in Cids /\ o.filled \in Nat /\ Qty[o.cid] \in Nat \ {0} /\ o.filled # Qty[o.cid]
  BY OrderAssumption DEF Row, Sound, Open
<1>3. n \in Nat /\ (n > 0 => o.filled + n <= Qty[o.cid])
  BY <1>2 DEF Fills
<1>4. /\ r.cid = o.cid /\ r.filled = o.filled + n
      /\ r.status = IF n > 0 /\ o.filled + n >= Qty[o.cid] THEN "FILLED" ELSE o.status
  BY <1>1 DEF ExecuteFill, Row
<1>5. r \in Row
  <2>1. r = [cid |-> r.cid, status |-> r.status, filled |-> r.filled]
    BY <1>1 DEF ExecuteFill, Row
  <2>2. r.status \in Status /\ r.filled \in Nat
    BY <1>2, <1>3, <1>4 DEF Row, Status
  <2> QED
    BY <1>2, <1>4, <2>1, <2>2 DEF Row
<1>6. Sound(r)
  BY <1>2, <1>3, <1>4 DEF Sound, Open
<1> QED
  BY <1>4, <1>5, <1>6

LEMMA Arming ==
  ASSUME NEW o \in Row, Sound(o), o.status \in Open
  PROVE  /\ Triggered(o) \in Row /\ Triggered(o).cid = o.cid
         /\ Triggered(o).status \in Open /\ Sound(Triggered(o))
BY DEF Triggered, Row, Sound, Open, Status

\* What submit_order may record.
LEMMA Submitting ==
  ASSUME NEW c \in Cids, NEW o \in Submitted(c)
  PROVE  /\ o \in Row /\ o.cid = c /\ Sound(o)
         /\ market = "CLOSED" => o.status \notin Open
<1> DEFINE new == [cid |-> c, status |-> "PENDING", filled |-> 0]
<1>1. new \in Row /\ Sound(new) /\ new.status \in Open /\ new.cid = c
  BY OrderAssumption DEF Row, Sound, Status, Open
<1>2. market = "CLOSED" => ~Accepts(c)
  BY DEF Accepts
<1>3. CASE o = [new EXCEPT !.status = "REJECTED"]
  <2>1. Qty[c] \in Nat \ {0}
    BY OrderAssumption
  <2> QED
    BY <1>3, <2>1 DEF Row, Sound, Status, Open
<1>4. CASE o = new /\ Accepts(c)
  BY <1>1, <1>2, <1>4
<1>5. CASE o \in TryExecute(Triggered(new), market) /\ Accepts(c)
  <2> HIDE DEF new
  <2>1. /\ Triggered(new) \in Row /\ Triggered(new).cid = c
        /\ Triggered(new).status \in Open /\ Sound(Triggered(new))
    BY <1>1, Arming
  <2> QED
    BY <1>2, <1>5, <2>1, Executed
<1> QED
  BY <1>3, <1>4, <1>5 DEF Submitted

\* What a sweep may make of a working order, as the columns it writes.
LEMMA Sweeping ==
  ASSUME NEW o \in Row, Sound(o), o.status \in Open, NEW r \in Swept(o)
  PROVE  Writable(o, Changed(o, r))
<1>1. r \in Row /\ r.cid = o.cid /\ Sound(r) /\ (r.status # "FILLED" => r.status \in Status)
  <2>1. CASE r = o
    BY <2>1 DEF Row
  <2>2. CASE r \in TryExecute(Triggered(o), "OPEN")
    BY <2>2, Arming, Executed DEF Row
  <2>3. CASE r = [o EXCEPT !.status = "CANCELLED"]
    BY <2>3 DEF Row, Sound, Status, Open
  <2> QED
    BY <2>1, <2>2, <2>3 DEF Swept
<1> DEFINE w == Changed(o, r)
<1>2. /\ DOMAIN r = {"cid", "status", "filled"}
      /\ \A c \in DOMAIN w : c \in DOMAIN r /\ r[c] # o[c] /\ w[c] = r[c]
      /\ \A c \in DOMAIN r : c \notin DOMAIN w => r[c] = o[c]
  BY <1>1 DEF Changed, Row
<1> HIDE DEF w
<1>3. "cid" \notin DOMAIN w
  BY <1>1, <1>2
<1>4. StatusOf(o, w) = r.status /\ FilledOf(o, w) = r.filled
  BY <1>2 DEF StatusOf, FilledOf
<1>5. "status" \notin DOMAIN w => r.status \in Open
  BY <1>2
<1>6. r.status \in Status /\ r.filled \in Nat
  BY <1>1 DEF Row
<1>7. "status" \notin DOMAIN w => r.filled # Qty[o.cid]
  BY <1>1, <1>5 DEF Sound, Open
<1> QED
  BY <1>1, <1>3, <1>4, <1>6, <1>7 DEF Writable, Sound, w

\* The rows of the table, after a commit of p.
LEMMA Committing ==
  ASSUME IInv, NEW p \in Procs, Commit(p)
  PROVE  /\ orders' \in Seq(Row) /\ Rows' /\ OneOrderPerId'
         /\ Ids' = Ids \cup DOMAIN plan[p]
         /\ \A i \in Ids \ DOMAIN plan[p] : orders'[i] = orders[i]
         /\ \A i \in DOMAIN plan[p] : i \notin Ids => orders'[i] = plan[p][i]
<1> DEFINE w == plan[p]
<1>1. /\ orders \in Seq(Row) /\ Len(orders) \in Nat /\ Ids = 1 .. Len(orders)
      /\ \A i \in Ids : orders[i] \in Row
  BY DEF IInv, Shape, Ids
<1>2. \A i \in DOMAIN w : \/ i = Len(orders) + 1 /\ Insertable(w[i])
                          \/ i \in Ids /\ Writable(orders[i], w[i])
  BY DEF IInv, Plans, Planned
<1>3. /\ orders' = [i \in Ids \cup DOMAIN w |-> orders'[i]]
      /\ \A i \in Ids \ DOMAIN w : orders'[i] = orders[i]
      /\ \A i \in DOMAIN w :
           orders'[i] = [c \in Columns |-> IF c \in DOMAIN w[i] THEN w[i][c] ELSE orders[i][c]]
  BY DEF Commit
<1> HIDE DEF w
<1>4. PICK n \in Nat : Ids \cup DOMAIN w = 1 .. n /\ n >= Len(orders)
  <2>1. CASE Len(orders) + 1 \in DOMAIN w
    <3>1. Ids \cup DOMAIN w = 1 .. Len(orders) + 1
      BY <1>1, <1>2, <2>1
    <3> QED
      BY <1>1, <3>1
  <2>2. CASE Len(orders) + 1 \notin DOMAIN w
    <3>1. Ids \cup DOMAIN w = 1 .. Len(orders)
      BY <1>1, <1>2, <2>2
    <3> QED
      BY <1>1, <3>1
  <2> QED
    BY <2>1, <2>2
<1>5. ASSUME NEW i \in DOMAIN w, i \notin Ids
      PROVE  orders'[i] = w[i] /\ Insertable(w[i]) /\ i = Len(orders) + 1
  <2>1. w[i] \in Row /\ Insertable(w[i]) /\ i = Len(orders) + 1
    BY <1>2, <1>5 DEF Insertable
  <2>2. DOMAIN w[i] = Columns /\ w[i] = [c \in Columns |-> w[i][c]]
    BY <2>1 DEF Row, Columns
  <2>3. orders'[i] = [c \in Columns |-> w[i][c]]
    BY <1>3, <2>2
  <2> QED
    BY <2>1, <2>2, <2>3
<1>6. ASSUME NEW i \in DOMAIN w, i \in Ids
      PROVE  orders'[i] \in Row /\ Sound(orders'[i]) /\ orders'[i].cid = orders[i].cid
  <2>1. Writable(orders[i], w[i]) /\ orders[i] \in Row
    BY <1>1, <1>2, <1>6
  <2>2. PICK o : o = orders'[i]
    OBVIOUS
  <2>3. o = [c \in Columns |-> IF c \in DOMAIN w[i] THEN w[i][c] ELSE orders[i][c]]
    BY <1>3, <2>2
  <2>4. o.cid = orders[i].cid /\ o.status = StatusOf(orders[i], w[i]) /\ o.filled = FilledOf(orders[i], w[i])
    BY <2>1, <2>3 DEF Columns, Writable, StatusOf, FilledOf
  <2>5. o = [cid |-> o.cid, status |-> o.status, filled |-> o.filled]
    BY <2>3 DEF Columns
  <2>6. o \in Row
    BY <2>1, <2>4, <2>5 DEF Writable, Row
  <2>7. Sound(o)
    BY <2>1, <2>4 DEF Writable, Sound
  <2> QED
    BY <2>2, <2>4, <2>6, <2>7
<1>7. \A i \in 1 .. n : orders'[i] \in Row /\ Sound(orders'[i])
  <2> SUFFICES ASSUME NEW i \in 1 .. n PROVE orders'[i] \in Row /\ Sound(orders'[i])
    OBVIOUS
  <2>1. CASE i \notin DOMAIN w
    BY <1>1, <1>3, <1>4, <2>1 DEF IInv, Rows
  <2>2. CASE i \in DOMAIN w /\ i \in Ids
    BY <1>6, <2>2
  <2>3. CASE i \in DOMAIN w /\ i \notin Ids
    BY <1>5, <2>3 DEF Insertable
  <2> QED
    BY <2>1, <2>2, <2>3
<1>8. orders' \in Seq(Row)
  <2>1. orders' \in [1 .. n -> Row]
    BY <1>3, <1>4, <1>7
  <2> QED
    BY <2>1, SeqDef
<1>9. Ids' = 1 .. n
  BY <1>3, <1>4 DEF Ids
<1>10. OneOrderPerId'
  <2> SUFFICES ASSUME NEW i \in 1 .. n, NEW j \in 1 .. n, orders'[i].cid = orders'[j].cid
               PROVE  i = j
    BY <1>9 DEF OneOrderPerId
  <2>1. ASSUME NEW k \in Ids
        PROVE  orders'[k].cid = orders[k].cid
    BY <1>3, <1>6
  <2>2. ASSUME NEW k \in 1 .. n, k \notin Ids
        PROVE  k = Len(orders) + 1 /\ \A l \in Ids : orders[l].cid # orders'[k].cid
    BY <1>4, <1>5, <2>2 DEF Insertable, Known
  <2>3. CASE i \in Ids /\ j \in Ids
    BY <2>1, <2>3 DEF IInv, OneOrderPerId
  <2>4. CASE i \notin Ids /\ j \notin Ids
    BY <2>2, <2>4
  <2>5. CASE (i \in Ids /\ j \notin Ids) \/ (i \notin Ids /\ j \in Ids)
    BY <2>1, <2>2, <2>5
  <2> QED
    BY <2>3, <2>4, <2>5
<1> QED
  BY <1>3, <1>4, <1>5, <1>7, <1>8, <1>9, <1>10 DEF Rows, w

\* What may be planned depends on the table only.
LEMMA SamePlans ==
  ASSUME NEW i, NEW w, Planned(i, w), UNCHANGED orders
  PROVE  Planned(i, w)'
BY DEF Planned, Insertable, Known, Ids, Writable, StatusOf, FilledOf, Sound

\* Deciding on w: what it takes to keep the invariant.
LEMMA Deciding ==
  ASSUME IInv, NEW p \in Procs, NEW w, Decide(p, w),
         \A i \in DOMAIN w : Planned(i, w[i]),
         market = "CLOSED" =>
           \A i \in DOMAIN w : i \in raced \/ (i \notin Ids /\ w[i].status \notin Open)
  PROVE  IInv'
<1>1. /\ lock = Free /\ lock' = p
      /\ job' = [job EXCEPT ![p] = [op |-> "commit"]] /\ plan' = [plan EXCEPT ![p] = w]
      /\ raced' = IF bulk = NoBulk THEN raced ELSE raced \cup DOMAIN w
      /\ UNCHANGED <<market, orders, bulk>>
  BY DEF Decide
<1>2. \A q \in Procs : DOMAIN plan[q] = {} /\ job[q].op # "commit"
  BY <1>1, OrderAssumption DEF IInv, Plans, Free, Procs
<1>3. \A q \in Procs : plan'[q] = IF q = p THEN w ELSE plan[q]
  BY <1>1 DEF IInv, Shape
<1>4. \A q \in Procs : job'[q] = IF q = p THEN [op |-> "commit"] ELSE job[q]
  BY <1>1 DEF IInv, Shape
<1>5. Shape'
  <2>1. [op |-> "commit"] \in Jobs
    BY DEF Jobs
  <2>2. job' \in [Procs -> Jobs]
    BY <1>1, <2>1 DEF IInv, Shape
  <2>3. plan' = [q \in Procs |-> plan'[q]]
    BY <1>1 DEF IInv, Shape
  <2> QED
    BY <1>1, <2>2, <2>3 DEF IInv, Shape
<1>6. OneOrderPerId' /\ Rows' /\ Locks' /\ Ids' = Ids /\ Working' = Working
  BY <1>1 DEF IInv, OneOrderPerId, Rows, Locks, Working, Ids
<1>7. Plans'
  <2>1. \A i \in DOMAIN w : Planned(i, w[i])'
    BY <1>1, SamePlans
  <2> QED
    BY <1>1, <1>2, <1>3, <1>4, <1>6, <2>1 DEF IInv, Plans
<1>8. Races'
  BY <1>1, <1>2, <1>3, <1>6 DEF IInv, Races
<1> QED
  BY <1>5, <1>6, <1>7, <1>8 DEF IInv

\* Steps that leave the table, the lock and the plans alone.
LEMMA Waiting ==
  ASSUME IInv, UNCHANGED <<market, orders, lock, plan, bulk, raced>>,
         job' \in [Procs -> Jobs],
         \A p \in Procs : /\ job'[p].op = "commit" => job[p].op = "commit"
                          /\ job'[p].op = "cancel" => job'[p].id \in Ids
  PROVE  IInv'
<1>1. Shape' /\ OneOrderPerId' /\ Rows' /\ Locks' /\ Races' /\ Ids' = Ids
  BY DEF IInv, Shape, OneOrderPerId, Rows, Locks, Races, Working, Ids
<1>2. \A p \in Procs : \A i \in DOMAIN plan[p] : Planned(i, plan[p][i])'
  BY SamePlans DEF IInv, Plans
<1>3. Plans'
  BY <1>1, <1>2 DEF IInv, Plans
<1> QED
  BY <1>1, <1>3 DEF IInv

\* Steps that end all plans.
LEMMA Rest ==
  ASSUME Shape', OneOrderPerId', Rows', Locks',
         \A p \in Procs : DOMAIN plan'[p] = {} /\ job'[p].op \notin {"commit", "cancel"},
         bulk' # NoBulk => Working' \subseteq bulk'.ids \cup raced',
         market' = "CLOSED" => Working' \subseteq raced'
  PROVE  IInv'
BY DEF IInv, Plans, Races

-----------------------------------------------------------------------------
LEMMA Initially == Init => IInv
<1> SUFFICES ASSUME Init PROVE IInv
  OBVIOUS
<1>1. /\ orders = <<>> /\ Len(orders) = 0 /\ Ids = {} /\ Working = {}
      /\ orders \in Seq(Row)
  BY EmptySeq DEF Init, Ids, Working
<1>2. Shape
  BY <1>1 DEF Init, Shape, Markets, Jobs, Idle, NoBulk
<1>3. \A p \in Procs : DOMAIN plan[p] = {} /\ job[p].op = "idle"
  BY DEF Init, NoPlan, Idle
<1> QED
  BY <1>1, <1>2, <1>3 DEF Init, IInv, OneOrderPerId, Rows, Plans, Locks, Races, NoBulk

LEMMA OrdersKnown ==
  ASSUME IInv
  PROVE  /\ Len(orders) \in Nat /\ Ids = 1 .. Len(orders)
         /\ \A i \in Ids : orders[i] \in Row /\ Sound(orders[i])
BY DEF IInv, Shape, Rows, Ids

\* The requests of a member and the sweep, under the lock.
LEMMA Handling ==
  ASSUME IInv, NEW p \in Procs,
         \/ SendOrder(p) \/ SendCancel(p) \/ Place(p) \/ Cancel(p)
         \/ p = "sweep" /\ (SweepCapture \/ Sweep)
  PROVE  IInv'
<1>1. /\ Len(orders) \in Nat /\ Ids = 1 .. Len(orders)
      /\ \A i \in Ids : orders[i] \in Row /\ Sound(orders[i])
      /\ job \in [Procs -> Jobs] /\ Working \subseteq Ids
  BY OrdersKnown DEF IInv, Shape, Working
<1>2. ASSUME NEW j \in Jobs, j.op # "commit", j.op = "cancel" => j.id \in Ids,
             job' = [job EXCEPT ![p] = j],
             UNCHANGED <<market, orders, lock, plan, bulk, raced>>
      PROVE  IInv'
  <2>1. \A q \in Procs : job'[q] = IF q = p THEN j ELSE job[q]
    BY <1>1, <1>2
  <2>2. job' \in [Procs -> Jobs]
    BY <1>1, <1>2
  <2>3. \A q \in Procs : job[q].op = "cancel" => job[q].id \in Ids
    BY DEF IInv, Plans
  <2> QED
    BY <1>2, <2>1, <2>2, <2>3, Waiting
<1>3. CASE SendOrder(p)
  BY <1>2, <1>3 DEF SendOrder, Send, Jobs
<1>4. CASE SendCancel(p)
  <2>1. PICK i \in Ids : Send(p, [op |-> "cancel", id |-> i])
    BY <1>4 DEF SendCancel
  <2>2. [op |-> "cancel", id |-> i] \in Jobs
    BY <1>1 DEF Jobs
  <2> QED
    BY <1>2, <2>1, <2>2 DEF Send
<1>5. CASE Answer(p)
  BY <1>2, <1>5 DEF Answer, Idle, Jobs
<1>6. CASE p = "sweep" /\ SweepCapture
  <2>1. [op |-> "sweep", ids |-> Working] \in Jobs
    BY <1>1 DEF Jobs
  <2> QED
    BY <1>2, <1>6, <2>1 DEF SweepCapture
<1>7. CASE Place(p) /\ ~Answer(p)
  <2>1. PICK c \in Cids : c = job[p].cid
    BY <1>1, <1>7 DEF Place, Jobs
  <2>2. ~Known(c)
    BY <1>7, <2>1 DEF Place
  <2>3. PICK o \in Submitted(c) : Decide(p, [i \in {Len(orders) + 1} |-> o])
    BY <1>7, <2>1 DEF Place
  <2>4. PICK w : w = [i \in {Len(orders) + 1} |-> o]
    OBVIOUS
  <2>5. /\ o \in Row /\ o.cid = c /\ Sound(o)
        /\ market = "CLOSED" => o.status \notin Open
    BY Submitting
  <2>6. \A i \in DOMAIN w : i = Len(orders) + 1 /\ w[i] = o /\ i \notin Ids
    BY <1>1, <2>4
  <2>7. \A i \in DOMAIN w : Planned(i, w[i])
    BY <2>2, <2>5, <2>6 DEF Planned, Insertable
  <2>8. Decide(p, w)
    BY <2>3, <2>4
  <2> QED
    BY <2>5, <2>6, <2>7, <2>8, Deciding
<1>8. CASE Cancel(p) /\ ~Answer(p)
  <2>1. PICK i \in Ids : i = job[p].id
    BY <1>8 DEF Cancel, IInv, Plans
  <2>2. orders[i].status \in Open /\ Decide(p, [j \in {i} |-> [status |-> "CANCELLED"]])
    BY <1>8, <2>1 DEF Cancel
  <2>3. PICK w : w = [j \in {i} |-> [status |-> "CANCELLED"]]
    OBVIOUS
  <2>4. Writable(orders[i], [status |-> "CANCELLED"])
    BY <1>1, <2>2 DEF Writable, StatusOf, FilledOf, Row, Sound, Status, Open
  <2>5. \A j \in DOMAIN w : j = i /\ Planned(j, w[j])
    BY <2>3, <2>4 DEF Planned
  <2>6. market = "CLOSED" => i \in raced
    BY <2>2 DEF IInv, Races, Working
  <2> QED
    BY <2>2, <2>3, <2>5, <2>6, Deciding
<1>9. CASE p = "sweep" /\ Sweep /\ ~Answer(p)
  <2>1. PICK due : due = IF suspended THEN {} ELSE job["sweep"].ids \cap Working
    OBVIOUS
  <2>2. PICK r \in [due -> UNION {Swept(orders[i]) : i \in due}] :
          /\ \A i \in due : r[i] \in Swept(orders[i])
          /\ Decide(p, [i \in due |-> Changed(orders[i], r[i])])
    BY <1>9, <2>1 DEF Sweep
  <2>3. PICK w : w = [i \in due |-> Changed(orders[i], r[i])]
    OBVIOUS
  <2>4. due \subseteq Working
    BY <2>1
  <2>5. ASSUME NEW i \in due
        PROVE  Planned(i, w[i])
    <3>1. i \in Ids /\ orders[i] \in Row /\ Sound(orders[i]) /\ orders[i].status \in Open
      BY <1>1, <2>4 DEF Working
    <3>2. Writable(orders[i], Changed(orders[i], r[i]))
      BY <2>2, <3>1, Sweeping
    <3> QED
      BY <2>3, <3>1, <3>2 DEF Planned
  <2>6. market = "CLOSED" => due \subseteq raced
    BY <2>4 DEF IInv, Races
  <2>7. DOMAIN w = due /\ Decide(p, w)
    BY <2>2, <2>3
  <2> QED
    BY <2>5, <2>6, <2>7, Deciding
<1> QED
  BY <1>3, <1>4, <1>5, <1>6, <1>7, <1>8, <1>9

LEMMA Committed ==
  ASSUME IInv, NEW p \in Procs, Commit(p)
  PROVE  IInv'
<1>1. /\ job[p].op = "commit" /\ DOMAIN plan[p] \cap bulk.ids = {} /\ lock' = Free
      /\ job' = [job EXCEPT ![p] = Idle] /\ plan' = [plan EXCEPT ![p] = NoPlan]
      /\ UNCHANGED <<market, bulk, raced>>
  BY DEF Commit
<1>2. /\ orders' \in Seq(Row) /\ Rows' /\ OneOrderPerId'
      /\ Ids' = Ids \cup DOMAIN plan[p]
      /\ \A i \in Ids \ DOMAIN plan[p] : orders'[i] = orders[i]
      /\ \A i \in DOMAIN plan[p] : i \notin Ids => orders'[i] = plan[p][i]
  BY Committing
<1>3. lock = p /\ p # Free
  BY <1>1, OrderAssumption DEF IInv, Plans, Procs, Free
<1>4. \A q \in Procs : DOMAIN plan'[q] = {} /\ job'[q].op # "commit"
  <2>1. \A q \in Procs : /\ plan'[q] = IF q = p THEN NoPlan ELSE plan[q]
                         /\ job'[q] = IF q = p THEN Idle ELSE job[q]
    BY <1>1 DEF IInv, Shape
  <2> QED
    BY <1>3, <2>1 DEF IInv, Plans, NoPlan, Idle
<1>5. \A q \in Procs : job'[q].op = "cancel" => job'[q].id \in Ids'
  <2>1. \A q \in Procs : job'[q] = IF q = p THEN Idle ELSE job[q]
    BY <1>1 DEF IInv, Shape
  <2> QED
    BY <1>2, <2>1 DEF IInv, Plans, Idle
<1>6. Shape'
  <2>1. job' \in [Procs -> Jobs] /\ plan' = [q \in Procs |-> plan'[q]]
    BY <1>1 DEF IInv, Shape, Jobs, Idle
  <2> QED
    BY <1>1, <1>2, <2>1 DEF IInv, Shape
<1>7. Locks'
  BY <1>1, <1>2 DEF IInv, Locks, Working
<1>8. Working' \subseteq Working \cup DOMAIN plan[p]
  BY <1>2 DEF Working
<1>9. bulk # NoBulk => Working' \subseteq bulk.ids \cup raced
  BY <1>8 DEF IInv, Races
<1>10. ASSUME market = "CLOSED", NEW i \in Working'
       PROVE  i \in raced
  <2>1. CASE i \in Working
    BY <1>10, <2>1 DEF IInv, Races
  <2>2. CASE i \in DOMAIN plan[p] /\ i \notin raced
    <3>1. i \notin Ids /\ plan[p][i].status \notin Open
      BY <1>10, <2>2 DEF IInv, Races
    <3> QED
      BY <1>2, <1>10, <2>2, <3>1 DEF Working
  <2> QED
    BY <1>8, <1>10, <2>1, <2>2
<1> QED
  BY <1>1, <1>2, <1>4, <1>5, <1>6, <1>7, <1>9, <1>10 DEF IInv, Plans, Races

\* An UPDATE of the open orders begins.
LEMMA BulkBegun ==
  ASSUME IInv, BulkBegin
  PROVE  IInv'
<1>1. PICK k \in Bulks : bulk' = [op |-> k, ids |-> Working]
  BY DEF BulkBegin
<1>2. /\ raced' = raced \cup UNION {DOMAIN plan[p] : p \in Procs}
      /\ UNCHANGED <<market, orders, lock, job, plan>>
  BY DEF BulkBegin
<1>3. k # "none" /\ Working \in SUBSET Nat
  BY OrdersKnown, OrderAssumption DEF Working
<1>4. Shape'
  BY <1>1, <1>2, <1>3 DEF IInv, Shape
<1>5. OneOrderPerId' /\ Rows' /\ Working' = Working /\ Ids' = Ids
  BY <1>2 DEF IInv, OneOrderPerId, Rows, Working, Ids
<1>6. \A p \in Procs : \A i \in DOMAIN plan[p] : Planned(i, plan[p][i])'
  BY <1>2, SamePlans DEF IInv, Plans
<1>7. Plans'
  BY <1>2, <1>5, <1>6 DEF IInv, Plans
<1>8. Locks' /\ Races'
  BY <1>1, <1>2, <1>5 DEF IInv, Locks, Races
<1> QED
  BY <1>4, <1>5, <1>7, <1>8 DEF IInv

\* ... and commits.
LEMMA BulkCommitted ==
  ASSUME IInv, BulkCommit
  PROVE  IInv'
<1>1. /\ bulk # NoBulk /\ bulk' = NoBulk /\ UNCHANGED <<lock, job, plan, raced>>
      /\ market' = IF bulk.op = "close" THEN "CLOSED" ELSE market
      /\ orders' = [i \in Ids |-> IF i \in bulk.ids THEN [orders[i] EXCEPT !.status = "CANCELLED"]
                                  ELSE orders[i]]
  BY DEF BulkCommit
<1>2. /\ Len(orders) \in Nat /\ Ids = 1 .. Len(orders)
      /\ \A i \in Ids : orders[i] \in Row /\ Sound(orders[i])
  BY OrdersKnown
<1>3. ASSUME NEW i \in Ids
      PROVE  /\ orders'[i] \in Row /\ Sound(orders'[i])
             /\ orders'[i].cid = orders[i].cid /\ orders'[i].filled = orders[i].filled
             /\ orders'[i].status = IF i \in bulk.ids THEN "CANCELLED" ELSE orders[i].status
  <2>1. CASE i \in bulk.ids
    <3>1. orders[i] \in Row /\ Sound(orders[i]) /\ orders[i].status \in Open
      BY <1>2, <2>1 DEF IInv, Locks, Working
    <3>2. orders'[i] = [orders[i] EXCEPT !.status = "CANCELLED"]
      BY <1>1, <2>1
    <3> QED
      BY <2>1, <3>1, <3>2 DEF Row, Sound, Status, Open
  <2>2. CASE i \notin bulk.ids
    BY <1>1, <1>2, <2>2
  <2> QED
    BY <2>1, <2>2
<1>4. orders' \in Seq(Row) /\ Len(orders') = Len(orders) /\ Ids' = Ids
  <2>1. orders' \in [1 .. Len(orders) -> Row]
    BY <1>1, <1>2, <1>3
  <2>2. orders' \in Seq(Row)
    BY <1>2, <2>1, SeqDef
  <2> QED
    BY <1>2, <2>1, <2>2 DEF Ids
<1>5. Shape'
  BY <1>1, <1>4 DEF IInv, Shape, Markets, NoBulk
<1>6. OneOrderPerId' /\ Rows'
  BY <1>3, <1>4 DEF IInv, OneOrderPerId, Rows
<1>7. Working' = Working \ bulk.ids
  BY <1>3, <1>4 DEF Working, Open
<1>8. Locks'
  BY <1>1 DEF Locks, NoBulk
<1>9. ASSUME NEW p \in Procs, NEW i \in DOMAIN plan[p]
      PROVE  Planned(i, plan[p][i])'
  <2>1. PICK w : w = plan[p][i]
    OBVIOUS
  <2>2. Planned(i, w)
    BY <2>1 DEF IInv, Plans
  <2>3. CASE i \in Ids
    <3>1. Writable(orders[i], w)
      BY <1>2, <2>2, <2>3 DEF Planned
    <3>2. Writable(orders'[i], w)
      BY <1>3, <2>3, <3>1 DEF Writable, StatusOf, FilledOf, Status
    <3> QED
      BY <1>1, <1>4, <2>1, <2>3, <3>2 DEF Planned, Writable, StatusOf, FilledOf
  <2>4. CASE i \notin Ids
    <3>1. i = Len(orders') + 1 /\ w \in Row /\ Sound(w) /\ ~Known(w.cid)
      BY <1>4, <2>2, <2>4 DEF Planned, Insertable
    <3>2. ~\E j \in Ids : orders'[j].cid = w.cid
      BY <1>3, <3>1 DEF Known
    <3> QED
      BY <1>1, <1>4, <2>1, <3>1, <3>2 DEF Planned, Insertable, Known, Sound
  <2> QED
    BY <2>3, <2>4
<1>10. Plans'
  BY <1>1, <1>4, <1>9 DEF IInv, Plans
<1>11. Races'
  BY <1>1, <1>4, <1>7 DEF IInv, Races
<1> QED
  BY <1>5, <1>6, <1>8, <1>10, <1>11 DEF IInv

\* The market moves without closing, and a process that dies forgets its plans.
LEMMA Surroundings ==
  ASSUME IInv, MarketMoves \/ ResumeInstrument \/ Crash
  PROVE  IInv'
<1>1. CASE MarketMoves
  <2>1. /\ market' \in Markets \ {"CLOSED"}
        /\ UNCHANGED <<orders, lock, job, plan, bulk, raced>>
    BY <1>1 DEF MarketMoves
  <2>2. Shape' /\ OneOrderPerId' /\ Rows' /\ Locks' /\ Ids' = Ids /\ Working' = Working
    BY <2>1 DEF IInv, Shape, OneOrderPerId, Rows, Locks, Working, Ids
  <2>3. \A p \in Procs : \A i \in DOMAIN plan[p] : Planned(i, plan[p][i])'
    BY <2>1, SamePlans DEF IInv, Plans
  <2>4. Plans'
    BY <2>1, <2>2, <2>3 DEF IInv, Plans
  <2>5. Races'
    BY <2>1, <2>2 DEF IInv, Races
  <2> QED
    BY <2>2, <2>4, <2>5 DEF IInv
<1>2. CASE ResumeInstrument
  <2>1. UNCHANGED <<market, orders, lock, job, plan, bulk, raced>>
    BY <1>2 DEF ResumeInstrument
  <2> QED
    BY <2>1, Waiting DEF IInv, Shape, Plans
<1>3. CASE Crash
  <2>1. /\ lock' = Free /\ bulk' = NoBulk /\ raced' = raced \cap Ids
        /\ job' = [p \in Procs |-> Idle] /\ plan' = [p \in Procs |-> NoPlan]
        /\ UNCHANGED <<market, orders>>
    BY <1>3 DEF Crash
  <2>2. Shape'
    BY <2>1 DEF IInv, Shape, Jobs, Idle, NoBulk
  <2>3. OneOrderPerId' /\ Rows' /\ Locks' /\ Working' = Working
    BY <2>1 DEF IInv, OneOrderPerId, Rows, Locks, Working, Ids, NoBulk
  <2>4. \A p \in Procs : DOMAIN plan'[p] = {} /\ job'[p].op = "idle"
    BY <2>1 DEF NoPlan, Idle
  <2>5. market' = "CLOSED" => Working' \subseteq raced'
    BY <2>1, <2>3 DEF IInv, Races, Working
  <2> QED
    BY <2>1, <2>2, <2>3, <2>4, <2>5, Rest
<1> QED
  BY <1>1, <1>2, <1>3

LEMMA Preserved == IInv /\ [Next]_vars => IInv'
<1> SUFFICES ASSUME IInv, [Next]_vars PROVE IInv'
  OBVIOUS
<1>1. ASSUME UNCHANGED vars
      PROVE  IInv'
  BY <1>1, Waiting DEF vars, IInv, Shape, Plans
<1>2. ASSUME NEW p \in Phones, SendOrder(p) \/ SendCancel(p) \/ Place(p) \/ Cancel(p)
      PROVE  IInv'
  BY <1>2, Handling DEF Procs
<1>3. CASE SweepCapture \/ Sweep
  BY <1>3, Handling DEF Procs
<1> QED
  BY <1>1, <1>2, <1>3, Committed, BulkBegun, BulkCommitted, Surroundings DEF Next

\* Every state of the order book satisfies the invariant.
THEOREM Invariance == Spec => []IInv
BY Initially, Preserved, PTL DEF Spec

-----------------------------------------------------------------------------
\* A client order id makes one order, however often phones send it
\* (submit_order looks a resent id up under the team lock).
THEOREM OrderedOnce == Spec => []OneOrderPerId
<1>1. IInv => OneOrderPerId
  BY DEF IInv
<1> QED
  BY <1>1, Invariance, PTL

\* FILLED and complete are the same, whatever cancels and bulk cancels race the
\* fills (execute_fill and the column-wise writes of a session).
THEOREM FilledMeansComplete == Spec => []FilledIffComplete
<1>1. IInv => FilledIffComplete
  BY DEF IInv, Rows, Sound, FilledIffComplete
<1> QED
  BY <1>1, Invariance, PTL

\* A close leaves no working order, but for those somebody was writing while it
\* ran (close_day cancels without the team lock).
THEOREM ClosedBook == Spec => []CloseLeavesNone
<1>1. IInv => CloseLeavesNone
  BY DEF IInv, Races, CloseLeavesNone
<1> QED
  BY <1>1, Invariance, PTL

-----------------------------------------------------------------------------
\* The life of each order.  What a handler has decided for a row is a step of
\* that life, and stays one until it is committed, unless a bulk cancel came
\* in between: only the holder of the lock and bulk cancels write rows.

\* OrderLife's steps, of an order of client id c, from status s with d shares
\* filled to status t with e shares filled.
Lives(c, s, d, t, e) ==
  \/ s = "NEW" /\ t = "REJECTED" /\ e = d
  \/ /\ \E n \in 0 .. Qty[c] : e = d + n
     /\ e <= Qty[c]
     /\ \/ s \in {"NEW", "PENDING"} /\ t = IF e = Qty[c] THEN "FILLED" ELSE "PENDING"
        \/ s \in {"NEW", "PENDING", "TRIGGERED"} /\ t = IF e = Qty[c] THEN "FILLED" ELSE "TRIGGERED"
  \/ s \in {"PENDING", "TRIGGERED"} /\ t = "CANCELLED" /\ e = d

Meant(i, w) ==
  /\ i \in Ids =>
       /\ FilledOf(orders[i], w) <= Qty[orders[i].cid]
       /\ i \in raced \/ Lives(orders[i].cid, orders[i].status, orders[i].filled,
                               StatusOf(orders[i], w), FilledOf(orders[i], w))
  /\ i \notin Ids => Lives(w.cid, "NEW", 0, w.status, w.filled)

Legal ==
  /\ \A i \in Ids : orders[i].filled <= Qty[orders[i].cid]
  /\ \A p \in Procs : \A i \in DOMAIN plan[p] : Meant(i, plan[p][i])

\* What is recorded of an order that is submitted is the first step of its life.
LEMMA Born ==
  ASSUME NEW c \in Cids, NEW o \in Submitted(c)
  PROVE  Lives(c, "NEW", 0, o.status, o.filled)
<1> DEFINE new == [cid |-> c, status |-> "PENDING", filled |-> 0]
<1>1. Qty[c] \in Nat \ {0}
  BY OrderAssumption
<1>2. CASE o = [new EXCEPT !.status = "REJECTED"]
  BY <1>2 DEF Lives
<1>3. CASE o = new
  BY <1>1, <1>3 DEF Lives
<1>4. CASE o \in TryExecute(Triggered(new), market)
  <2>1. PICK old : old = Triggered(new)
    OBVIOUS
  <2>2. /\ old.cid = c /\ old.status \in {"PENDING", "TRIGGERED"} /\ old.filled = 0
        /\ old \in Row
    BY <1>1, <2>1 DEF Triggered, Row, Status, Open
  <2>3. PICK n \in Fills(old, market) : o = ExecuteFill(old, n)
    BY <1>4, <2>1 DEF TryExecute
  <2>4. n \in 0 .. Qty[c]
    BY <1>1, <2>2 DEF Fills
  <2>5. /\ o.filled = n
        /\ o.status = IF n > 0 /\ n >= Qty[c] THEN "FILLED" ELSE old.status
    BY <2>2, <2>3, <2>4 DEF ExecuteFill, Row
  <2> QED
    BY <1>1, <2>2, <2>4, <2>5 DEF Lives
<1> QED
  BY <1>2, <1>3, <1>4 DEF Submitted

\* What a sweep makes of a working order is a step of its life.
LEMMA Grown ==
  ASSUME NEW o \in Row, Sound(o), o.status \in Open, o.filled <= Qty[o.cid], NEW r \in Swept(o)
  PROVE  /\ r.cid = o.cid /\ r.filled <= Qty[o.cid]
         /\ Lives(o.cid, o.status, o.filled, r.status, r.filled)
<1>1. /\ Qty[o.cid] \in Nat \ {0} /\ o.filled \in Nat /\ o.filled # Qty[o.cid]
      /\ o.status \in {"PENDING", "TRIGGERED"}
  BY OrderAssumption DEF Row, Sound, Open
<1>2. CASE r = o
  BY <1>1, <1>2 DEF Lives
<1>3. CASE r = [o EXCEPT !.status = "CANCELLED"]
  BY <1>1, <1>3 DEF Lives, Row
<1>4. CASE r \in TryExecute(Triggered(o), "OPEN")
  <2>1. PICK old : old = Triggered(o)
    OBVIOUS
  <2>2. /\ old.cid = o.cid /\ old.filled = o.filled /\ old \in Row
        /\ old.status = o.status \/ old.status = "TRIGGERED"
    BY <2>1 DEF Triggered, Row, Status, Open
  <2>3. PICK n \in Fills(old, "OPEN") : r = ExecuteFill(old, n)
    BY <1>4, <2>1 DEF TryExecute
  <2>4. n \in 0 .. Qty[o.cid] /\ o.filled + n <= Qty[o.cid]
    BY <1>1, <2>2, <2>3 DEF Fills
  <2>5. /\ r.cid = o.cid /\ r.filled = o.filled + n
        /\ r.status = IF n > 0 /\ o.filled + n >= Qty[o.cid] THEN "FILLED" ELSE old.status
    BY <2>2, <2>3, <2>4 DEF ExecuteFill, Row
  <2> QED
    BY <1>1, <2>2, <2>4, <2>5 DEF Lives
<1> QED
  BY <1>2, <1>3, <1>4 DEF Swept

\* Deciding on columns that are steps of a life.
LEMMA Intending ==
  ASSUME IInv, Legal, NEW p \in Procs, NEW w, Decide(p, w),
         \A i \in DOMAIN w : Meant(i, w[i])
  PROVE  Legal'
<1>1. /\ lock = Free /\ plan' = [plan EXCEPT ![p] = w] /\ raced \subseteq raced'
      /\ orders' = orders /\ Ids' = Ids
  BY DEF Decide, Ids
<1>2. \A q \in Procs : plan'[q] = IF q = p THEN w ELSE plan[q]
  BY <1>1 DEF IInv, Shape
<1>3. ASSUME NEW i, NEW v, Meant(i, v)
      PROVE  Meant(i, v)'
  BY <1>1, <1>3 DEF Meant, FilledOf, StatusOf, Lives
<1> QED
  BY <1>1, <1>2, <1>3 DEF Legal

\* The rows after a commit of p.
LEMMA Writing ==
  ASSUME IInv, Legal, NEW p \in Procs, Commit(p), NEW i \in DOMAIN plan[p], i \in Ids
  PROVE  /\ orders'[i].cid = orders[i].cid
         /\ orders'[i].status = StatusOf(orders[i], plan[p][i])
         /\ orders'[i].filled = FilledOf(orders[i], plan[p][i])
<1>1. PICK o : o = orders'[i]
  OBVIOUS
<1>2. PICK w : w = plan[p][i]
  OBVIOUS
<1>3. o = [c \in Columns |-> IF c \in DOMAIN w THEN w[c] ELSE orders[i][c]]
  BY <1>1, <1>2 DEF Commit
<1>4. "cid" \notin DOMAIN w
  BY <1>2, OrdersKnown DEF IInv, Plans, Planned, Writable
<1>5. /\ o.cid = orders[i].cid /\ o.status = StatusOf(orders[i], w)
      /\ o.filled = FilledOf(orders[i], w)
  BY <1>3, <1>4 DEF Columns, StatusOf, FilledOf
<1> QED
  BY <1>1, <1>2, <1>5

LEMMA LegalInitially == Init => Legal
<1> SUFFICES ASSUME Init PROVE Legal
  OBVIOUS
<1>1. Ids = {} /\ \A p \in Procs : DOMAIN plan[p] = {}
  BY EmptySeq DEF Init, Ids, NoPlan
<1> QED
  BY <1>1 DEF Legal

LEMMA LegalDecided ==
  ASSUME IInv, Legal, NEW p \in Procs, NEW w, Decide(p, w),
         \/ Place(p) \/ Cancel(p)
         \/ p = "sweep" /\ Sweep
  PROVE  Legal'
<1>1. /\ Len(orders) \in Nat /\ Ids = 1 .. Len(orders)
      /\ \A i \in Ids : orders[i] \in Row /\ Sound(orders[i])
      /\ job \in [Procs -> Jobs] /\ Working \subseteq Ids
  BY OrdersKnown DEF IInv, Shape, Working
<1>2. job' = [job EXCEPT ![p] = [op |-> "commit"]] /\ ~Answer(p)
  <2>1. job'[p] = [op |-> "commit"]
    BY <1>1 DEF Decide
  <2>2. job'[p].op # "idle"
    BY <2>1
  <2>3. Answer(p) => job'[p] = [op |-> "idle"]
    BY <1>1 DEF Answer, Idle
  <2> QED
    BY <2>2, <2>3 DEF Decide
<1>3. CASE Place(p)
  <2>1. PICK c \in Cids : c = job[p].cid
    BY <1>1, <1>3 DEF Place, Jobs
  <2>2. PICK o \in Submitted(c) : Decide(p, [i \in {Len(orders) + 1} |-> o])
    BY <1>2, <1>3, <2>1 DEF Place
  <2>3. PICK v : v = [i \in {Len(orders) + 1} |-> o]
    OBVIOUS
  <2>4. o.cid = c
    BY Submitting
  <2>5. \A i \in DOMAIN v : i \notin Ids /\ Meant(i, v[i])
    BY <1>1, <2>3, <2>4, Born DEF Meant
  <2> QED
    BY <2>2, <2>3, <2>5, Intending
<1>4. CASE Cancel(p)
  <2>1. PICK i \in Ids : i = job[p].id
    BY <1>4 DEF Cancel, IInv, Plans
  <2>2. orders[i].status \in Open /\ Decide(p, [j \in {i} |-> [status |-> "CANCELLED"]])
    BY <1>2, <1>4, <2>1 DEF Cancel
  <2>3. PICK v : v = [j \in {i} |-> [status |-> "CANCELLED"]]
    OBVIOUS
  <2>4. Meant(i, [status |-> "CANCELLED"])
    BY <2>2 DEF Legal, Meant, StatusOf, FilledOf, Lives, Open
  <2>5. \A j \in DOMAIN v : Meant(j, v[j])
    BY <2>3, <2>4
  <2> QED
    BY <2>2, <2>3, <2>5, Intending
<1>5. CASE p = "sweep" /\ Sweep
  <2>1. PICK due : due = IF suspended THEN {} ELSE job["sweep"].ids \cap Working
    OBVIOUS
  <2>2. PICK r \in [due -> UNION {Swept(orders[i]) : i \in due}] :
          /\ \A i \in due : r[i] \in Swept(orders[i])
          /\ Decide(p, [i \in due |-> Changed(orders[i], r[i])])
    BY <1>2, <1>5, <2>1 DEF Sweep
  <2>3. PICK v : v = [i \in due |-> Changed(orders[i], r[i])]
    OBVIOUS
  <2>4. ASSUME NEW i \in due
        PROVE  Meant(i, Changed(orders[i], r[i]))
    <3>1. /\ i \in Ids /\ orders[i] \in Row /\ Sound(orders[i]) /\ orders[i].status \in Open
          /\ orders[i].filled <= Qty[orders[i].cid] /\ r[i] \in Swept(orders[i])
      BY <1>1, <2>1, <2>2 DEF Working, Legal
    <3>2. PICK o, n : o = orders[i] /\ n = r[i]
      OBVIOUS
    <3>3. /\ n.filled <= Qty[o.cid]
          /\ Lives(o.cid, o.status, o.filled, n.status, n.filled)
      BY <3>1, <3>2, Grown
    <3>4. n \in Row
      <4>1. CASE n = o
        BY <3>1, <3>2, <4>1
      <4>2. CASE n \in TryExecute(Triggered(o), "OPEN")
        BY <3>1, <3>2, <4>2, Arming, Executed
      <4>3. CASE n = [o EXCEPT !.status = "CANCELLED"]
        BY <3>1, <3>2, <4>3 DEF Row, Status
      <4> QED
        BY <3>1, <3>2, <4>1, <4>2, <4>3 DEF Swept
    <3>5. PICK d : d = Changed(o, n)
      OBVIOUS
    <3>6. StatusOf(o, d) = n.status /\ FilledOf(o, d) = n.filled
      BY <3>1, <3>2, <3>4, <3>5 DEF Changed, Row, StatusOf, FilledOf
    <3> QED
      BY <3>1, <3>2, <3>3, <3>5, <3>6 DEF Meant
  <2>5. \A i \in DOMAIN v : Meant(i, v[i])
    BY <2>3, <2>4
  <2> QED
    BY <2>2, <2>3, <2>5, Intending
<1> QED
  BY <1>3, <1>4, <1>5

LEMMA LegalCommitted ==
  ASSUME IInv, Legal, NEW p \in Procs, Commit(p)
  PROVE  Legal'
<1>1. /\ Ids' = Ids \cup DOMAIN plan[p]
      /\ \A i \in Ids \ DOMAIN plan[p] : orders'[i] = orders[i]
      /\ \A i \in DOMAIN plan[p] : i \notin Ids => orders'[i] = plan[p][i]
  BY Committing
<1>2. \A q \in Procs : DOMAIN plan'[q] = {}
  <2>1. lock = p
    BY DEF Commit, IInv, Plans
  <2>2. \A q \in Procs : plan'[q] = IF q = p THEN NoPlan ELSE plan[q]
    BY DEF Commit, IInv, Shape
  <2> QED
    BY <2>1, <2>2 DEF IInv, Plans, NoPlan
<1>3. ASSUME NEW i \in Ids'
      PROVE  orders'[i].filled <= Qty[orders'[i].cid]
  <2>1. CASE i \in Ids /\ i \notin DOMAIN plan[p]
    BY <1>1, <2>1 DEF Legal
  <2>2. CASE i \in Ids /\ i \in DOMAIN plan[p]
    BY <2>2, Writing DEF Legal, Meant
  <2>3. CASE i \notin Ids
    <3>1. i \in DOMAIN plan[p] /\ orders'[i] = plan[p][i]
      BY <1>1, <1>3, <2>3
    <3>2. orders'[i].cid \in Cids
      <4>1. orders' \in Seq(Row) /\ i \in DOMAIN orders'
        BY <1>3, Committing DEF Ids
      <4>2. orders'[i] \in Row
        BY <4>1
      <4> QED
        BY <4>2 DEF Row
    <3>3. Qty[orders'[i].cid] \in Nat
      BY <3>2, OrderAssumption
    <3>4. Lives(orders'[i].cid, "NEW", 0, orders'[i].status, orders'[i].filled)
      BY <2>3, <3>1 DEF Legal, Meant
    <3> QED
      BY <3>3, <3>4 DEF Lives
  <2> QED
    BY <2>1, <2>2, <2>3
<1> QED
  BY <1>2, <1>3 DEF Legal

\* Whoever has decided while a bulk cancel runs is in raced.
LEMMA LegalBulk ==
  ASSUME IInv, Legal, BulkBegin \/ BulkCommit
  PROVE  Legal'
<1>1. CASE BulkBegin
  <2>1. orders' = orders /\ plan' = plan /\ raced \subseteq raced' /\ Ids' = Ids
    BY <1>1 DEF BulkBegin, Ids
  <2> QED
    BY <2>1 DEF Legal, Meant, FilledOf, StatusOf, Lives
<1>2. CASE BulkCommit
  <2>1. /\ bulk # NoBulk /\ UNCHANGED <<plan, raced>>
        /\ orders' = [i \in Ids |-> IF i \in bulk.ids THEN [orders[i] EXCEPT !.status = "CANCELLED"]
                                    ELSE orders[i]]
    BY <1>2 DEF BulkCommit
  <2>2. Ids' = Ids
    BY <2>1 DEF Ids
  <2>3. \A p \in Procs : DOMAIN plan[p] \subseteq raced
    BY <2>1 DEF IInv, Races
  <2>4. \A i \in Ids : orders'[i].filled = orders[i].filled /\ orders'[i].cid = orders[i].cid
    BY <2>1, OrdersKnown DEF Row
  <2>5. ASSUME NEW p \in Procs, NEW i \in DOMAIN plan[p]
        PROVE  Meant(i, plan[p][i])'
    <3>1. PICK w : w = plan[p][i] /\ Meant(i, w) /\ plan'[p][i] = w
      BY <2>1 DEF Legal
    <3>2. i \in Ids => FilledOf(orders'[i], w) = FilledOf(orders[i], w)
      BY <2>4 DEF FilledOf
    <3>3. i \in raced'
      BY <2>1, <2>3
    <3> QED
      BY <2>2, <2>4, <3>1, <3>2, <3>3 DEF Meant, FilledOf, StatusOf, Lives
  <2> QED
    BY <2>1, <2>2, <2>4, <2>5 DEF Legal
<1> QED
  BY <1>1, <1>2

LEMMA LegalPreserved == IInv /\ Legal /\ [Next]_vars => Legal'
<1> SUFFICES ASSUME IInv, Legal, [Next]_vars PROVE Legal'
  OBVIOUS
<1>1. ASSUME UNCHANGED <<orders, plan, raced>>
      PROVE  Legal'
  BY <1>1 DEF Legal, Meant, FilledOf, StatusOf, Lives, Ids
<1>2. ASSUME NEW p \in Procs, \/ Place(p) \/ Cancel(p)
                              \/ p = "sweep" /\ Sweep
      PROVE  Legal'
  <2>1. CASE Answer(p)
    BY <1>1, <2>1 DEF Answer
  <2>2. CASE ~Answer(p)
    <3>1. \E w : Decide(p, w)
      BY <1>2, <2>2 DEF Place, Cancel, Sweep
    <3> QED
      BY <1>2, <3>1, LegalDecided
  <2> QED
    BY <2>1, <2>2
<1>3. ASSUME NEW p \in Phones, SendOrder(p) \/ SendCancel(p)
      PROVE  Legal'
  BY <1>1, <1>3 DEF SendOrder, SendCancel, Send
<1>4. CASE Crash
  <2>1. orders' = orders /\ \A p \in Procs : DOMAIN plan'[p] = {}
    BY <1>4 DEF Crash, NoPlan
  <2> QED
    BY <2>1 DEF Legal, Ids
<1>5. CASE SweepCapture \/ MarketMoves \/ ResumeInstrument \/ UNCHANGED vars
  BY <1>1, <1>5 DEF SweepCapture, MarketMoves, ResumeInstrument, vars
<1>6. Phones \subseteq Procs /\ "sweep" \in Procs
  BY DEF Procs
<1> QED
  BY <1>2, <1>3, <1>4, <1>5, <1>6, LegalCommitted, LegalBulk DEF Next

-----------------------------------------------------------------------------
LEMMA LifeOf ==
  ASSUME OneOrderPerId, NEW i \in Ids
  PROVE  Life(orders[i].cid) = orders[i]
<1>1. \A j \in Ids : orders[j].cid = orders[i].cid => j = i
  BY DEF OneOrderPerId
<1> QED
  BY <1>1 DEF Life

LEMMA Promised ==
  ASSUME NEW c \in Cids, Lives(c, Life(c).status, Life(c).filled, Life(c)'.status, Life(c)'.filled)
  PROVE  Promise(c)!Next
BY DEF Lives, Promise!Next, Promise!Reject, Promise!Work, Promise!Fill, Promise!Cancel

\* One step of the book is a step of each order's life, or leaves it alone, or
\* somebody was writing the order during a bulk cancel.
LEMMA Living ==
  ASSUME IInv, Legal, IInv', [Next]_vars, NEW c \in Cids
  PROVE  Promise(c)!Next \/ UNCHANGED Life(c) \/ Raced(c)
<1>1. OneOrderPerId /\ OneOrderPerId' /\ \A i \in Ids : orders[i] \in Row /\ Sound(orders[i])
  BY OrdersKnown DEF IInv
<1>2. CASE UNCHANGED orders
  BY <1>2 DEF Life, Ids
<1>3. ASSUME NEW i \in Ids, i \in Ids', orders[i].cid = c, orders'[i].cid = c
      PROVE  Life(c) = orders[i] /\ Life(c)' = orders'[i]
  <2>1. Life(c) = orders[i]
    BY <1>1, <1>3, LifeOf
  <2>2. \A j \in Ids' : orders'[j].cid = c => j = i
    BY <1>1, <1>3 DEF OneOrderPerId
  <2>3. (CHOOSE j \in Ids' : orders'[j].cid = c) = i
    BY <1>3, <2>2
  <2> QED
    BY <1>3, <2>1, <2>3 DEF Life
<1>4. ASSUME NEW p \in Procs, Commit(p)
      PROVE  Promise(c)!Next \/ UNCHANGED Life(c) \/ Raced(c)
  <2>1. /\ Ids' = Ids \cup DOMAIN plan[p]
        /\ \A i \in Ids \ DOMAIN plan[p] : orders'[i] = orders[i]
        /\ \A i \in DOMAIN plan[p] : i \notin Ids => orders'[i] = plan[p][i]
    BY <1>4, Committing
  <2>2. CASE \E i \in Ids : orders[i].cid = c
    <3>1. PICK i \in Ids : orders[i].cid = c
      BY <2>2
    <3>2. CASE i \notin DOMAIN plan[p]
      BY <1>3, <2>1, <3>1, <3>2
    <3>3. CASE i \in DOMAIN plan[p] /\ i \in raced
      BY <3>1, <3>3 DEF Raced
    <3>4. CASE i \in DOMAIN plan[p] /\ i \notin raced
      <4>1. /\ orders'[i].cid = c
            /\ orders'[i].status = StatusOf(orders[i], plan[p][i])
            /\ orders'[i].filled = FilledOf(orders[i], plan[p][i])
        BY <1>4, <3>1, <3>4, Writing
      <4>2. Lives(c, orders[i].status, orders[i].filled, orders'[i].status, orders'[i].filled)
        BY <3>1, <3>4, <4>1 DEF Legal, Meant
      <4>3. Life(c) = orders[i] /\ Life(c)' = orders'[i]
        BY <1>3, <2>1, <3>1, <4>1
      <4> QED
        BY <4>2, <4>3, Promised
    <3> QED
      BY <3>2, <3>3, <3>4
  <2>3. CASE ~\E i \in Ids : orders[i].cid = c
    <3>1. Life(c).status = "NEW" /\ Life(c).filled = 0
      BY <2>3 DEF Life
    <3>2. CASE ~\E i \in Ids' : orders'[i].cid = c
      BY <2>3, <3>2 DEF Life
    <3>3. CASE \E i \in Ids' : orders'[i].cid = c
      <4>1. PICK i \in Ids' : orders'[i].cid = c
        BY <3>3
      <4>2. CASE i \in Ids
        <5>1. i \in DOMAIN plan[p] => orders'[i].cid = orders[i].cid
          BY <1>4, <4>2, Writing
        <5> QED
          BY <2>1, <2>3, <4>1, <4>2, <5>1
      <4>3. CASE i \notin Ids
        <5>1. i \in DOMAIN plan[p] /\ orders'[i] = plan[p][i]
          BY <2>1, <4>1, <4>3
        <5>2. Lives(c, "NEW", 0, orders'[i].status, orders'[i].filled)
          BY <4>1, <4>3, <5>1 DEF Legal, Meant
        <5>3. \A j \in Ids' : orders'[j].cid = c => j = i
          BY <1>1, <4>1 DEF OneOrderPerId
        <5>4. (CHOOSE j \in Ids' : orders'[j].cid = c) = i
          BY <4>1, <5>3
        <5>5. Life(c)' = orders'[i]
          BY <4>1, <5>4 DEF Life
        <5> QED
          BY <3>1, <5>2, <5>5, Promised
      <4> QED
        BY <4>2, <4>3
    <3> QED
      BY <3>2, <3>3
  <2> QED
    BY <2>2, <2>3
<1>5. CASE BulkCommit
  <2>1. orders' = [i \in Ids |-> IF i \in bulk.ids THEN [orders[i] EXCEPT !.status = "CANCELLED"]
                                 ELSE orders[i]]
    BY <1>5 DEF BulkCommit
  <2>2. Ids' = Ids /\ \A i \in Ids : orders'[i].cid = orders[i].cid
    BY <1>1, <2>1 DEF Ids, Row
  <2>3. CASE \E i \in Ids : orders[i].cid = c
    <3>1. PICK i \in Ids : orders[i].cid = c
      BY <2>3
    <3>2. Life(c) = orders[i] /\ Life(c)' = orders'[i]
      BY <1>3, <2>2, <3>1
    <3>3. CASE i \in bulk.ids
      <4>1. orders[i].status \in {"PENDING", "TRIGGERED"}
        BY <3>3 DEF IInv, Locks, Working, Open
      <4>2. orders'[i].status = "CANCELLED" /\ orders'[i].filled = orders[i].filled
        BY <1>1, <2>1, <3>3 DEF Row
      <4> QED
        BY <3>2, <4>1, <4>2, Promised DEF Lives
    <3>4. CASE i \notin bulk.ids
      BY <2>1, <3>2, <3>4
    <3> QED
      BY <3>3, <3>4
  <2>4. CASE ~\E i \in Ids : orders[i].cid = c
    BY <2>2, <2>4 DEF Life
  <2> QED
    BY <2>3, <2>4
<1>6. CASE \E p \in Phones : SendOrder(p) \/ SendCancel(p) \/ Place(p) \/ Cancel(p)
  BY <1>2, <1>6 DEF SendOrder, SendCancel, Send, Place, Cancel, Decide, Answer
<1>7. CASE SweepCapture \/ Sweep \/ BulkBegin \/ MarketMoves \/ ResumeInstrument \/ Crash \/ UNCHANGED vars
  BY <1>2, <1>7 DEF SweepCapture, Sweep, Decide, Answer, BulkBegin, MarketMoves, ResumeInstrument, Crash, vars
<1> QED
  BY <1>4, <1>5, <1>6, <1>7 DEF Next

\* Each order lives the life the exchange promises (OrderLife): accepted or
\* rejected once, filled its quantity at most, and left alone once it is
\* filled, cancelled or rejected (cancel_order, execute_fill, the sweep under
\* the team lock), unless somebody was writing it during a bulk cancel.
THEOREM LivesAsPromised == Spec => RefinesOrderLife
<1>1. Init => \A c \in Cids : Promise(c)!Init
  <2> SUFFICES ASSUME Init, NEW c \in Cids PROVE Promise(c)!Init
    OBVIOUS
  <2>1. Ids = {}
    BY EmptySeq DEF Init, Ids
  <2>2. Life(c).status = "NEW" /\ Life(c).filled = 0
    BY <2>1 DEF Life
  <2> QED
    BY <2>2 DEF Promise!Init
<1>2. IInv /\ Legal /\ IInv' /\ [Next]_vars
        => [\A c \in Cids : Promise(c)!Next \/ UNCHANGED Life(c) \/ Raced(c)]_vars
  BY Living
<1>3. Spec => []Legal
  BY Invariance, LegalInitially, LegalPreserved, PTL DEF Spec
<1> QED
  BY <1>1, <1>2, <1>3, Invariance, PTL DEF Spec, RefinesOrderLife

=============================================================================
