--------------------------- MODULE TeamBookProofs ---------------------------
(***************************************************************************)
(* Proofs about TeamBook for every set of teams, handlers, kinds, amounts  *)
(* and bounds.  The argument for the money: a locked handler whose row is  *)
(* loaded is the head of its team's queue, so no two of them have one row  *)
(* loaded; as long as no unlocked handler had it loaded with another, at   *)
(* most one session knows the row, and what it read is still what is there.*)
(***************************************************************************)
EXTENDS TeamBook, SequenceTheorems, TLAPS

Loaded(p, t) == t \in rows[p]

\* The lock discipline of the handlers that take the team lock.
Discipline ==
  \A p \in Procs :
    /\ pc[p] \in {"idle", "waiting"} => rows[p] = {}
    /\ pc[p] = "bulk" => kind[p] \in BulkKinds
    /\ pc[p] = "waiting" => kind[p] \in LockedKinds
    /\ pc[p] \in {"waiting", "ready"} /\ kind[p] = "adjust" => item[p] \in Adjs
    /\ pc[p] = "ready" =>
         /\ kind[p] \in LockedKinds
         /\ rows[p] = {target[p]}
         /\ queue[target[p]] # <<>>
         /\ Head(queue[target[p]]) = p

\* What a session read is current, unless an unlocked handler interfered.
Fresh ==
  \A t \in Teams : ~mixed[t] =>
    /\ cash[t] = posted[t]
    /\ \A p \in Procs : Loaded(p, t) =>
         /\ snap[p][t] = cash[t]
         /\ due[p][t] = post[p][t]
         /\ \A q \in Procs : Loaded(q, t) => q = p

\* A refusable posting that got past its check fits the cash it read.
Afforded ==
  \A p \in Procs : (pc[p] = "ready" /\ kind[p] \in {"order", "research"}) =>
    snap[p][target[p]] + due[p][target[p]] >= 0

-----------------------------------------------------------------------------
\* Joining the queue of a lock does not change who holds it.
LEMMA JoiningKeepsHolder ==
  ASSUME NEW S, NEW q \in Seq(S), NEW e \in S, q # <<>>
  PROVE  Append(q, e) # <<>> /\ Head(Append(q, e)) = Head(q)
<1>1. Append(q, e) # <<>>
  BY AppendProperties
<1>2. Head(Append(q, e)) = Head(q)
  BY HeadTailAppend
<1> QED
  BY <1>1, <1>2

\* Reading the four kinds of locked row comes down to two outcomes.
LEMMA ReadOutcomes ==
  ASSUME TypeOK, Discipline, NEW p \in Procs,
         ReadForOrder(p) \/ ReadForCover(p) \/ ReadForResearch(p) \/ ReadForAdjustment(p)
  PROVE  /\ Holds(p)
         /\ \/ Refuse(p)
            \/ \E d \in Int : /\ Prepare(p, d)
                              /\ kind[p] \in {"order", "research"} => cash[target[p]] + d >= 0
<1> USE MoneyAssumption DEF TypeOK
<1>1. CASE ReadForOrder(p)
  BY <1>1 DEF ReadForOrder
<1>2. CASE ReadForCover(p)
  BY <1>2 DEF ReadForCover
<1>3. CASE ReadForResearch(p)
  BY <1>3 DEF ReadForResearch
<1>4. CASE ReadForAdjustment(p)
  BY <1>4 DEF ReadForAdjustment, Holds, Discipline
<1> QED
  BY <1>1, <1>2, <1>3, <1>4

\* The note of overlaps stays a Boolean of each team when rows are loaded.
LEMMA LoadTypesMixed ==
  ASSUME TypeOK, NEW p \in Procs, NEW S, Load(p, S)
  PROVE  mixed' \in [Teams -> BOOLEAN]
<1> DEFINE Met(t) == \/ mixed[t]
                     \/ /\ t \in S
                        /\ \E q \in Procs \ {p} :
                             /\ t \in rows[q]
                             /\ {kind[p], kind[q]} \cap BulkKinds # {}
<1>1. mixed' = [t \in Teams |-> Met(t)]
  BY DEF Load
<1>2. \A t \in Teams : Met(t) \in BOOLEAN
  BY Zenon DEF TypeOK
<1> HIDE DEF Met
<1> QED
  BY <1>1, <1>2

\* Two handlers that are ready on one team are one handler: the head of its queue.
LEMMA OneReady ==
  ASSUME Discipline, NEW p \in Procs, NEW q \in Procs,
         pc[p] = "ready", pc[q] = "ready", target[p] = target[q]
  PROVE  p = q
<1>1. Head(queue[target[p]]) = p
  BY DEF Discipline
<1>2. Head(queue[target[q]]) = q
  BY DEF Discipline
<1> QED
  BY <1>1, <1>2

\* A step keeps every variable's type: a lock is only released by its holder.
LEMMA TypeStep == TypeOK /\ Discipline /\ [Next]_vars => TypeOK'
<1> SUFFICES ASSUME TypeOK, Discipline, [Next]_vars PROVE TypeOK'
  OBVIOUS
<1> USE MoneyAssumption DEF LockedKinds, BulkKinds, TypeOK
<1>z. Zero \in [Teams -> Int]
  BY DEF Zero
<1>0. ASSUME NEW p \in Procs, NEW t \in Teams, NEW k \in LockedKinds, Start(p, k), Enqueue(p, t),
             item' \in [Procs -> Adjs \cup {"none"}]
      PROVE TypeOK'
  <2>1. queue' \in [Teams -> Seq(Procs)]
    BY <1>0, AppendProperties DEF Enqueue
  <2> QED
    BY <1>0, <2>1 DEF Start, Enqueue, dbVars
<1>1. ASSUME NEW p \in Procs, NEW t \in Teams, RequestTrade(p, t) \/ RequestResearch(p, t)
      PROVE TypeOK'
  BY <1>0, <1>1 DEF RequestTrade, RequestResearch
<1>3. ASSUME NEW p \in Procs, NEW a \in Adjs, RequestApproval(p, a) PROVE TypeOK'
  BY <1>0, <1>3 DEF RequestApproval
<1>4. ASSUME NEW p \in Procs, BeginBulk(p) PROVE TypeOK'
  BY <1>4 DEF BeginBulk, Start, dbVars
<1>5. ASSUME NEW p \in Procs, BeginReset(p) PROVE TypeOK'
  <2>1. [t \in Teams |-> Opening - cash[t]] \in [Teams -> Int]
    OBVIOUS
  <2>2. [t \in Teams |-> Opening - posted[t]] \in [Teams -> Int]
    OBVIOUS
  <2>3. snap' \in [Procs -> [Teams -> Int]] /\ rows' \in [Procs -> SUBSET Teams]
    BY <1>5 DEF BeginReset
  <2>4. due' \in [Procs -> [Teams -> Int]]
    BY <1>5, <2>1 DEF BeginReset
  <2>5. post' \in [Procs -> [Teams -> Int]]
    BY <1>5, <2>2 DEF BeginReset
  <2>6. /\ mixed' \in [Teams -> BOOLEAN]
        /\ pc' \in [Procs -> {"idle", "waiting", "ready", "bulk"}]
    BY <1>5 DEF BeginReset
  <2>7. kind' \in [Procs -> LockedKinds \cup BulkKinds] /\ ops' \in 0 .. MaxOps
    BY <1>5 DEF BeginReset, Start
  <2> QED
    BY <1>5, <2>3, <2>4, <2>5, <2>6, <2>7 DEF BeginReset, dbVars
<1>6. ASSUME NEW p \in Procs, NEW d \in Int, Prepare(p, d) PROVE TypeOK'
  <2>1. rows' \in [Procs -> SUBSET Teams]
    <3>1. rows' = [rows EXCEPT ![p] = rows[p] \cup {target[p]}]
      BY <1>6 DEF Prepare, Load
    <3>2. rows[p] \cup {target[p]} \in SUBSET Teams
      OBVIOUS
    <3> QED
      BY <3>1, <3>2
  <2>2. mixed' \in [Teams -> BOOLEAN]
    BY <1>6, LoadTypesMixed DEF Prepare
  <2>3. snap' \in [Procs -> [Teams -> Int]]
    <3>1. [t \in Teams |-> IF t \in {target[p]} THEN cash[t] ELSE snap[p][t]] \in [Teams -> Int]
      OBVIOUS
    <3>2. snap' = [snap EXCEPT ![p] = [t \in Teams |-> IF t \in {target[p]} THEN cash[t]
                                                        ELSE snap[p][t]]]
      BY <1>6 DEF Prepare, Load
    <3> QED
      BY <3>1, <3>2
  <2>4. due' \in [Procs -> [Teams -> Int]]
    BY <1>6 DEF Prepare
  <2>5. post' \in [Procs -> [Teams -> Int]]
    BY <1>6 DEF Prepare
  <2>6. pc' \in [Procs -> {"idle", "waiting", "ready", "bulk"}]
    BY <1>6 DEF Prepare
  <2> QED
    BY <1>6, <2>1, <2>2, <2>3, <2>4, <2>5, <2>6 DEF Prepare, dbVars
<1>7. ASSUME NEW p \in Procs, Holds(p), Refuse(p) PROVE TypeOK'
  <2>1. queue' \in [Teams -> Seq(Procs)]
    BY <1>7, HeadTailProperties DEF Holds, Refuse, Release
  <2> QED
    BY <1>7, <2>1 DEF Refuse, Release, dbVars
<1>8. ASSUME NEW p \in Procs, ReadForOrder(p) \/ ReadForCover(p)
                              \/ ReadForResearch(p) \/ ReadForAdjustment(p)
      PROVE TypeOK'
  BY <1>6, <1>7, <1>8, ReadOutcomes
<1>9. ASSUME NEW p \in Procs, WriteBack(p)
      PROVE /\ cash' \in [Teams -> Int] /\ posted' \in [Teams -> Int]
            /\ rows' \in [Procs -> SUBSET Teams] /\ snap' \in [Procs -> [Teams -> Int]]
            /\ due' \in [Procs -> [Teams -> Int]] /\ post' \in [Procs -> [Teams -> Int]]
  <2>1. /\ rows' \in [Procs -> SUBSET Teams] /\ snap' \in [Procs -> [Teams -> Int]]
        /\ due' \in [Procs -> [Teams -> Int]] /\ post' \in [Procs -> [Teams -> Int]]
    BY <1>9, <1>z DEF WriteBack, Forget
  <2>2. \A t \in Teams : snap[p][t] + due[p][t] \in Int /\ posted[t] + post[p][t] \in Int
    OBVIOUS
  <2>3. cash' \in [Teams -> Int]
    BY <1>9, <2>2 DEF WriteBack
  <2>4. posted' \in [Teams -> Int]
    BY <1>9, <2>2 DEF WriteBack
  <2> QED
    BY <2>1, <2>3, <2>4
<1>10. ASSUME NEW p \in Procs, Commit(p) PROVE TypeOK'
  <2>1. queue' \in [Teams -> Seq(Procs)]
    BY <1>10, HeadTailProperties DEF Commit, Release, Discipline
  <2> QED
    BY <1>9, <1>10, <2>1 DEF Commit, Release
<1>11. ASSUME NEW p \in Procs, Abort(p) PROVE TypeOK'
  <2>1. queue' \in [Teams -> Seq(Procs)]
    BY <1>11, HeadTailProperties DEF Abort, Release, Discipline
  <2>2. /\ rows' \in [Procs -> SUBSET Teams] /\ snap' \in [Procs -> [Teams -> Int]]
        /\ due' \in [Procs -> [Teams -> Int]] /\ post' \in [Procs -> [Teams -> Int]]
    BY <1>11, <1>z DEF Abort, Forget
  <2> QED
    BY <1>11, <2>1, <2>2 DEF Abort, Release, dbVars
<1>12. ASSUME NEW p \in Procs, NEW t \in Teams, BulkRow(p, t) PROVE TypeOK'
  <2>1. rows' \in [Procs -> SUBSET Teams]
    BY <1>12 DEF BulkRow, Load
  <2>4. mixed' \in [Teams -> BOOLEAN]
    BY <1>12, LoadTypesMixed DEF BulkRow
  <2>2. snap' \in [Procs -> [Teams -> Int]]
    <3> DEFINE s == [u \in Teams |-> IF u \in {t} THEN cash[u] ELSE snap[p][u]]
    <3>1. s \in [Teams -> Int]
      OBVIOUS
    <3>2. snap' = [snap EXCEPT ![p] = s]
      BY <1>12 DEF BulkRow, Load
    <3> QED
      BY <3>1, <3>2
  <2>3. due' \in [Procs -> [Teams -> Int]] /\ post' \in [Procs -> [Teams -> Int]]
    BY <1>12 DEF BulkRow
  <2> QED
    BY <1>12, <2>1, <2>2, <2>3, <2>4 DEF BulkRow, dbVars
<1>13. ASSUME NEW p \in Procs, BulkCommit(p) PROVE TypeOK'
  BY <1>9, <1>13 DEF BulkCommit, EndBulk
<1>14. ASSUME NEW p \in Procs, BulkAbort(p) PROVE TypeOK'
  BY <1>14, <1>z DEF BulkAbort, Forget, EndBulk, dbVars
<1>15. ASSUME NEW t \in Teams, CooldownEnds(t) PROVE TypeOK'
  BY <1>15 DEF CooldownEnds, dbVars, jobVars
<1>16. CASE Crash
  BY <1>16, <1>z DEF Crash, dbVars
<1>17. CASE UNCHANGED vars
  BY <1>17 DEF vars, dbVars, jobVars
<1> QED
  BY <1>1, <1>3, <1>4, <1>5, <1>8, <1>10, <1>11, <1>12, <1>13, <1>14,
     <1>15, <1>16, <1>17 DEF Next, Request, LockedStep, BulkStep

\* Joining a queue of a team lock keeps the discipline of every handler.
LEMMA JoiningKeepsDiscipline ==
  ASSUME TypeOK, Discipline, NEW p \in Procs, NEW t \in Teams, NEW k \in LockedKinds,
         Start(p, k), Enqueue(p, t),
         \/ UNCHANGED item /\ k # "adjust"
         \/ \E a \in Adjs : item' = [item EXCEPT ![p] = a]
  PROVE  Discipline'
<1> USE DEF TypeOK
<1>1. ASSUME NEW q \in Procs, queue[target[q]] # <<>>
      PROVE queue'[target[q]] # <<>> /\ Head(queue'[target[q]]) = Head(queue[target[q]])
  <2>1. queue'[target[q]] \in {queue[target[q]], Append(queue[target[q]], p)}
    BY DEF Enqueue
  <2> DEFINE line == queue[target[q]]
  <2>2. line \in Seq(Procs) /\ line # <<>>
    BY <1>1
  <2> HIDE DEF line
  <2>3. Append(line, p) # <<>> /\ Head(Append(line, p)) = Head(line)
    BY <2>2, JoiningKeepsHolder
  <2> QED
    BY <1>1, <2>1, <2>3 DEF line
<1>2. /\ pc[p] = "idle"
      /\ pc' = [pc EXCEPT ![p] = "waiting"] /\ kind' = [kind EXCEPT ![p] = k]
      /\ target' = [target EXCEPT ![p] = t] /\ UNCHANGED rows
  BY DEF Start, Enqueue
<1>3. /\ pc'[p] = "waiting" /\ kind'[p] \in LockedKinds /\ rows'[p] = {}
      /\ kind'[p] = "adjust" => item'[p] \in Adjs
  BY <1>2 DEF Discipline
<1>4. ASSUME NEW q \in Procs \ {p}
      PROVE /\ pc'[q] = pc[q] /\ kind'[q] = kind[q] /\ target'[q] = target[q]
            /\ rows'[q] = rows[q] /\ item'[q] = item[q]
  BY <1>2, <1>4
<1>5. ASSUME NEW q \in Procs \ {p}, pc[q] = "ready"
      PROVE queue'[target'[q]] # <<>> /\ Head(queue'[target'[q]]) = q
  <2>1. queue[target[q]] # <<>> /\ Head(queue[target[q]]) = q
    BY <1>5 DEF Discipline
  <2> QED
    BY <1>1, <1>4, <2>1
<1> HIDE DEF TypeOK
<1> QED
  BY <1>3, <1>4, <1>5, Zenon DEF Discipline

\* A step keeps the lock discipline: whoever is at the head of a queue stays
\* there until it releases, and nobody else has reached its row meanwhile.
LEMMA DisciplineStep == TypeOK /\ Discipline /\ [Next]_vars => Discipline'
<1> SUFFICES ASSUME TypeOK, Discipline, [Next]_vars PROVE Discipline'
  OBVIOUS
<1> USE MoneyAssumption DEF LockedKinds, BulkKinds, TypeOK, Discipline
<1>2. ASSUME NEW p \in Procs, NEW t \in Teams, RequestTrade(p, t) \/ RequestResearch(p, t)
      PROVE Discipline'
  <2>1. CASE RequestTrade(p, t)
    <3>1. PICK k \in {"order", "cover"} : Start(p, k)
      BY <2>1 DEF RequestTrade
    <3>2. Enqueue(p, t) /\ UNCHANGED item /\ k \in LockedKinds /\ k # "adjust"
      BY <2>1 DEF RequestTrade
    <3> QED
      BY <3>1, <3>2, JoiningKeepsDiscipline
  <2>2. CASE RequestResearch(p, t)
    BY <2>2, JoiningKeepsDiscipline DEF RequestResearch
  <2> QED
    BY <1>2, <2>1, <2>2
<1>3. ASSUME NEW p \in Procs, NEW a \in Adjs, RequestApproval(p, a) PROVE Discipline'
  BY <1>3, JoiningKeepsDiscipline DEF RequestApproval
<1>4. ASSUME NEW p \in Procs, BeginBulk(p) PROVE Discipline'
  <2>1. PICK k \in {"borrow", "dividend"} : Start(p, k)
    BY <1>4 DEF BeginBulk
  <2>2. /\ pc' = [pc EXCEPT ![p] = "bulk"] /\ kind' = [kind EXCEPT ![p] = k]
        /\ UNCHANGED <<queue, target, item, rows>>
    BY <1>4, <2>1 DEF BeginBulk, Start
  <2> QED
    BY <2>2
<1>5. ASSUME NEW p \in Procs, BeginReset(p) PROVE Discipline'
  BY <1>5 DEF BeginReset, Start
<1>6. ASSUME NEW p \in Procs, NEW d \in Int, Holds(p), Prepare(p, d) PROVE Discipline'
  BY <1>6 DEF Holds, Prepare, Load
<1>7. ASSUME NEW p \in Procs, Holds(p), Refuse(p) PROVE Discipline'
  <2>1. /\ pc' = [pc EXCEPT ![p] = "idle"]
        /\ queue' = [queue EXCEPT ![target[p]] = Tail(@)]
        /\ UNCHANGED <<kind, target, item, rows>>
    BY <1>7 DEF Refuse, Release
  <2>2. pc[p] = "waiting" /\ Head(queue[target[p]]) = p
    BY <1>7 DEF Holds
  <2>3. \A q \in Procs \ {p} : pc[q] = "ready" => target[q] # target[p]
    BY <2>2
  <2> QED
    BY <2>1, <2>2, <2>3
<1>8. ASSUME NEW p \in Procs, ReadForOrder(p) \/ ReadForCover(p)
                              \/ ReadForResearch(p) \/ ReadForAdjustment(p)
      PROVE Discipline'
  BY <1>6, <1>7, <1>8, ReadOutcomes
<1>h. \A p, q \in Procs : pc[p] = "ready" /\ pc[q] = "ready" /\ target[p] = target[q] => p = q
  BY OneReady
<1>9. ASSUME NEW p \in Procs, Commit(p) PROVE Discipline'
  <2>1. pc[p] = "ready"
    BY <1>9 DEF Commit
  <2>2. /\ pc' = [pc EXCEPT ![p] = "idle"]
        /\ rows' = [rows EXCEPT ![p] = {}]
        /\ queue' = [queue EXCEPT ![target[p]] = Tail(@)]
        /\ UNCHANGED <<kind, target, item>>
    BY <1>9 DEF Commit, WriteBack, Forget, Release
  <2> QED
    BY <1>h, <2>1, <2>2
<1>10. ASSUME NEW p \in Procs, Abort(p) PROVE Discipline'
  <2>1. pc[p] = "ready"
    BY <1>10 DEF Abort
  <2>2. /\ pc' = [pc EXCEPT ![p] = "idle"]
        /\ rows' = [rows EXCEPT ![p] = {}]
        /\ queue' = [queue EXCEPT ![target[p]] = Tail(@)]
        /\ UNCHANGED <<kind, target, item>>
    BY <1>10 DEF Abort, Forget, Release
  <2> QED
    BY <1>h, <2>1, <2>2
<1>11. ASSUME NEW p \in Procs, NEW t \in Teams, BulkRow(p, t) PROVE Discipline'
  BY <1>11 DEF BulkRow, Load
<1>12. ASSUME NEW p \in Procs, BulkCommit(p) \/ BulkAbort(p) PROVE Discipline'
  <2>1. /\ pc' = [pc EXCEPT ![p] = "idle"]
        /\ rows' = [rows EXCEPT ![p] = {}]
        /\ UNCHANGED <<kind, target, item, queue>>
    BY <1>12 DEF BulkCommit, BulkAbort, WriteBack, Forget, EndBulk
  <2> QED
    BY <2>1
<1>13. ASSUME NEW t \in Teams, CooldownEnds(t) PROVE Discipline'
  BY <1>13 DEF CooldownEnds, dbVars, jobVars
<1>14. CASE Crash
  BY <1>14 DEF Crash
<1>15. CASE UNCHANGED vars
  BY <1>15 DEF vars, dbVars, jobVars
<1> QED
  BY <1>2, <1>3, <1>4, <1>5, <1>8, <1>9, <1>10, <1>11, <1>12, <1>13, <1>14, <1>15
     DEF Next, Request, LockedStep, BulkStep

\* The type invariant: every variable keeps its type in every reachable state.
THEOREM TypeCorrect == Spec => []TypeOK
<1>1. Init => TypeOK /\ Discipline
  BY MoneyAssumption DEF Init, TypeOK, Discipline, LockedKinds, BulkKinds, Zero
<1> QED
  BY <1>1, TypeStep, DisciplineStep, PTL DEF Spec

-----------------------------------------------------------------------------
\* Loading rows keeps sessions fresh: a row another session knows is noted as
\* mixed, or both sessions are locked handlers of one team, and there is one.
LEMMA LoadKeepsFresh ==
  ASSUME TypeOK, Discipline, Fresh, NEW p \in Procs, NEW S \in SUBSET Teams,
         (pc[p] = "waiting" /\ S = {target[p]} /\ Holds(p)) \/ kind[p] \in BulkKinds,
         S \cap rows[p] = {}, Load(p, S), UNCHANGED <<cash, posted>>,
         \A t \in S : due'[p][t] = post'[p][t],
         \A q \in Procs, t \in Teams :
            (q # p \/ t \notin S) => due'[q][t] = due[q][t] /\ post'[q][t] = post[q][t]
  PROVE  Fresh'
<1> SUFFICES ASSUME NEW t \in Teams, ~mixed'[t]
             PROVE  /\ cash[t] = posted[t]
                    /\ \A q \in Procs : t \in rows'[q] =>
                         /\ snap'[q][t] = cash[t]
                         /\ due'[q][t] = post'[q][t]
                         /\ \A r \in Procs : t \in rows'[r] => r = q
  BY DEF Fresh, Loaded
<1>1. ~mixed[t] /\ cash[t] = posted[t]
  BY DEF Load, TypeOK, Fresh
<1>2. \A q \in Procs : rows'[q] = IF q = p THEN rows[p] \cup S ELSE rows[q]
  BY DEF Load, TypeOK
<1>3. \A q \in Procs : snap'[q][t] = IF q = p /\ t \in S THEN cash[t] ELSE snap[q][t]
  BY DEF Load, TypeOK
<1>4. CASE t \notin S
  BY <1>1, <1>2, <1>3, <1>4 DEF Fresh, Loaded
<1>5. CASE t \in S
  <2>1. \A q \in Procs \ {p} : t \in rows[q] => {kind[p], kind[q]} \cap BulkKinds = {}
    BY <1>5 DEF Load, TypeOK
  <2>2. \A q \in Procs \ {p} : t \notin rows[q]
    <3> SUFFICES ASSUME NEW q \in Procs \ {p}, t \in rows[q] PROVE FALSE
      OBVIOUS
    <3>1. kind[p] \notin BulkKinds /\ kind[q] \notin BulkKinds
      BY <2>1
    <3>2. t = target[p] /\ Holds(p)
      BY <1>5, <3>1
    <3>3. pc[q] = "ready"
      BY <3>1 DEF Discipline, TypeOK
    <3> QED
      BY <3>2, <3>3 DEF Discipline, Holds
  <2> QED
    BY <1>1, <1>2, <1>3, <1>5, <2>2
<1> QED
  BY <1>4, <1>5

\* Writing a session back keeps the others fresh: a row nobody else knows.
LEMMA WriteBackKeepsFresh ==
  ASSUME TypeOK, Fresh, NEW p \in Procs, WriteBack(p), UNCHANGED mixed
  PROVE  Fresh'
<1> SUFFICES ASSUME NEW t \in Teams, ~mixed[t]
             PROVE  /\ cash'[t] = posted'[t]
                    /\ \A q \in Procs : t \in rows'[q] =>
                         /\ snap'[q][t] = cash'[t]
                         /\ due'[q][t] = post'[q][t]
                         /\ \A r \in Procs : t \in rows'[r] => r = q
  BY DEF Fresh, Loaded
<1>1. \A q \in Procs : rows'[q] = IF q = p THEN {} ELSE rows[q]
  BY DEF WriteBack, Forget, TypeOK
<1>2. \A q \in Procs \ {p} : snap'[q] = snap[q] /\ due'[q] = due[q] /\ post'[q] = post[q]
  BY DEF WriteBack, Forget, TypeOK
<1>3. CASE t \in rows[p]
  <2>1. /\ cash[t] = posted[t] /\ snap[p][t] = cash[t] /\ due[p][t] = post[p][t]
        /\ \A q \in Procs : t \in rows[q] => q = p
    BY <1>3 DEF Fresh, Loaded
  <2>2. cash[t] \in Int /\ due[p][t] \in Int
    BY DEF TypeOK
  <2>3. cash'[t] = cash[t] + due[p][t] /\ posted'[t] = posted[t] + due[p][t]
    BY <1>3, <2>1, <2>2 DEF WriteBack
  <2> QED
    BY <1>1, <2>1, <2>3
<1>4. CASE t \notin rows[p]
  <2>1. cash'[t] = cash[t] /\ posted'[t] = posted[t]
    BY <1>4 DEF WriteBack
  <2> QED
    BY <1>1, <1>2, <2>1 DEF Fresh, Loaded
<1> QED
  BY <1>3, <1>4

\* Closing sessions without writing keeps the others fresh.
LEMMA ClosingKeepsFresh ==
  ASSUME Fresh, UNCHANGED <<cash, posted, mixed>>,
         \A q \in Procs : \/ rows'[q] = {}
                          \/ /\ rows'[q] = rows[q] /\ snap'[q] = snap[q]
                             /\ due'[q] = due[q] /\ post'[q] = post[q]
  PROVE  Fresh'
BY DEF Fresh, Loaded

\* Every step keeps the sessions fresh.
LEMMA FreshStep == TypeOK /\ Discipline /\ Fresh /\ [Next]_vars => Fresh'
<1> SUFFICES ASSUME TypeOK, Discipline, Fresh, [Next]_vars PROVE Fresh'
  OBVIOUS
<1>1. ASSUME UNCHANGED <<cash, posted, mixed, rows, snap, due, post>> PROVE Fresh'
  BY <1>1, ClosingKeepsFresh
<1>2. ASSUME NEW p \in Procs, NEW t \in Teams, RequestTrade(p, t) \/ RequestResearch(p, t)
      PROVE Fresh'
  BY <1>1, <1>2 DEF RequestTrade, RequestResearch, Enqueue, dbVars
<1>3. ASSUME NEW p \in Procs, NEW a \in Adjs, RequestApproval(p, a) PROVE Fresh'
  BY <1>1, <1>3 DEF RequestApproval, Enqueue, dbVars
<1>4. ASSUME NEW p \in Procs, BeginBulk(p) PROVE Fresh'
  BY <1>1, <1>4 DEF BeginBulk, dbVars
<1>5. ASSUME NEW p \in Procs, BeginReset(p) PROVE Fresh'
  <2> SUFFICES ASSUME NEW t \in Teams, ~mixed'[t]
               PROVE  /\ cash'[t] = posted'[t]
                      /\ \A q \in Procs : t \in rows'[q] =>
                           /\ snap'[q][t] = cash'[t]
                           /\ due'[q][t] = post'[q][t]
                           /\ \A r \in Procs : t \in rows'[r] => r = q
    BY DEF Fresh, Loaded
  <2>1. /\ ~mixed[t] /\ cash'[t] = cash[t] /\ posted'[t] = posted[t]
        /\ \A q \in Procs \ {p} : t \notin rows[q]
    BY <1>5 DEF BeginReset, TypeOK, dbVars
  <2>2. \A q \in Procs \ {p} : rows'[q] = rows[q]
    BY <1>5 DEF BeginReset, TypeOK
  <2>3. /\ snap'[p][t] = cash[t]
        /\ due'[p][t] = Opening - cash[t] /\ post'[p][t] = Opening - posted[t]
    BY <1>5 DEF BeginReset, TypeOK
  <2> QED
    BY <2>1, <2>2, <2>3 DEF Fresh
<1>6. ASSUME NEW p \in Procs, NEW d \in Int, Holds(p), Prepare(p, d) PROVE Fresh'
  <2>1. target[p] \in Teams /\ rows[p] = {} /\ pc[p] = "waiting"
    BY <1>6 DEF Holds, Discipline, TypeOK
  <2>2. /\ due'[p][target[p]] = d /\ post'[p][target[p]] = d
        /\ \A q \in Procs, t \in Teams : (q # p \/ t # target[p]) =>
             due'[q][t] = due[q][t] /\ post'[q][t] = post[q][t]
    BY <1>6, <2>1 DEF Prepare, TypeOK
  <2> QED
    BY <1>6, <2>1, <2>2, LoadKeepsFresh DEF Prepare, dbVars
<1>7. ASSUME NEW p \in Procs, Refuse(p) PROVE Fresh'
  BY <1>1, <1>7 DEF Refuse, dbVars
<1>8. ASSUME NEW p \in Procs, ReadForOrder(p) \/ ReadForCover(p)
                              \/ ReadForResearch(p) \/ ReadForAdjustment(p)
      PROVE Fresh'
  BY <1>6, <1>7, <1>8, ReadOutcomes
<1>9. ASSUME NEW p \in Procs, NEW t \in Teams, BulkRow(p, t) PROVE Fresh'
  <2>1. kind[p] \in BulkKinds /\ t \notin rows[p]
    BY <1>9 DEF BulkRow, Discipline
  <2>2. /\ due'[p][t] = post'[p][t]
        /\ \A q \in Procs, u \in Teams : (q # p \/ u # t) =>
             due'[q][u] = due[q][u] /\ post'[q][u] = post[q][u]
    <3>1. PICK d : /\ due' = [due EXCEPT ![p][t] = d]
                   /\ post' = [post EXCEPT ![p][t] = d]
      BY <1>9 DEF BulkRow
    <3> QED
      BY <3>1 DEF TypeOK
  <2> QED
    BY <1>9, <2>1, <2>2, LoadKeepsFresh DEF BulkRow, dbVars
<1>10. ASSUME NEW p \in Procs, Commit(p) \/ BulkCommit(p) PROVE Fresh'
  BY <1>10, WriteBackKeepsFresh DEF Commit, BulkCommit, EndBulk
<1>11. ASSUME NEW p \in Procs, Abort(p) \/ BulkAbort(p) PROVE Fresh'
  <2>1. Forget(p) /\ UNCHANGED <<cash, posted, mixed>>
    BY <1>11 DEF Abort, BulkAbort, EndBulk, dbVars
  <2> QED
    BY <2>1, ClosingKeepsFresh DEF Forget, TypeOK
<1>12. ASSUME NEW t \in Teams, CooldownEnds(t) PROVE Fresh'
  BY <1>1, <1>12 DEF CooldownEnds, dbVars, jobVars
<1>13. CASE Crash
  BY <1>13, ClosingKeepsFresh DEF Crash, dbVars
<1>14. CASE UNCHANGED vars
  BY <1>1, <1>14 DEF vars, dbVars, jobVars
<1> QED
  BY <1>2, <1>3, <1>4, <1>5, <1>8, <1>9, <1>10, <1>11, <1>12, <1>13, <1>14
     DEF Next, Request, LockedStep, BulkStep

\* The cached balance drifts from the ledger only where an unlocked handler
\* overlapped another: no interleaving of the locked handlers loses money.
THEOREM CashTracksLedger == Spec => []DriftNeedsBulkOverlap
<1>1. Init => TypeOK /\ Discipline /\ Fresh
  BY MoneyAssumption DEF Init, TypeOK, Discipline, Fresh, Loaded, LockedKinds, BulkKinds, Zero
<1>2. Fresh => DriftNeedsBulkOverlap
  BY DEF Fresh, DriftNeedsBulkOverlap
<1> QED
  BY <1>1, <1>2, TypeStep, DisciplineStep, FreshStep, PTL DEF Spec

-----------------------------------------------------------------------------
\* A handler past its funds check still affords what it checked.
LEMMA AffordedStep == TypeOK /\ Discipline /\ Afforded /\ [Next]_vars => Afforded'
<1> SUFFICES ASSUME TypeOK, Discipline, Afforded, [Next]_vars PROVE Afforded'
  OBVIOUS
<1>1. ASSUME NEW p \in Procs, pc'[p] # "ready",
             \A q \in Procs \ {p} : /\ pc'[q] = pc[q] /\ kind'[q] = kind[q]
                                    /\ target'[q] = target[q]
                                    /\ snap'[q] = snap[q] /\ due'[q] = due[q]
      PROVE Afforded'
  BY <1>1 DEF Afforded
<1>2. ASSUME UNCHANGED <<pc, kind, target, snap, due>> PROVE Afforded'
  BY <1>2 DEF Afforded
<1>3. ASSUME NEW p \in Procs, NEW t \in Teams, RequestTrade(p, t) \/ RequestResearch(p, t)
      PROVE Afforded'
  BY <1>1, <1>3 DEF RequestTrade, RequestResearch, Start, Enqueue, TypeOK
<1>4. ASSUME NEW p \in Procs, NEW a \in Adjs, RequestApproval(p, a) PROVE Afforded'
  BY <1>1, <1>4 DEF RequestApproval, Start, Enqueue, TypeOK
<1>5. ASSUME NEW p \in Procs, BeginBulk(p) \/ BeginReset(p) PROVE Afforded'
  BY <1>1, <1>5 DEF BeginBulk, BeginReset, Start, TypeOK
<1>6. ASSUME NEW p \in Procs, NEW d \in Int, Holds(p), Prepare(p, d),
             kind[p] \in {"order", "research"} => cash[target[p]] + d >= 0
      PROVE Afforded'
  <2>1. /\ snap'[p][target[p]] = cash[target[p]] /\ due'[p][target[p]] = d
        /\ \A q \in Procs \ {p} : snap'[q] = snap[q] /\ due'[q] = due[q] /\ pc'[q] = pc[q]
        /\ UNCHANGED <<kind, target>>
    BY <1>6 DEF Prepare, Load, TypeOK
  <2> QED
    BY <1>6, <2>1 DEF Afforded
<1>7. ASSUME NEW p \in Procs, Refuse(p) PROVE Afforded'
  BY <1>1, <1>7 DEF Refuse, Release, TypeOK
<1>8. ASSUME NEW p \in Procs, ReadForOrder(p) \/ ReadForCover(p)
                              \/ ReadForResearch(p) \/ ReadForAdjustment(p)
      PROVE Afforded'
  BY <1>6, <1>7, <1>8, ReadOutcomes
<1>9. ASSUME NEW p \in Procs, Commit(p) \/ Abort(p) \/ BulkCommit(p) \/ BulkAbort(p)
      PROVE Afforded'
  BY <1>1, <1>9 DEF Commit, Abort, BulkCommit, BulkAbort, WriteBack, Forget, Release, EndBulk, TypeOK
<1>10. ASSUME NEW p \in Procs, NEW t \in Teams, BulkRow(p, t) PROVE Afforded'
  <2>1. pc'[p] # "ready" /\ UNCHANGED <<pc, kind, target>>
    BY <1>10 DEF BulkRow
  <2>2. \A q \in Procs \ {p} : snap'[q] = snap[q]
    BY <1>10 DEF BulkRow, Load, TypeOK
  <2>3. \A q \in Procs \ {p} : due'[q] = due[q]
    <3>1. PICK d : due' = [due EXCEPT ![p][t] = d]
      BY <1>10 DEF BulkRow
    <3> QED
      BY <3>1 DEF TypeOK
  <2> QED
    BY <1>1, <2>1, <2>2, <2>3
<1>11. ASSUME NEW t \in Teams, CooldownEnds(t) PROVE Afforded'
  BY <1>2, <1>11 DEF CooldownEnds, jobVars
<1>12. CASE Crash
  BY <1>12 DEF Crash, Afforded
<1>13. CASE UNCHANGED vars
  BY <1>2, <1>13 DEF vars, jobVars
<1> QED
  BY <1>3, <1>4, <1>5, <1>8, <1>9, <1>10, <1>11, <1>12, <1>13
     DEF Next, Request, LockedStep, BulkStep

\* The four facts hold together in every reachable state.
IInv == TypeOK /\ Discipline /\ Fresh /\ Afforded

LEMMA Invariance == Spec => []IInv
<1>1. Init => IInv
  BY MoneyAssumption
     DEF Init, IInv, TypeOK, Discipline, Fresh, Afforded, Loaded, LockedKinds, BulkKinds, Zero
<1>2. IInv /\ [Next]_vars => IInv'
  BY TypeStep, DisciplineStep, FreshStep, AffordedStep DEF IInv
<1> QED
  BY <1>1, <1>2, PTL DEF Spec

\* A fill or a report is paid from money the ledger has when it commits.
THEOREM ChecksHoldAtCommit == Spec => CheckedDebitIsCovered
<1>1. IInv /\ [Next]_vars =>
        [\A p \in Procs :
           (/\ Commit(p) /\ kind[p] \in {"order", "research"}
            /\ ~mixed[target[p]] /\ due[p][target[p]] < 0)
             => posted'[target[p]] >= 0]_vars
  <2> SUFFICES ASSUME IInv, NEW p \in Procs, Commit(p), kind[p] \in {"order", "research"},
                      ~mixed[target[p]], due[p][target[p]] < 0
               PROVE  posted'[target[p]] >= 0
    OBVIOUS
  <2> DEFINE t == target[p]
  <2>1. t \in Teams /\ t \in rows[p] /\ snap[p][t] + due[p][t] >= 0
    BY DEF IInv, TypeOK, Discipline, Afforded, Commit
  <2>2. posted[t] = snap[p][t] /\ post[p][t] = due[p][t]
    BY <2>1 DEF IInv, Fresh, Loaded
  <2>3. posted'[t] = posted[t] + post[p][t]
    BY <2>1 DEF Commit, WriteBack
  <2> QED
    BY <2>1, <2>2, <2>3
<1> QED
  BY <1>1, Invariance, PTL DEF Spec, CheckedDebitIsCovered

-----------------------------------------------------------------------------
\* Without the unlocked handlers no row is ever mixed, and no session of
\* theirs is open.
OnlyLocked ==
  /\ \A p \in Procs : kind[p] \notin BulkKinds /\ pc[p] # "bulk"
  /\ \A t \in Teams : ~mixed[t]

LEMMA OnlyLockedStep ==
  ASSUME Kinds \cap BulkKinds = {}, TypeOK, Discipline, OnlyLocked, [Next]_vars
  PROVE  OnlyLocked'
<1> USE DEF OnlyLocked, TypeOK
<1>1. ASSUME NEW p \in Procs, NEW t \in Teams, RequestTrade(p, t) \/ RequestResearch(p, t)
      PROVE OnlyLocked'
  <2>1. PICK k \in {"order", "cover", "research"} : kind' = [kind EXCEPT ![p] = k]
    BY <1>1 DEF RequestTrade, RequestResearch, Start
  <2>2. pc' = [pc EXCEPT ![p] = "waiting"] /\ UNCHANGED mixed
    BY <1>1 DEF RequestTrade, RequestResearch, Enqueue
  <2> QED
    BY <2>1, <2>2 DEF BulkKinds
<1>2. ASSUME NEW p \in Procs, NEW a \in Adjs, RequestApproval(p, a) PROVE OnlyLocked'
  BY <1>2 DEF RequestApproval, Start, Enqueue, BulkKinds
<1>3. ASSUME NEW p \in Procs, BeginBulk(p) \/ BeginReset(p) PROVE OnlyLocked'
  BY <1>3 DEF BeginBulk, BeginReset, Start, BulkKinds
<1>4. ASSUME NEW p \in Procs, NEW d \in Int, Prepare(p, d) PROVE OnlyLocked'
  <2>1. \A q \in Procs : kind[q] \notin BulkKinds
    BY DEF OnlyLocked
  <2>2. ASSUME NEW q \in Procs PROVE {kind[p], kind[q]} \cap BulkKinds = {}
    <3>1. kind[p] \notin BulkKinds /\ kind[q] \notin BulkKinds
      BY <2>1
    <3> HIDE DEF OnlyLocked, TypeOK
    <3> QED
      BY ONLY <3>1
  <2>3. \A t \in Teams : ~mixed'[t]
    BY <1>4, <2>2 DEF Prepare, Load
  <2> QED
    BY <1>4, <2>3 DEF Prepare
<1>5. ASSUME NEW p \in Procs, Refuse(p) PROVE OnlyLocked'
  BY <1>5 DEF Refuse, Release
<1>6. ASSUME NEW p \in Procs, ReadForOrder(p) \/ ReadForCover(p)
                              \/ ReadForResearch(p) \/ ReadForAdjustment(p)
      PROVE OnlyLocked'
  BY <1>4, <1>5, <1>6, ReadOutcomes
<1>7. ASSUME NEW p \in Procs, Commit(p) \/ Abort(p) PROVE OnlyLocked'
  <2>1. pc' = [pc EXCEPT ![p] = "idle"] /\ UNCHANGED <<kind, mixed>>
    BY <1>7 DEF Commit, Abort, Release
  <2> QED
    BY <2>1
<1>8. ASSUME NEW p \in Procs, BulkStep(p) PROVE OnlyLocked'
  BY <1>8 DEF BulkStep, BulkRow, BulkCommit, BulkAbort
<1>9. ASSUME NEW t \in Teams, CooldownEnds(t) PROVE OnlyLocked'
  BY <1>9 DEF CooldownEnds, jobVars
<1>10. CASE Crash
  BY <1>10 DEF Crash
<1>11. CASE UNCHANGED vars
  BY <1>11 DEF vars, jobVars
<1> QED
  BY <1>1, <1>2, <1>3, <1>6, <1>7, <1>8, <1>9, <1>10, <1>11 DEF Next, Request, LockedStep

\* What a locked handler is about to post is an amount of its kind.
Amounts ==
  \A p \in Procs : pc[p] = "ready" =>
    IF kind[p] \in {"order", "research"}
    THEN due[p][target[p]] \in FillDeltas \cup {-Cost}
    ELSE due[p][target[p]] \in CoverDeltas \cup {AdjAmount[a] : a \in Adjs}

LEMMA AmountsStep ==
  ASSUME TypeOK, Discipline, OnlyLocked, Amounts, [Next]_vars
  PROVE  Amounts'
<1> USE MoneyAssumption DEF TypeOK
<1>1. ASSUME NEW p \in Procs, pc'[p] # "ready",
             \A q \in Procs \ {p} : /\ pc'[q] = pc[q] /\ kind'[q] = kind[q]
                                    /\ target'[q] = target[q] /\ due'[q] = due[q]
      PROVE Amounts'
  BY <1>1 DEF Amounts
<1>2. ASSUME UNCHANGED <<pc, kind, target, due>> PROVE Amounts'
  BY <1>2 DEF Amounts
<1>3. ASSUME NEW p \in Procs, NEW t \in Teams, RequestTrade(p, t) \/ RequestResearch(p, t)
      PROVE Amounts'
  BY <1>1, <1>3 DEF RequestTrade, RequestResearch, Start, Enqueue
<1>4. ASSUME NEW p \in Procs, NEW a \in Adjs, RequestApproval(p, a) PROVE Amounts'
  BY <1>1, <1>4 DEF RequestApproval, Start, Enqueue
<1>5. ASSUME NEW p \in Procs, BeginBulk(p) \/ BeginReset(p) PROVE Amounts'
  BY <1>1, <1>5 DEF BeginBulk, BeginReset, Start
<1>6. ASSUME NEW p \in Procs, NEW d \in Int, Prepare(p, d),
             IF kind[p] \in {"order", "research"} THEN d \in FillDeltas \cup {-Cost}
             ELSE d \in CoverDeltas \cup {AdjAmount[a] : a \in Adjs}
      PROVE Amounts'
  <2>1. /\ due'[p][target[p]] = d
        /\ \A q \in Procs \ {p} : due'[q] = due[q] /\ pc'[q] = pc[q]
        /\ UNCHANGED <<kind, target>>
    BY <1>6 DEF Prepare
  <2> QED
    BY <1>6, <2>1 DEF Amounts
<1>7. ASSUME NEW p \in Procs, Refuse(p) PROVE Amounts'
  BY <1>1, <1>7 DEF Refuse, Release
<1>8. ASSUME NEW p \in Procs, ReadForOrder(p) PROVE Amounts'
  BY <1>6, <1>7, <1>8 DEF ReadForOrder
<1>9. ASSUME NEW p \in Procs, ReadForCover(p) PROVE Amounts'
  BY <1>6, <1>9 DEF ReadForCover
<1>10. ASSUME NEW p \in Procs, ReadForResearch(p) PROVE Amounts'
  BY <1>6, <1>7, <1>10 DEF ReadForResearch
<1>11. ASSUME NEW p \in Procs, ReadForAdjustment(p) PROVE Amounts'
  BY <1>6, <1>7, <1>11 DEF ReadForAdjustment, Holds, Discipline
<1>12. ASSUME NEW p \in Procs, Commit(p) \/ Abort(p) PROVE Amounts'
  BY <1>1, <1>12 DEF Commit, Abort, WriteBack, Forget, Release
<1>13. ASSUME NEW p \in Procs, BulkStep(p) PROVE Amounts'
  BY <1>13 DEF BulkStep, BulkRow, BulkCommit, BulkAbort, OnlyLocked
<1>14. ASSUME NEW t \in Teams, CooldownEnds(t) PROVE Amounts'
  BY <1>2, <1>14 DEF CooldownEnds, jobVars
<1>15. CASE Crash
  BY <1>15 DEF Crash, Amounts
<1>16. CASE UNCHANGED vars
  BY <1>2, <1>16 DEF vars, jobVars
<1> QED
  BY <1>3, <1>4, <1>5, <1>8, <1>9, <1>10, <1>11, <1>12, <1>13, <1>14, <1>15, <1>16
     DEF Next, Request, LockedStep

\* With locked handlers only, a step leaves the balances alone or is one
\* whole posting of the abstract ledger.
LEMMA StepRefines ==
  ASSUME IInv, OnlyLocked, Amounts, [Next]_vars
  PROVE  [Ledger!Next]_cash
<1> USE MoneyAssumption DEF IInv, TypeOK
<1>1. ASSUME NEW p \in Procs, Commit(p) PROVE [Ledger!Next]_cash
  <2> DEFINE t == target[p]
             d == due[p][t]
  <2>1. t \in Teams /\ pc[p] = "ready" /\ rows[p] = {t} /\ d \in Int
    BY <1>1 DEF Commit, Discipline
  <2>2. snap[p][t] = cash[t]
    BY <2>1 DEF Fresh, Loaded, OnlyLocked
  <2>3. cash' = [cash EXCEPT ![t] = @ + d]
    <3>1. cash' = [u \in Teams |-> IF u = t /\ d # 0 THEN cash[t] + d ELSE cash[u]]
      BY <1>1, <2>1, <2>2 DEF Commit, WriteBack
    <3>2. cash[t] \in Int
      BY <2>1
    <3>3. d \in Int /\ t \in Teams /\ cash \in [Teams -> Int]
      BY <2>1
    <3> HIDE DEF d, t
    <3>4. ASSUME NEW u \in Teams
          PROVE  (IF u = t /\ d # 0 THEN cash[t] + d ELSE cash[u])
                   = (IF u = t THEN cash[t] + d ELSE cash[u])
      <4>1. CASE u = t /\ d = 0
        <5>1. cash[t] + 0 = cash[t]
          BY <3>2
        <5> QED
          BY <4>1, <5>1
      <4>2. CASE ~(u = t /\ d = 0)
        BY <4>2
      <4> QED
        BY <4>1, <4>2
    <3> QED
      BY <3>1, <3>3, <3>4
  <2>4. CASE kind[p] \in {"order", "research"}
    <3>1. cash[t] + d >= 0 /\ d \in FillDeltas \cup {-Cost}
      BY <2>1, <2>2, <2>4 DEF Afforded, Amounts
    <3> QED
      BY <2>1, <2>3, <3>1 DEF Ledger!Next, Ledger!Checked, Ledger!Post
  <2>5. CASE kind[p] \notin {"order", "research"}
    <3>1. d \in CoverDeltas \cup {AdjAmount[a] : a \in Adjs}
      BY <2>1, <2>5 DEF Amounts
    <3> QED
      BY <2>1, <2>3, <3>1 DEF Ledger!Next, Ledger!Unchecked, Ledger!Post
  <2> QED
    BY <2>4, <2>5
<1>2. ASSUME NEW p \in Procs, ReadForOrder(p) \/ ReadForCover(p)
                              \/ ReadForResearch(p) \/ ReadForAdjustment(p)
      PROVE UNCHANGED cash
  BY <1>2, ReadOutcomes DEF Prepare, Refuse, dbVars
<1>3. ASSUME NEW p \in Procs, BulkStep(p) PROVE UNCHANGED cash
  BY <1>3 DEF BulkStep, BulkRow, BulkCommit, BulkAbort, OnlyLocked
<1>4. ASSUME NEW p \in Procs, Request(p) \/ Abort(p) PROVE UNCHANGED cash
  BY <1>4 DEF Request, RequestTrade, RequestResearch, RequestApproval, Enqueue, BeginBulk,
              BeginReset, Abort, dbVars
<1>5. ASSUME (\E t \in Teams : CooldownEnds(t)) \/ Crash \/ UNCHANGED vars PROVE UNCHANGED cash
  BY <1>5 DEF CooldownEnds, Crash, vars, dbVars
<1> QED
  BY <1>1, <1>2, <1>3, <1>4, <1>5 DEF Next, LockedStep

\* If no unlocked handler runs, the cash column implements the abstract
\* balance: every behaviour is one of whole, checked or forced, postings.
THEOREM LockedBookRefines ==
  ASSUME Kinds \cap BulkKinds = {}
  PROVE  Spec => RefinesLedger
<1>1. Init => OnlyLocked /\ Amounts /\ Ledger!Init
  BY DEF Init, OnlyLocked, Amounts, BulkKinds, Ledger!Init
<1>2. IInv /\ OnlyLocked /\ Amounts /\ [Next]_vars => OnlyLocked' /\ Amounts'
  BY OnlyLockedStep, AmountsStep DEF IInv
<1>3. IInv /\ OnlyLocked /\ Amounts /\ [Next]_vars => [Ledger!Next]_cash
  BY StepRefines
<1> QED
  BY <1>1, <1>2, <1>3, Invariance, PTL DEF Spec, RefinesLedger, Ledger!Spec
=============================================================================
