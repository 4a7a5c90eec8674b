-------------------------- MODULE StandingsProofs --------------------------
(***************************************************************************)
(* What a finished competition's table promises, for any number of teams,  *)
(* books, fills, snapshots and orders under way.  That it agrees with the  *)
(* board and that it is locked come from one invariant: the last snapshot, *)
(* and every one that has been read and not yet written, shows what the    *)
(* teams are worth that nothing has touched since it was read.  That it    *)
(* ranks as the rulebook says needs the history of the desk's busts, and   *)
(* that the recursive scan of a curve finds its largest fall.              *)
(***************************************************************************)
EXTENDS Standings, Induction, SequenceTheorems

Books == [Teams -> Int]

Shape ==
  /\ state \in {"OPEN", "CLOSED", "FINAL"}
  /\ worth \in Books /\ status \in [Teams -> Statuses]
  /\ snapshots \in Seq(Books) /\ touched \subseteq Teams
  /\ writing \in [Procs -> [to : {"none", "as it is", "CLOSED", "FINAL"}, book : Books, since : SUBSET Teams]]
  /\ older \in [Procs -> Nat] /\ \A p \in Procs : older[p] <= Len(snapshots)

\* Finalising wrote a snapshot.
Concluded == state = "FINAL" => snapshots # <<>>

\* A book shows what the board shows of the teams nothing has touched.
Shows(book, ts) == \A t \in Teams \ ts : book[t] = RankableEquity(t)

Current ==
  /\ snapshots # <<>> => Shows(Last(snapshots), touched)
  /\ \A p \in Procs : Writing(p) => Shows(writing[p].book, writing[p].since)

IInv == Shape /\ Concluded /\ Current

-----------------------------------------------------------------------------
\* Inserting keeps the last element, unless it is the new one.
LEMMA Insertion ==
  ASSUME NEW S, NEW s \in Seq(S), NEW e \in S, NEW i \in 1 .. Len(s) + 1
  PROVE  /\ InsertAt(s, i, e) \in Seq(S)
         /\ Len(InsertAt(s, i, e)) = Len(s) + 1
         /\ i <= Len(s) => Last(InsertAt(s, i, e)) = Last(s)
         /\ i = Len(s) + 1 => Last(InsertAt(s, i, e)) = e
<1> DEFINE before == SubSeq(s, 1, i - 1)
           after  == SubSeq(s, i, Len(s))
<1>1. before \in Seq(S) /\ Len(before) = i - 1
  OBVIOUS
<1>2. after \in Seq(S) /\ Len(after) = Len(s) - i + 1
  OBVIOUS
<1>3. i <= Len(s) => after[Len(after)] = s[Len(s)]
  BY <1>2
<1> HIDE DEF before, after
<1>4. /\ before \o <<e>> \in Seq(S) /\ Len(before \o <<e>>) = i
      /\ (before \o <<e>>)[i] = e
  <2>1. <<e>> \in Seq(S) /\ Len(<<e>>) = 1 /\ <<e>>[1] = e
    OBVIOUS
  <2> QED
    BY <1>1, <2>1, ConcatProperties
<1>5. PICK head \in Seq(S) : head = before \o <<e>> /\ Len(head) = i /\ head[i] = e
  BY <1>4
<1>6. /\ head \o after \in Seq(S) /\ Len(head \o after) = Len(s) + 1
      /\ \A n \in 1 .. Len(s) + 1 :
           (head \o after)[n] = IF n <= i THEN head[n] ELSE after[n - i]
  <2>1. PICK tail \in Seq(S) : tail = after
    BY <1>2
  <2>2. Len(s) \in Nat /\ Len(tail) = Len(s) - i + 1
    BY <1>2, <2>1
  <2>3. /\ head \o tail \in Seq(S) /\ Len(head \o tail) = Len(head) + Len(tail)
        /\ \A n \in 1 .. Len(head) + Len(tail) :
             (head \o tail)[n] = IF n <= Len(head) THEN head[n] ELSE tail[n - Len(head)]
    BY ConcatProperties
  <2>4. Len(head) = i
    BY <1>5
  <2>5. Len(head) + Len(tail) = Len(s) + 1
    BY <2>2, <2>4
  <2> QED
    BY <2>1, <2>3, <2>4, <2>5
<1>7. PICK whole \in Seq(S) :
        /\ whole = head \o after /\ Len(whole) = Len(s) + 1
        /\ \A n \in 1 .. Len(s) + 1 : whole[n] = IF n <= i THEN head[n] ELSE after[n - i]
  BY <1>6
<1>8. InsertAt(s, i, e) = whole
  BY <1>5, <1>7 DEF InsertAt, before, after
<1>9. Len(s) \in Nat /\ Len(s) + 1 \in 1 .. Len(s) + 1
  OBVIOUS
<1>10. i <= Len(s) => whole[Len(s) + 1] = s[Len(s)]
  BY <1>2, <1>3, <1>7, <1>9
<1>11. i = Len(s) + 1 => whole[Len(s) + 1] = e
  BY <1>5, <1>7, <1>9
<1> QED
  BY <1>7, <1>8, <1>10, <1>11 DEF Last

LEMMA Counting ==
  ASSUME Shape
  PROVE  /\ Len(snapshots) \in Nat /\ (snapshots = <<>> => Len(snapshots) = 0)
         /\ \A p \in Procs : older[p] \in Nat /\ older[p] <= Len(snapshots)
         /\ \A t \in Teams : worth[t] \in Int /\ RankableEquity(t) \in Int
<1>1. snapshots \in Seq(Books) /\ older \in [Procs -> Nat] /\ \A p \in Procs : older[p] <= Len(snapshots)
  BY DEF Shape
<1>2. worth \in Books
  BY DEF Shape
<1>3. Len(snapshots) \in Nat /\ (snapshots = <<>> => Len(snapshots) = 0)
  BY <1>1, EmptySeq
<1>4. \A t \in Teams : worth[t] \in Int /\ RankableEquity(t) \in Int
  BY <1>2 DEF Books, RankableEquity
<1> QED
  BY <1>1, <1>3, <1>4

\* A snapshot is written at its place, and is the last one if every other one
\* is older than its process.
LEMMA Written ==
  ASSUME Shape, NEW p \in Procs, Write(p)
  PROVE  /\ snapshots' \in Seq(Books) /\ Len(snapshots') = Len(snapshots) + 1 /\ snapshots' # <<>>
         /\ older[p] < Len(snapshots) => Last(snapshots') = Last(snapshots) /\ snapshots # <<>>
         /\ older[p] = Len(snapshots) => Last(snapshots') = writing[p].book
<1>1. PICK book \in Books : book = writing[p].book
  BY DEF Shape
<1>2. PICK i \in 1 .. Len(snapshots) + 1 : i = older[p] + 1
  BY Counting
<1>3. snapshots' = InsertAt(snapshots, i, book)
  BY <1>1, <1>2 DEF Write
<1>4. /\ snapshots' \in Seq(Books) /\ Len(snapshots') = Len(snapshots) + 1
      /\ i <= Len(snapshots) => Last(snapshots') = Last(snapshots)
      /\ i = Len(snapshots) + 1 => Last(snapshots') = book
  <2>1. ASSUME NEW S, snapshots \in Seq(S), book \in S
        PROVE  /\ snapshots' \in Seq(S) /\ Len(snapshots') = Len(snapshots) + 1
               /\ i <= Len(snapshots) => Last(snapshots') = Last(snapshots)
               /\ i = Len(snapshots) + 1 => Last(snapshots') = book
    BY <1>3, <2>1, Insertion
  <2> QED
    BY <1>1, <2>1 DEF Shape
<1>5. Len(snapshots) \in Nat /\ older[p] \in Nat /\ (snapshots = <<>> => Len(snapshots) = 0)
  BY Counting
<1>6. snapshots' # <<>>
  BY <1>4, <1>5, EmptySeq
<1> QED
  BY <1>1, <1>2, <1>4, <1>5, <1>6

\* A step that leaves books, snapshots and those who take them alone keeps
\* everything the invariant says of them.
LEMMA Kept ==
  ASSUME IInv, UNCHANGED <<worth, status, snapshots, writing, older, touched>>,
         state' \in {state, "OPEN", "CLOSED"}
  PROVE  IInv'
BY DEF IInv, Shape, Concluded, Current, Shows, RankableEquity, Writing

\* So does a step that changes the books of teams and says which.
LEMMA KeptTouching ==
  ASSUME IInv, NEW ts \in SUBSET Teams, Touch(ts), worth' \in Books, status' \in [Teams -> Statuses],
         \A t \in Teams \ ts : worth'[t] = worth[t] /\ status'[t] = status[t],
         UNCHANGED <<snapshots, older>>, state' \in {state, "CLOSED"}
  PROVE  IInv'
<1> USE DEF IInv
<1>1. \A p \in Procs :
        /\ writing'[p].to = writing[p].to /\ writing'[p].book = writing[p].book
        /\ writing'[p] \in [to : {"none", "as it is", "CLOSED", "FINAL"}, book : Books, since : SUBSET Teams]
        /\ Writing(p) => writing'[p].since = writing[p].since \cup ts
  BY DEF Touch, Shape
<1>2. \A t \in Teams \ ts : RankableEquity(t)' = RankableEquity(t)
  BY DEF RankableEquity
<1>3. Shape'
  <2>1. writing' = [p \in Procs |-> writing'[p]]
    BY DEF Touch
  <2>2. touched' \subseteq Teams
    BY DEF Touch, Shape
  <2> QED
    BY <1>1, <2>1, <2>2 DEF Shape
<1>4. Concluded'
  BY DEF Concluded
<1>5. snapshots # <<>> => Shows(Last(snapshots), touched)'
  <2>1. snapshots # <<>> => touched' = touched \cup ts
    BY DEF Touch
  <2> QED
    BY <1>2, <2>1 DEF Current, Shows
<1>6. ASSUME NEW p \in Procs, Writing(p)' PROVE Shows(writing[p].book, writing[p].since)'
  <2>1. Writing(p) /\ writing'[p].since = writing[p].since \cup ts /\ writing'[p].book = writing[p].book
    BY <1>1, <1>6 DEF Writing
  <2> QED
    BY <1>2, <2>1 DEF Current, Shows
<1> QED
  BY <1>3, <1>4, <1>5, <1>6 DEF Current

\* A process begins or ends.
LEMMA KeptTimes ==
  ASSUME Shape, NEW p \in Procs, Begins(p) \/ Ends(p), UNCHANGED snapshots
  PROVE  older' \in [Procs -> Nat] /\ \A q \in Procs : older'[q] <= Len(snapshots')
<1>1. Len(snapshots) \in Nat
  BY Counting
<1>2. PICK n \in Nat : n <= Len(snapshots) /\ older' = [older EXCEPT ![p] = n]
  BY <1>1 DEF Begins, Ends
<1> QED
  BY <1>1, <1>2 DEF Shape

LEMMA KeptReading ==
  ASSUME IInv, NEW p \in Procs, NEW to \in {"as it is", "CLOSED", "FINAL"}, Read(p, to),
         older' \in [Procs -> Nat], \A q \in Procs : older'[q] <= Len(snapshots')
  PROVE  IInv'
<1> USE DEF IInv
<1>1. Board \in Books
  BY Counting DEF Board, Books
<1>2. /\ writing' = [writing EXCEPT ![p] = [to |-> to, book |-> Board, since |-> {}]]
      /\ UNCHANGED <<state, worth, status, snapshots, touched>>
  BY DEF Read, books
<1>3. Shape'
  BY <1>1, <1>2 DEF Shape
<1>4. Shows(Board, {})'
  BY <1>2 DEF Shows, Board, RankableEquity
<1>5. ASSUME NEW q \in Procs, Writing(q)' PROVE Shows(writing[q].book, writing[q].since)'
  <2>1. CASE q = p
    BY <1>2, <1>4, <2>1 DEF Shape, Shows, Board, RankableEquity
  <2>2. CASE q # p
    BY <1>2, <1>5, <2>2 DEF Shape, Current, Shows, RankableEquity, Writing
  <2> QED
    BY <2>1, <2>2
<1>6. snapshots' # <<>> => Shows(Last(snapshots), touched)'
  BY <1>2 DEF Current, Shows, RankableEquity
<1> QED
  BY <1>2, <1>3, <1>5, <1>6 DEF Current, Concluded

LEMMA KeptWriting ==
  ASSUME IInv, NEW p \in Procs, Write(p)
  PROVE  IInv'
<1> USE DEF IInv
<1>1. /\ snapshots' \in Seq(Books) /\ Len(snapshots') = Len(snapshots) + 1 /\ snapshots' # <<>>
      /\ older[p] < Len(snapshots) => Last(snapshots') = Last(snapshots) /\ snapshots # <<>>
      /\ older[p] = Len(snapshots) => Last(snapshots') = writing[p].book
  BY Written
<1>2. /\ writing' = [writing EXCEPT ![p] = Nothing] /\ Writing(p) /\ UNCHANGED <<worth, status>>
      /\ state' \in {"OPEN", "CLOSED", "FINAL"}
      /\ touched' = IF older[p] = Len(snapshots) THEN writing[p].since ELSE touched
  BY DEF Write, books, Shape, Writing
<1>3. older' \in [Procs -> Nat] /\ \A q \in Procs : older'[q] <= Len(snapshots')
  <2>1. Len(snapshots) \in Nat /\ \A q \in Procs : older[q] \in Nat /\ older[q] <= Len(snapshots)
    BY Counting
  <2>2. \A q \in Procs : older'[q] \in {0, older[q], older[q] + 1}
    BY DEF Write
  <2>3. older' = [q \in Procs |-> older'[q]]
    BY DEF Write
  <2> QED
    BY <1>1, <2>1, <2>2, <2>3
<1>4. Nothing \in [to : {"none", "as it is", "CLOSED", "FINAL"}, book : Books, since : SUBSET Teams]
  BY DEF Nothing, Books
<1>5. Shape'
  BY <1>1, <1>2, <1>3, <1>4 DEF Shape
<1>6. Shows(Last(snapshots), touched)'
  <2>1. CASE older[p] = Len(snapshots)
    BY <1>1, <1>2, <2>1 DEF Current, Shows, RankableEquity
  <2>2. CASE older[p] # Len(snapshots)
    <3>1. older[p] < Len(snapshots)
      BY <2>2, Counting
    <3> QED
      BY <1>1, <1>2, <2>2, <3>1 DEF Current, Shows, RankableEquity
  <2> QED
    BY <2>1, <2>2
<1>7. ASSUME NEW q \in Procs, Writing(q)' PROVE Shows(writing[q].book, writing[q].since)'
  <2>1. q # p /\ writing'[q] = writing[q]
    BY <1>2, <1>7 DEF Shape, Writing, Nothing
  <2> QED
    BY <1>2, <1>7, <2>1 DEF Current, Shows, RankableEquity, Writing
<1> QED
  BY <1>1, <1>5, <1>6, <1>7 DEF Current, Concluded

\* The table depends on no book once there is a snapshot.
LEMMA SameResults ==
  ASSUME snapshots # <<>>, UNCHANGED <<snapshots, status, busted_at, trades>>
  PROVE  /\ Results' = Results
         /\ \A t \in Teams : FinalEquity(t)' = FinalEquity(t)
<1>1. \A t \in Teams : FinalEquity(t)' = FinalEquity(t)
  BY DEF FinalEquity
<1>2. \A t \in Teams : Drawdown(t)' = Drawdown(t)
  BY DEF Drawdown, Curve
<1>3. \A t \in Teams : Key(t)' = Key(t)
  BY <1>1, <1>2 DEF Key
<1>4. \A t, u \in Teams : Above(t, u)' = Above(t, u)
  BY <1>3 DEF Above
<1>5. \A t \in Teams : Rank(t)' = Rank(t)
  BY <1>4 DEF Rank
<1> QED
  BY <1>1, <1>2, <1>5 DEF Results

-----------------------------------------------------------------------------
LEMMA Initially == Init => IInv
<1> SUFFICES ASSUME Init PROVE IInv
  OBVIOUS
<1>1. [t \in Teams |-> Opening] \in Books /\ <<>> \in Seq(Books) /\ Len(<<>>) = 0
  BY StandingsAssumption, EmptySeq DEF Books
<1>2. Nothing \in [to : {"none", "as it is", "CLOSED", "FINAL"}, book : Books, since : SUBSET Teams]
  BY DEF Nothing, Books
<1>3. Shape
  <2>1. /\ snapshots \in Seq(Books) /\ Len(snapshots) = 0 /\ worth \in Books
        /\ status \in [Teams -> Statuses] /\ older = [p \in Procs |-> 0]
    BY <1>1 DEF Init, Statuses
  <2>2. writing \in [Procs -> [to : {"none", "as it is", "CLOSED", "FINAL"}, book : Books, since : SUBSET Teams]]
    BY <1>2 DEF Init
  <2>3. older \in [Procs -> Nat] /\ \A p \in Procs : older[p] <= Len(snapshots)
    BY <2>1
  <2>4. state \in {"OPEN", "CLOSED", "FINAL"} /\ touched \subseteq Teams
    BY DEF Init
  <2> QED
    BY <2>1, <2>2, <2>3, <2>4 DEF Shape
<1> QED
  BY <1>1, <1>3 DEF Init, IInv, Concluded, Current, Writing, Nothing

LEMMA Preserved == IInv /\ [Next]_vars => IInv'
<1> SUFFICES ASSUME IInv, [Next]_vars PROVE IInv'
  OBVIOUS
<1>1. Shape
  BY DEF IInv
<1> {"tick", "operator"} = Procs
  BY DEF Procs
<1>2. CASE TickBegin
  <2>1. CASE /\ Begins("tick") /\ UNCHANGED <<state, orders, writing, books, snapshots, touched>>
    <3>1. older' \in [Procs -> Nat] /\ \A q \in Procs : older'[q] <= Len(snapshots')
      BY <1>1, <2>1, KeptTimes
    <3> QED
      BY <2>1, <3>1 DEF IInv, Shape, Concluded, Current, Shows, RankableEquity, Writing, books
  <2>2. CASE Begins("tick") /\ Read("tick", "FINAL")
    <3>1. older' \in [Procs -> Nat] /\ \A q \in Procs : older'[q] <= Len(snapshots')
      BY <1>1, <2>2, KeptTimes DEF Read
    <3> QED
      BY <2>2, <3>1, KeptReading
  <2> QED
    BY <1>2, <2>1, <2>2 DEF TickBegin
<1>3. CASE TickPrices
  <2> DEFINE ts == {t \in Teams : worth'[t] # worth[t]}
  <2>1. /\ Touch(ts) /\ worth' \in Books /\ UNCHANGED <<status, snapshots, older>> /\ state' \in {state, "CLOSED"}
    BY <1>3, StandingsAssumption DEF TickPrices, Books
  <2>2. ts \in SUBSET Teams /\ \A t \in Teams \ ts : worth'[t] = worth[t]
    OBVIOUS
  <2> HIDE DEF ts
  <2> QED
    BY <1>1, <2>1, <2>2, KeptTouching DEF Shape
<1>4. CASE TickRead
  <2>1. PICK to \in {"as it is", "CLOSED"} : Read("tick", to)
    BY <1>4 DEF TickRead
  <2> QED
    BY <1>1, <1>4, <2>1, KeptReading DEF TickRead, Shape, Read
<1>5. CASE TickEnd
  <2>1. CASE Write("tick")
    BY <2>1, KeptWriting
  <2>2. CASE Ends("tick") /\ UNCHANGED <<state, orders, writing, books, snapshots, acts, touched>>
    <3>1. older' \in [Procs -> Nat] /\ \A q \in Procs : older'[q] <= Len(snapshots')
      BY <1>1, <2>2, KeptTimes
    <3> QED
      BY <2>2, <3>1 DEF IInv, Shape, Concluded, Current, Shows, RankableEquity, Writing, books
  <2> QED
    BY <1>5, <2>1, <2>2 DEF TickEnd
<1>6. CASE Reopen \/ Stop
  BY <1>6, Kept DEF Reopen, Stop, ways, books
<1>7. ASSUME NEW to \in {"CLOSED", "FINAL"}, CloseBegin(to)
      PROVE  IInv'
  <2>1. older' \in [Procs -> Nat] /\ \A q \in Procs : older'[q] <= Len(snapshots')
    BY <1>1, <1>7, KeptTimes DEF CloseBegin, Read
  <2> QED
    BY <1>7, <2>1, KeptReading DEF CloseBegin
<1>8. CASE CloseEnd
  BY <1>8, KeptWriting DEF CloseEnd
<1>9. CASE ResetTrading
  <2>1. /\ state' = "CLOSED" /\ snapshots' = <<>> /\ older' = [p \in Procs |-> 0] /\ Touch(Teams)
        /\ worth' = [t \in Teams |-> Opening] /\ status' = [t \in Teams |-> "ACTIVE"]
    BY <1>9 DEF ResetTrading
  <2>2. [t \in Teams |-> Opening] \in Books /\ <<>> \in Seq(Books) /\ Len(<<>>) = 0
    BY StandingsAssumption, EmptySeq DEF Books
  <2>3. \A p \in Procs :
          /\ writing'[p] \in [to : {"none", "as it is", "CLOSED", "FINAL"}, book : Books, since : SUBSET Teams]
          /\ writing'[p].to # "none" => writing'[p].since = Teams
    BY <1>1, <2>1 DEF Touch, Shape, Writing
  <2>4. writing' = [p \in Procs |-> writing'[p]] /\ touched' \subseteq Teams
    BY <1>1, <2>1 DEF Touch, Shape
  <2>5. Shape'
    <3>1. /\ snapshots' \in Seq(Books) /\ Len(snapshots') = 0 /\ worth' \in Books
          /\ status' \in [Teams -> Statuses]
      BY <2>1, <2>2 DEF Statuses
    <3>2. writing' \in [Procs -> [to : {"none", "as it is", "CLOSED", "FINAL"}, book : Books, since : SUBSET Teams]]
      BY <2>3, <2>4
    <3>3. older' \in [Procs -> Nat] /\ \A p \in Procs : older'[p] <= Len(snapshots')
      BY <2>1, <3>1
    <3>4. state' \in {"OPEN", "CLOSED", "FINAL"} /\ touched' \subseteq Teams
      BY <2>1, <2>4
    <3> QED
      BY <3>1, <3>2, <3>3, <3>4 DEF Shape
  <2> QED
    BY <2>1, <2>3, <2>5 DEF IInv, Concluded, Current, Shows, Writing
<1>10. ASSUME NEW t \in Teams, Trade(t)
       PROVE  IInv'
  <2>1. Touch({t}) /\ UNCHANGED <<state, worth, status, snapshots, older>>
    BY <1>10 DEF Trade
  <2> QED
    BY <1>1, <2>1, KeptTouching DEF Shape
<1>11. ASSUME NEW t \in Teams, SweepFill(t) \/ OrderBegin(t) \/ OrderEnd(t)
       PROVE  IInv'
  <2>1. CASE UNCHANGED <<state, tick, ways, books, snapshots, acts, touched>>
    BY <2>1, Kept DEF ways, books
  <2> QED
    BY <1>10, <1>11, <2>1 DEF SweepFill, OrderBegin, OrderEnd
<1>12. ASSUME NEW t \in Teams, Bust(t) \/ \E s \in Statuses : SetTeamStatus(t, s)
       PROVE  IInv'
  <2>1. PICK s \in Statuses :
          /\ status' = [status EXCEPT ![t] = s] /\ Touch({t})
          /\ UNCHANGED <<state, worth, snapshots, older>>
    BY <1>12 DEF Bust, SetTeamStatus, Statuses
  <2> QED
    BY <1>1, <2>1, KeptTouching DEF Shape
<1>13. ASSUME NEW t \in Teams, NEW w \in Worths, Correct(t, w)
       PROVE  IInv'
  <2>1. /\ worth' = [worth EXCEPT ![t] = w] /\ Touch({t}) /\ w \in Int
        /\ UNCHANGED <<state, status, snapshots, older>>
    BY <1>13, StandingsAssumption DEF Correct
  <2>2. worth' \in Books
    BY <1>1, <2>1 DEF Shape, Books
  <2> QED
    BY <1>1, <2>1, <2>2, KeptTouching DEF Shape, Books
<1>14. CASE UNCHANGED vars
  BY <1>14, Kept DEF vars, ways, books
<1> QED
  BY <1>2, <1>3, <1>4, <1>5, <1>6, <1>7, <1>8, <1>9, <1>11, <1>12, <1>13, <1>14 DEF Next

\* Every state of the standings satisfies the invariant.
THEOREM Invariance == Spec => []IInv
BY Initially, Preserved, PTL DEF Spec

-----------------------------------------------------------------------------
\* The final table and the live board agree on the teams that are still in and
\* that nothing has touched since the last snapshot was read, whatever tick,
\* orders and closings were under way (results.py against valuations.py).
THEOREM AgreesWithBoard == Spec => []TableAgreesWithBoard
<1>1. IInv => TableAgreesWithBoard
  <2> SUFFICES ASSUME IInv, state = "FINAL", NEW t \in Teams \ touched, NEW u \in Teams \ touched,
                      status[t] # "BUSTED", status[u] # "BUSTED",
                      RankableEquity(t) > RankableEquity(u)
               PROVE  Above(t, u)
    BY DEF TableAgreesWithBoard
  <2>1. /\ FinalEquity(t) = RankableEquity(t) /\ RankableEquity(t) \in Int
        /\ FinalEquity(u) = RankableEquity(u) /\ RankableEquity(u) \in Int
    BY DEF IInv, Shape, Concluded, Current, Shows, FinalEquity, RankableEquity, Books
  <2>2. PICK a, b \in Int : a > b /\ FinalEquity(t) = a /\ FinalEquity(u) = b
    BY <2>1
  <2>3. /\ Key(t)[1] = 0 /\ Key(t)[2] = -a /\ 2 \in DOMAIN Key(t)
        /\ Key(u)[1] = 0 /\ Key(u)[2] = -b
    BY <2>2 DEF Key
  <2>4. Key(t)[2] < Key(u)[2] /\ \A j \in 1 .. 2 - 1 : Key(t)[j] = Key(u)[j]
    BY <2>2, <2>3
  <2> QED
    BY <2>3, <2>4 DEF Above, Precedes
<1> QED
  BY <1>1, Invariance, PTL

\* A snapshot that is written by a process that began before the last one.
LEMMA LastStays ==
  ASSUME Shape, NEW p \in Procs, Write(p), Old, status' = status
  PROVE  \A t \in Teams : FinalEquity(t)' = FinalEquity(t)
<1>1. older[p] < Len(snapshots)
  BY DEF Old, UnderWay, Write
<1>2. Last(snapshots') = Last(snapshots) /\ snapshots # <<>> /\ snapshots' # <<>>
  BY <1>1, Written
<1> QED
  BY <1>2 DEF FinalEquity

\* Corrections, restatements and everything else but a status change come too
\* late for a finished competition's account values, unless a tick or another
\* finalise began after its last snapshot; and for all of its table once no
\* order, tick or closing is under way (finalise in market.py).
THEOREM Locked == Spec => TableIsLocked
<1>1. ASSUME IInv, [Next]_vars, state = "FINAL", state' = "FINAL", status' = status
      PROVE  /\ Old => \A t \in Teams : FinalEquity(t)' = FinalEquity(t)
             /\ Quiet => Results' = Results
  <2>1. snapshots # <<>> /\ Shape
    BY <1>1 DEF IInv, Concluded
  <2> {"tick", "operator"} = Procs
    BY DEF Procs
  <2>2. CASE UNCHANGED <<snapshots, busted_at, trades>>
    BY <1>1, <2>1, <2>2, SameResults
  <2>3. CASE TickEnd
    <3>1. ~Quiet
      BY <2>3 DEF TickEnd, Quiet, UnderWay
    <3>2. CASE Write("tick")
      BY <1>1, <2>1, <3>1, <3>2, LastStays
    <3>3. CASE UNCHANGED <<books, snapshots>>
      BY <2>2, <3>3 DEF books
    <3> QED
      BY <2>3, <3>2, <3>3 DEF TickEnd
  <2>4. CASE CloseEnd
    <3>1. ~Quiet /\ Write("operator")
      BY <2>4 DEF CloseEnd, Write, Quiet, UnderWay
    <3> QED
      BY <1>1, <2>1, <3>1, LastStays
  <2>5. ASSUME NEW t \in Teams, SweepFill(t) \/ OrderBegin(t) \/ OrderEnd(t)
        PROVE  /\ Old => \A u \in Teams : FinalEquity(u)' = FinalEquity(u)
               /\ Quiet => Results' = Results
    <3>1. CASE Trade(t)
      <4>1. UNCHANGED snapshots
        BY <3>1 DEF Trade
      <4>2. \A u \in Teams : FinalEquity(u)' = FinalEquity(u)
        BY <1>1, <2>1, <4>1 DEF FinalEquity
      <4>3. ~Quiet \/ OrderBegin(t)
        BY <2>5 DEF SweepFill, OrderEnd, Trading, Quiet, UnderWay
      <4>4. ~OrderBegin(t)
        BY <1>1 DEF OrderBegin
      <4> QED
        BY <4>2, <4>3, <4>4
    <3>2. CASE UNCHANGED <<books, snapshots>>
      BY <2>2, <3>2 DEF books
    <3> QED
      BY <2>5, <3>1, <3>2 DEF SweepFill, OrderBegin, OrderEnd
  <2>6. ASSUME NEW t \in Teams
        PROVE  ~Bust(t) /\ \A s \in Statuses : ~SetTeamStatus(t, s)
    BY <1>1, <2>1 DEF Bust, SetTeamStatus, Shape
  <2>7. ASSUME NEW t \in Teams, NEW w \in Worths, Correct(t, w)
        PROVE  UNCHANGED <<snapshots, busted_at, trades>>
    BY <2>7 DEF Correct
  <2>8. CASE TickBegin \/ TickPrices \/ TickRead \/ \E to \in {"CLOSED", "FINAL"} : CloseBegin(to)
    BY <2>2, <2>8 DEF TickBegin, TickPrices, TickRead, CloseBegin, Read, books
  <2>9. ~Reopen /\ ~Stop /\ ~ResetTrading
    BY <1>1 DEF Reopen, Stop, ResetTrading
  <2>10. CASE UNCHANGED vars
    BY <2>2, <2>10 DEF vars, books
  <2> QED
    BY <1>1, <2>3, <2>4, <2>5, <2>6, <2>2, <2>7, <2>8, <2>9, <2>10 DEF Next
<1>2. IInv /\ [Next]_vars =>
        [state = "FINAL" /\ state' = "FINAL" /\ status' = status
           => /\ Old => \A t \in Teams : FinalEquity(t)' = FinalEquity(t)
              /\ Quiet => Results' = Results]_vars
  BY <1>1
<1> QED
  BY <1>2, Invariance, PTL DEF Spec, TableIsLocked

-----------------------------------------------------------------------------
(* The table ranks as the rulebook says. *)

Peaks == [peak : Int, worst : Int]

\* After the first i points of a curve: the highest of them, and the largest
\* fall from one of them to a later one.
Scanned(curve, i, scan) ==
  /\ scan \in Peaks
  /\ \E k \in 1 .. i : scan.peak = curve[k]
  /\ \A k \in 1 .. i : curve[k] <= scan.peak
  /\ \E k, l \in 1 .. i : k <= l /\ scan.worst = curve[k] - curve[l]
  /\ \A k, l \in 1 .. i : k <= l => curve[k] - curve[l] <= scan.worst

LEMMA ScanStep ==
  ASSUME NEW curve \in Seq(Int), NEW i \in Nat, i >= 1, i + 1 <= Len(curve), NEW scan, Scanned(curve, i, scan)
  PROVE  Scanned(curve, i + 1, Scan(scan, curve[i + 1]))
<1> DEFINE v == curve[i + 1]
           peak == Greater(scan.peak, v)
           worst == Greater(scan.worst, peak - v)
<1>1. scan.peak \in Int /\ scan.worst \in Int
  BY DEF Scanned, Peaks
<1>2. \A k \in 1 .. i + 1 : curve[k] \in Int /\ (k \in 1 .. i \/ k = i + 1)
  <2>1. Len(curve) \in Nat /\ DOMAIN curve = 1 .. Len(curve)
    OBVIOUS
  <2>2. \A k \in 1 .. i + 1 : k \in 1 .. Len(curve)
    BY <2>1
  <2> QED
    BY <2>2, ElementOfSeq
<1>3. v \in Int
  BY <1>2
<1>4. peak \in Int /\ worst \in Int /\ peak >= scan.peak /\ peak >= v /\ worst >= scan.worst /\ worst >= peak - v
  BY <1>1, <1>3 DEF Greater
<1>5. (peak = scan.peak \/ peak = v) /\ (worst = scan.worst \/ worst = peak - v)
  BY DEF Greater
<1>6. \E k \in 1 .. i + 1 : peak = curve[k]
  <2>1. CASE peak = v
    <3>1. i + 1 \in 1 .. i + 1
      OBVIOUS
    <3> QED
      BY <2>1, <3>1
  <2>2. CASE peak = scan.peak
    <3>1. PICK k \in 1 .. i : scan.peak = curve[k]
      BY DEF Scanned
    <3>2. k \in 1 .. i + 1
      OBVIOUS
    <3> QED
      BY <2>2, <3>1, <3>2
  <2> QED
    BY <1>5, <2>1, <2>2
<1>7. \A k \in 1 .. i + 1 : curve[k] <= peak
  <2>1. \A k \in 1 .. i : curve[k] <= scan.peak
    BY DEF Scanned
  <2> HIDE DEF peak
  <2> QED
    BY <1>1, <1>2, <1>3, <1>4, <2>1
<1>8. \E k, l \in 1 .. i + 1 : k <= l /\ worst = curve[k] - curve[l]
  <2>1. CASE worst = scan.worst
    <3>1. PICK k, l \in 1 .. i : k <= l /\ scan.worst = curve[k] - curve[l]
      BY DEF Scanned
    <3>2. k \in 1 .. i + 1 /\ l \in 1 .. i + 1
      OBVIOUS
    <3> HIDE DEF worst
    <3> QED
      BY <2>1, <3>1, <3>2
  <2>2. CASE worst = peak - v
    <3> HIDE DEF worst, peak
    <3>1. PICK k \in 1 .. i + 1 : peak = curve[k]
      BY <1>6
    <3>2. i + 1 \in 1 .. i + 1 /\ k <= i + 1
      OBVIOUS
    <3> QED
      BY <2>2, <3>1, <3>2
  <2> QED
    BY <1>5, <2>1, <2>2
<1>9. \A k, l \in 1 .. i + 1 : k <= l => curve[k] - curve[l] <= worst
  <2> HIDE DEF peak, worst
  <2>1. ASSUME NEW k \in 1 .. i + 1, NEW l \in 1 .. i + 1, k <= l PROVE curve[k] - curve[l] <= worst
    <3>1. CASE l = i + 1
      BY <1>2, <1>3, <1>4, <1>7, <3>1
    <3>2. CASE l # i + 1
      <4>1. k \in 1 .. i /\ l \in 1 .. i
        BY <2>1, <3>2
      <4>2. curve[k] - curve[l] <= scan.worst
        BY <2>1, <4>1 DEF Scanned
      <4>3. curve[k] \in Int /\ curve[l] \in Int
        BY <1>2
      <4> QED
        BY <1>1, <1>4, <4>2, <4>3
    <3> QED
      BY <3>1, <3>2
  <2> QED
    BY <2>1
<1>10. Scan(scan, v) = [peak |-> peak, worst |-> worst]
  BY DEF Scan
<1> HIDE DEF peak, worst
<1>11. PICK s : s = Scan(scan, v) /\ s.peak = peak /\ s.worst = worst /\ s \in Peaks
  BY <1>4, <1>10 DEF Peaks
<1> QED
  BY <1>6, <1>7, <1>8, <1>9, <1>11 DEF Scanned

\* The recursive scan of a curve finds its largest fall.
LEMMA LargestFall ==
  ASSUME NEW curve \in Seq(Int), Len(curve) >= 1
  PROVE  /\ \E k, l \in 1 .. Len(curve) : k <= l /\ MaxDrawdown(curve) = curve[k] - curve[l]
         /\ \A k, l \in 1 .. Len(curve) : k <= l => curve[k] - curve[l] <= MaxDrawdown(curve)
<1> DEFINE L == Len(curve)
           first == [peak |-> curve[1], worst |-> 0]
           F == [x \in (1 .. L - 1) \X Peaks |-> Scan(x[2], curve[x[1] + 1])]
<1>1. L \in Nat /\ L - 1 \in Nat /\ DOMAIN curve = 1 .. L /\ \A k \in 1 .. L : curve[k] \in Int
  BY ElementOfSeq
<1>2. \A p \in Peaks, k \in 1 .. L : Scan(p, curve[k]) \in Peaks
  <2>1. \A p \in Peaks, v \in Int : Scan(p, v) \in Peaks
    BY DEF Peaks, Scan, Greater
  <2> QED
    BY <1>1, <2>1
<1>3. first \in Peaks /\ 1 \in 1 .. L
  BY <1>1 DEF Peaks
<1>4. IsLoop(L - 1, Peaks, F)
  <2>1. \A x \in (1 .. L - 1) \X Peaks : x[2] \in Peaks /\ x[1] + 1 \in 1 .. L
    BY <1>1
  <2>2. \A x \in (1 .. L - 1) \X Peaks : Scan(x[2], curve[x[1] + 1]) \in Peaks
    BY <1>2, <2>1
  <2> QED
    BY <2>2 DEF IsLoop
<1>5. PICK g : IsHistory(L - 1, Peaks, first, F, g)
  <2> HIDE DEF F, first
  <2> QED
    BY <1>1, <1>3, <1>4, LoopHasHistory
<1>6. g \in [0 .. L - 1 -> Peaks] /\ g[0] = first
  BY <1>5 DEF IsHistory
<1>7. \A n \in 1 .. L - 1 : g[n] = Scan(g[n - 1], curve[n + 1])
  <2>1. ASSUME NEW n \in 1 .. L - 1 PROVE g[n] = Scan(g[n - 1], curve[n + 1])
    <3>1. n - 1 \in 0 .. L - 1
      BY <1>1
    <3>2. g[n - 1] \in Peaks
      BY <1>6, <3>1
    <3>3. F[<<n, g[n - 1]>>] = Scan(g[n - 1], curve[n + 1])
      BY <3>2
    <3> HIDE DEF F
    <3> QED
      BY <1>5, <3>3 DEF IsHistory
  <2> QED
    BY <2>1
<1> HIDE DEF F
<1> DEFINE h == [i \in 1 .. L |-> g[i - 1]]
           f == CHOOSE f : f = [i \in DOMAIN curve |-> IF i = 1 THEN first ELSE Scan(f[i - 1], curve[i])]
<1>8. h = [i \in DOMAIN curve |-> IF i = 1 THEN first ELSE Scan(h[i - 1], curve[i])]
  <2>1. ASSUME NEW i \in 1 .. L PROVE h[i] = IF i = 1 THEN first ELSE Scan(h[i - 1], curve[i])
    <3>1. CASE i = 1
      BY <1>6, <3>1
    <3>2. CASE i # 1
      <4>1. i - 1 \in 1 .. L - 1 /\ i - 1 \in 1 .. L /\ (i - 1) + 1 = i
        BY <1>1, <3>2
      <4>2. g[i - 1] = Scan(g[(i - 1) - 1], curve[i])
        BY <1>7, <4>1
      <4>3. h[i] = g[i - 1] /\ h[i - 1] = g[(i - 1) - 1]
        BY <4>1
      <4> QED
        BY <3>2, <4>2, <4>3
    <3> QED
      BY <3>1, <3>2
  <2>2. h = [i \in 1 .. L |-> h[i]]
    OBVIOUS
  <2> HIDE DEF h, first
  <2> QED
    BY <1>1, <2>1, <2>2
<1>9. f = [i \in DOMAIN curve |-> IF i = 1 THEN first ELSE Scan(f[i - 1], curve[i])]
  <2> HIDE DEF h, first
  <2> QED
    BY <1>8, Zenon
<1>10. MaxDrawdown(curve) = f[L].worst
  BY DEF MaxDrawdown
<1> HIDE DEF f
<1>11. f[1] = first /\ \A i \in 1 .. L : i # 1 => f[i] = Scan(f[i - 1], curve[i])
  <2> HIDE DEF first
  <2> QED
    BY <1>1, <1>3, <1>9
<1> DEFINE S == {n \in Nat : n + 1 <= L => Scanned(curve, n + 1, f[n + 1])}
<1>12. 0 \in S
  <2>1. Scanned(curve, 1, first)
    <3>1. first.peak = curve[1] /\ first.worst = 0 /\ curve[1] \in Int
      BY <1>1, <1>3
    <3>2. \A k \in 1 .. 1 : k = 1
      OBVIOUS
    <3>3. 1 \in 1 .. 1 /\ curve[1] - curve[1] = 0
      BY <3>1
    <3> HIDE DEF first
    <3> QED
      BY <1>3, <3>1, <3>2, <3>3 DEF Scanned
  <2> HIDE DEF first
  <2> QED
    BY <1>11, <2>1
<1>13. ASSUME NEW n \in Nat, n \in S PROVE n + 1 \in S
  <2>1. SUFFICES ASSUME (n + 1) + 1 <= L PROVE Scanned(curve, (n + 1) + 1, f[(n + 1) + 1])
    OBVIOUS
  <2>2. Scanned(curve, n + 1, f[n + 1]) /\ n + 1 \in Nat /\ n + 1 >= 1
    BY <1>1, <1>13, <2>1
  <2>3. PICK scan : scan = f[n + 1]
    OBVIOUS
  <2>4. Scanned(curve, (n + 1) + 1, Scan(scan, curve[(n + 1) + 1]))
    BY <2>1, <2>2, <2>3, ScanStep
  <2>5. f[(n + 1) + 1] = Scan(f[n + 1], curve[(n + 1) + 1])
    <3>1. (n + 1) + 1 \in 1 .. L /\ (n + 1) + 1 # 1 /\ ((n + 1) + 1) - 1 = n + 1
      BY <1>1, <2>1
    <3> QED
      BY <1>11, <3>1
  <2> QED
    BY <2>3, <2>4, <2>5
<1>14. L - 1 \in S
  <2> HIDE DEF S
  <2> QED
    BY <1>1, <1>12, <1>13, Climb
<1>15. Scanned(curve, L, f[L])
  BY <1>1, <1>14
<1> QED
  BY <1>10, <1>15 DEF Scanned

\* What the table calls a team's drawdown is the largest of its falls.
LEMMA DrawdownIsLargest ==
  ASSUME Shape, NEW t \in Teams
  PROVE  Drawdown(t) \in Falls(t) /\ Drawdown(t) \in Int /\ \A fall \in Falls(t) : fall \in Int /\ fall <= Drawdown(t)
<1> DEFINE rest == IF snapshots = <<>> THEN <<worth[t]>> ELSE Curve(t)
           pairs == {q \in (DOMAIN (<<Opening>> \o rest)) \X (DOMAIN (<<Opening>> \o rest)) : q[1] <= q[2]}
<1>1. rest \in Seq(Int)
  <2>1. worth[t] \in Int /\ snapshots \in Seq([Teams -> Int])
    BY Counting DEF Shape, Books
  <2>2. Curve(t) \in Seq(Int)
    <3>1. Len(snapshots) \in Nat /\ DOMAIN snapshots = 1 .. Len(snapshots)
      BY <2>1
    <3>2. \A i \in 1 .. Len(snapshots) : snapshots[i][t] \in Int
      BY <2>1, ElementOfSeq
    <3> QED
      BY <3>1, <3>2 DEF Curve
  <2>3. <<worth[t]>> \in Seq(Int)
    BY <2>1
  <2> QED
    BY <2>2, <2>3
<1>2. PICK curve \in Seq(Int) : curve = <<Opening>> \o rest /\ Len(curve) >= 1
  <2>1. <<Opening>> \in Seq(Int) /\ Len(<<Opening>>) = 1
    BY StandingsAssumption
  <2>2. PICK r \in Seq(Int) : r = rest
    BY <1>1
  <2>3. PICK o \in Seq(Int) : o = <<Opening>> /\ Len(o) = 1
    BY <2>1
  <2>4. o \o r \in Seq(Int) /\ Len(o \o r) = Len(o) + Len(r)
    BY ConcatProperties
  <2>5. Len(r) \in Nat
    OBVIOUS
  <2>6. o \o r = <<Opening>> \o rest
    BY <2>2, <2>3
  <2>7. Len(o \o r) >= 1
    BY <2>3, <2>4, <2>5
  <2> HIDE DEF rest
  <2> QED
    BY <2>4, <2>6, <2>7, Zenon
<1>3. Drawdown(t) = MaxDrawdown(curve)
  BY <1>2 DEF Drawdown
<1>4. Falls(t) = {curve[p[1]] - curve[p[2]] : p \in {q \in (DOMAIN curve) \X (DOMAIN curve) : q[1] <= q[2]}}
  <2> HIDE DEF pairs
  <2> QED
    BY <1>2, Zenon DEF Falls
<1> HIDE DEF rest, pairs
<1>5. DOMAIN curve = 1 .. Len(curve) /\ \A k \in 1 .. Len(curve) : curve[k] \in Int
  BY ElementOfSeq
<1>6. \A fall : fall \in Falls(t) <=> \E k, l \in 1 .. Len(curve) : k <= l /\ fall = curve[k] - curve[l]
  <2>1. ASSUME NEW fall \in Falls(t) PROVE \E k, l \in 1 .. Len(curve) : k <= l /\ fall = curve[k] - curve[l]
    <3>1. PICK p \in (DOMAIN curve) \X (DOMAIN curve) : p[1] <= p[2] /\ fall = curve[p[1]] - curve[p[2]]
      BY <1>4, <2>1
    <3>2. p[1] \in 1 .. Len(curve) /\ p[2] \in 1 .. Len(curve)
      BY <1>5, <3>1
    <3> QED
      BY <3>1, <3>2
  <2>2. ASSUME NEW k \in 1 .. Len(curve), NEW l \in 1 .. Len(curve), k <= l
        PROVE  curve[k] - curve[l] \in Falls(t)
    <3>1. PICK p : p = <<k, l>>
      OBVIOUS
    <3>2. /\ p \in {q \in (DOMAIN curve) \X (DOMAIN curve) : q[1] <= q[2]} /\ p[1] = k /\ p[2] = l
      BY <1>5, <2>2, <3>1
    <3> QED
      BY <1>4, <3>2
  <2> QED
    BY <2>1, <2>2
<1>7. /\ \E k, l \in 1 .. Len(curve) : k <= l /\ MaxDrawdown(curve) = curve[k] - curve[l]
      /\ \A k, l \in 1 .. Len(curve) : k <= l => curve[k] - curve[l] <= MaxDrawdown(curve)
  BY <1>2, LargestFall
<1>8. \A fall \in Falls(t) : fall \in Int /\ fall <= Drawdown(t)
  BY <1>3, <1>5, <1>6, <1>7
<1>9. Drawdown(t) \in Falls(t)
  BY <1>3, <1>6, <1>7
<1> QED
  BY <1>8, <1>9

LEMMA SteadierFallsLess ==
  ASSUME Shape, NEW t \in Teams, NEW u \in Teams
  PROVE  Steadier(t, u) <=> Drawdown(t) < Drawdown(u)
<1>1. /\ Drawdown(t) \in Falls(t) /\ \A fall \in Falls(t) : fall \in Int /\ fall <= Drawdown(t)
      /\ Drawdown(u) \in Falls(u) /\ \A fall \in Falls(u) : fall \in Int /\ fall <= Drawdown(u)
      /\ Drawdown(t) \in Int /\ Drawdown(u) \in Int
  BY DrawdownIsLargest
<1>2. ASSUME Steadier(t, u) PROVE Drawdown(t) < Drawdown(u)
  <2>1. PICK fall \in Falls(u) : \A own \in Falls(t) : fall > own
    BY <1>2 DEF Steadier
  <2>2. fall > Drawdown(t) /\ fall <= Drawdown(u) /\ fall \in Int
    BY <1>1, <2>1
  <2> QED
    BY <1>1, <2>2
<1>3. ASSUME Drawdown(t) < Drawdown(u) PROVE Steadier(t, u)
  <2>1. \A own \in Falls(t) : Drawdown(u) > own
    BY <1>1, <1>3
  <2> QED
    BY <1>1, <2>1 DEF Steadier
<1> QED
  BY <1>2, <1>3

\* The time at which the desk last took a team out is the last one.
Lasting ==
  /\ trades \in [Teams -> Nat] /\ busted_at \in [Teams -> Nat] /\ outs \in Seq(Teams)
  /\ \A t \in Teams : \A i \in 1 .. Len(outs) : outs[i] = t =>
       busted_at[t] \in 1 .. Len(outs) /\ outs[busted_at[t]] = t /\ i <= busted_at[t]

LEMMA LastingInit == Init => Lasting
<1> SUFFICES ASSUME Init PROVE Lasting
  OBVIOUS
<1>1. outs = <<>> /\ Len(<<>>) = 0 /\ <<>> \in Seq(Teams)
  BY DEF Init
<1>2. trades \in [Teams -> Nat] /\ busted_at \in [Teams -> Nat]
  BY DEF Init, Never
<1> QED
  BY <1>1, <1>2 DEF Lasting

LEMMA LastingStep == Lasting /\ [Next]_vars => Lasting'
<1> SUFFICES ASSUME Lasting, [Next]_vars PROVE Lasting'
  OBVIOUS
<1>1. CASE UNCHANGED <<trades, busted_at, outs>>
  BY <1>1 DEF Lasting
<1>2. ASSUME NEW t \in Teams, Trade(t) PROVE Lasting'
  <2>1. trades' \in [Teams -> Nat]
    BY <1>2 DEF Lasting, Trade
  <2>2. UNCHANGED <<busted_at, outs>>
    BY <1>2 DEF Trade
  <2> QED
    BY <2>1, <2>2 DEF Lasting
<1>3. ASSUME NEW t \in Teams, Bust(t) PROVE Lasting'
  <2>1. PICK s \in Seq(Teams) : s = outs
    BY DEF Lasting
  <2>2. PICK now \in Nat : now = Len(s) + 1
    OBVIOUS
  <2>3. /\ Append(s, t) \in Seq(Teams) /\ Len(Append(s, t)) = now
        /\ \A i \in 1 .. Len(s) : Append(s, t)[i] = s[i]
        /\ Append(s, t)[now] = t
    BY <2>2, AppendProperties
  <2>4. outs' = Append(s, t)
    BY <1>3, <2>1 DEF Bust
  <2>5. outs' \in Seq(Teams) /\ Len(outs') = now /\ outs'[now] = t
    BY <2>3, <2>4
  <2>6. \A i \in 1 .. now : (i \in 1 .. Len(s) /\ outs'[i] = s[i]) \/ i = now
    <3>1. \A i \in 1 .. now : i \in 1 .. Len(s) \/ i = now
      BY <2>2
    <3> QED
      BY <2>3, <2>4, <3>1
  <2>7. busted_at' = [busted_at EXCEPT ![t] = now]
    BY <1>3, <2>5 DEF Bust
  <2>8. busted_at' \in [Teams -> Nat] /\ busted_at'[t] = now
        /\ \A u \in Teams : u # t => busted_at'[u] = busted_at[u]
    BY <2>7 DEF Lasting
  <2>9. trades' = trades
    BY <1>3 DEF Bust
  <2>10. ASSUME NEW u \in Teams, NEW i \in 1 .. now, outs'[i] = u
         PROVE  busted_at'[u] \in 1 .. now /\ outs'[busted_at'[u]] = u /\ i <= busted_at'[u]
    <3>1. CASE u = t
      BY <2>2, <2>5, <2>8, <3>1
    <3>2. CASE u # t
      <4>1. i \in 1 .. Len(s) /\ s[i] = u
        BY <2>5, <2>6, <2>10, <3>2
      <4>2. busted_at[u] \in 1 .. Len(s) /\ s[busted_at[u]] = u /\ i <= busted_at[u]
        BY <2>1, <4>1 DEF Lasting
      <4>3. busted_at[u] \in 1 .. now /\ outs'[busted_at[u]] = s[busted_at[u]]
        BY <2>2, <2>3, <2>4, <4>2
      <4> QED
        BY <2>8, <3>2, <4>2, <4>3
    <3> QED
      BY <3>1, <3>2
  <2> QED
    BY <2>5, <2>8, <2>9, <2>10 DEF Lasting
<1>4. ASSUME ResetTrading PROVE Lasting'
  <2>1. outs' = <<>> /\ Len(<<>>) = 0 /\ <<>> \in Seq(Teams)
    BY <1>4 DEF ResetTrading
  <2>2. trades' \in [Teams -> Nat] /\ busted_at' \in [Teams -> Nat]
    BY <1>4 DEF ResetTrading, Never
  <2> QED
    BY <2>1, <2>2 DEF Lasting
<1>5. CASE UNCHANGED vars
  BY <1>1, <1>5 DEF vars, books
<1>6. CASE Next
  <2>1. CASE \/ TickBegin \/ TickPrices \/ TickRead \/ TickEnd \/ Reopen \/ Stop \/ CloseEnd
             \/ \E to \in {"CLOSED", "FINAL"} : CloseBegin(to)
    BY <1>1, <2>1 DEF TickBegin, TickPrices, TickRead, TickEnd, Reopen, Stop, CloseEnd, CloseBegin,
                      Read, Write, books
  <2>4. ASSUME NEW t \in Teams, SweepFill(t) \/ OrderBegin(t) \/ OrderEnd(t) PROVE Lasting'
    BY <1>1, <1>2, <2>4 DEF SweepFill, OrderBegin, OrderEnd, books
  <2>2. ASSUME NEW t \in Teams, NEW s \in Statuses, SetTeamStatus(t, s) PROVE Lasting'
    BY <1>1, <2>2 DEF SetTeamStatus
  <2>3. ASSUME NEW t \in Teams, NEW w \in Worths, Correct(t, w) PROVE Lasting'
    BY <1>1, <2>3 DEF Correct
  <2> QED
    BY <1>3, <1>4, <1>6, <2>1, <2>2, <2>3, <2>4 DEF Next
<1> QED
  BY <1>5, <1>6

LEMMA EquityIsWhole ==
  ASSUME Shape, NEW t \in Teams
  PROVE  FinalEquity(t) \in Int
<1>1. worth[t] \in Int
  BY Counting
<1>2. snapshots # <<>> => Last(snapshots)[t] \in Int
  <2>1. PICK s \in Seq([Teams -> Int]) : s = snapshots
    BY DEF Shape, Books
  <2>2. s # <<>> => Len(s) \in 1 .. Len(s)
    OBVIOUS
  <2>3. s # <<>> => s[Len(s)] \in [Teams -> Int]
    BY <2>2, ElementOfSeq
  <2> QED
    BY <2>1, <2>3 DEF Last
<1> QED
  BY <1>1, <1>2 DEF FinalEquity

\* Six parts, the earlier before the later.
LEMMA KeyOrder ==
  ASSUME NEW a1, NEW a2, NEW a3, NEW a4, NEW a5, NEW a6,
         NEW b1, NEW b2, NEW b3, NEW b4, NEW b5, NEW b6,
         \/ a1 < b1
         \/ a1 = b1 /\ a2 < b2
         \/ a1 = b1 /\ a2 = b2 /\ a3 < b3
         \/ a1 = b1 /\ a2 = b2 /\ a3 = b3 /\ a4 < b4
         \/ a1 = b1 /\ a2 = b2 /\ a3 = b3 /\ a4 = b4 /\ a5 < b5
  PROVE  Precedes(<<a1, a2, a3, a4, a5, a6>>, <<b1, b2, b3, b4, b5, b6>>)
<1> DEFINE k == <<a1, a2, a3, a4, a5, a6>>
           l == <<b1, b2, b3, b4, b5, b6>>
<1>1. /\ k[1] = a1 /\ k[2] = a2 /\ k[3] = a3 /\ k[4] = a4 /\ k[5] = a5
      /\ l[1] = b1 /\ l[2] = b2 /\ l[3] = b3 /\ l[4] = b4 /\ l[5] = b5
  OBVIOUS
<1>2. {1, 2, 3, 4, 5} \subseteq DOMAIN k
  OBVIOUS
<1>3. /\ \A j \in 1 .. 1 - 1 : FALSE
      /\ \A j \in 1 .. 2 - 1 : j = 1
      /\ \A j \in 1 .. 3 - 1 : j = 1 \/ j = 2
      /\ \A j \in 1 .. 4 - 1 : j = 1 \/ j = 2 \/ j = 3
      /\ \A j \in 1 .. 5 - 1 : j = 1 \/ j = 2 \/ j = 3 \/ j = 4
  OBVIOUS
<1> HIDE DEF k, l
<1>4. \E i \in DOMAIN k : k[i] < l[i] /\ \A j \in 1 .. i - 1 : k[j] = l[j]
  BY <1>1, <1>2, <1>3
<1> QED
  BY <1>4 DEF Precedes, k, l

\* The order of the table is the rulebook's, in any state of the books.
LEMMA RulebookOrder ==
  ASSUME Shape, Lasting, NEW t \in Teams, NEW u \in Teams, Beats(t, u)
  PROVE  Above(t, u)
<1>1. FinalEquity(t) \in Int /\ FinalEquity(u) \in Int
  BY EquityIsWhole
<1>2. Drawdown(t) \in Int /\ Drawdown(u) \in Int
  BY DrawdownIsLargest
<1>3. /\ Steadier(t, u) <=> Drawdown(t) < Drawdown(u)
      /\ Steadier(u, t) <=> Drawdown(u) < Drawdown(t)
  BY SteadierFallsLess
<1>4. busted_at[t] \in Nat /\ busted_at[u] \in Nat /\ trades[t] \in Nat /\ trades[u] \in Nat
  BY DEF Lasting
<1>5. CASE status[t] # "BUSTED" /\ status[u] = "BUSTED"
  BY <1>5, KeyOrder DEF Above, Key
<1>6. CASE status[t] = "BUSTED" /\ status[u] = "BUSTED"
  <2>1. Outlasted(t, u)
    BY <1>6 DEF Beats
  <2>2. DOMAIN outs = 1 .. Len(outs)
    BY DEF Lasting
  <2>3. PICK i \in DOMAIN outs : outs[i] = t /\ \A j \in DOMAIN outs : outs[j] = u => j < i
    BY <2>1 DEF Outlasted
  <2>4. PICK j \in DOMAIN outs : outs[j] = u
    BY <2>1 DEF Outlasted
  <2>5. busted_at[u] \in DOMAIN outs /\ outs[busted_at[u]] = u
    BY <2>2, <2>4 DEF Lasting
  <2>6. busted_at[u] < i /\ i <= busted_at[t] /\ i \in Int
    BY <2>2, <2>3, <2>5 DEF Lasting
  <2>7. -busted_at[t] < -busted_at[u]
    BY <1>4, <2>6
  <2>8. FinalEquity(t) = 0 /\ FinalEquity(u) = 0
    BY <1>6 DEF FinalEquity
  <2>9. Precedes(<<1, -0, -busted_at[t], Drawdown(t), trades[t], t>>,
                 <<1, -0, -busted_at[u], Drawdown(u), trades[u], u>>)
    BY <2>7, KeyOrder
  <2> QED
    BY <1>6, <2>8, <2>9 DEF Above, Key
<1>7. CASE status[t] # "BUSTED" /\ status[u] # "BUSTED"
  <2>1. \/ FinalEquity(t) > FinalEquity(u)
        \/ FinalEquity(t) = FinalEquity(u) /\ Drawdown(t) < Drawdown(u)
        \/ /\ FinalEquity(t) = FinalEquity(u) /\ ~(Drawdown(t) < Drawdown(u)) /\ ~(Drawdown(u) < Drawdown(t))
           /\ trades[t] < trades[u]
    BY <1>3, <1>7 DEF Beats
  <2>2. \/ -FinalEquity(t) < -FinalEquity(u)
        \/ -FinalEquity(t) = -FinalEquity(u) /\ Drawdown(t) < Drawdown(u)
        \/ -FinalEquity(t) = -FinalEquity(u) /\ Drawdown(t) = Drawdown(u) /\ trades[t] < trades[u]
    BY <1>1, <1>2, <2>1
  <2>3. Precedes(<<0, -FinalEquity(t), 0, Drawdown(t), trades[t], t>>,
                 <<0, -FinalEquity(u), 0, Drawdown(u), trades[u], u>>)
    BY <2>2, KeyOrder
  <2> QED
    BY <1>7, <2>3 DEF Above, Key
<1> QED
  BY <1>5, <1>6, <1>7 DEF Beats

\* A finished competition ranks the teams as rules 11, 22 and 23 say (the sort
\* keys of results.py): the survivors, the busted by how long they lasted, then
\* account value, the largest fall of the curve and the number of fills.
THEOREM FollowsRulebook == Spec => []TableFollowsRulebook
<1>1. Shape /\ Lasting => TableFollowsRulebook
  BY RulebookOrder DEF TableFollowsRulebook
<1>2. IInv => Shape
  BY DEF IInv
<1> QED
  BY <1>1, <1>2, Initially, Preserved, LastingInit, LastingStep, PTL DEF Spec

=============================================================================
