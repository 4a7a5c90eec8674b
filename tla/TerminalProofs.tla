--------------------------- MODULE TerminalProofs ---------------------------
(***************************************************************************)
(* What a socket carries, for any number of pages, any queue and any       *)
(* number of updates: the updates in order, and an important one gives way *)
(* only after a whole queue of newer ones.  One invariant carries both:    *)
(* the updates of a queue are as far apart as their places, all newer than *)
(* what was sent and none newer than what was published.                   *)
(*                                                                         *)
(* And that the sign-in windows limit what their log says: a window holds  *)
(* the attempts that count, all of them as long as they are recent.        *)
(***************************************************************************)
EXTENDS Terminal, SlidingWindow, SequenceTheorems, FiniteSetTheorems, FunctionTheorems, TLAPS

Ordered(q, s, v) ==
  /\ Len(q) <= MaxQueue /\ s <= v
  /\ \A i \in 1 .. Len(q) : s < q[i] /\ q[i] <= v
  /\ \A i, j \in 1 .. Len(q) : i <= j => q[j] - q[i] >= j - i

Shape ==
  /\ published \in Seq(Kinds)
  /\ queue \in [Clients -> Seq(Nat)] /\ sent \in [Clients -> Nat]
  /\ lost \in [Clients -> SUBSET Nat]

Queues == \A c \in Clients : Ordered(queue[c], sent[c], version)

IInv == Shape /\ Queues /\ OnlyDurablesEvict

carried == <<published, queue, sent, lost>>

\* The numbers of the updates, and the important ones, as they are published.
LEMMA Numbering ==
  ASSUME published \in Seq(Kinds)
  PROVE  /\ version \in Nat /\ durable \subseteq Nat
         /\ \A kind \in Kinds : published' = Append(published, kind) =>
              /\ published' \in Seq(Kinds) /\ version' = version + 1
              /\ durable \subseteq durable'
              /\ kind # "quote" => version + 1 \in durable'
<1>1. version \in Nat /\ durable \subseteq Nat
  BY DEF version, durable
<1>2. ASSUME NEW kind \in Kinds, published' = Append(published, kind)
      PROVE  /\ published' \in Seq(Kinds) /\ version' = version + 1
             /\ durable \subseteq durable'
             /\ kind # "quote" => version + 1 \in durable'
  <2>1. /\ published' \in Seq(Kinds) /\ Len(published') = Len(published) + 1
        /\ \A i \in 1 .. Len(published) : published'[i] = published[i]
        /\ published'[Len(published) + 1] = kind
    BY <1>2, AppendProperties
  <2>2. Len(published) \in Nat
    OBVIOUS
  <2> QED
    BY <2>1, <2>2 DEF version, durable
<1> QED
  BY <1>1, <1>2

-----------------------------------------------------------------------------
\* Taking the head of a queue leaves an ordered one, behind either.
LEMMA Sending ==
  ASSUME NEW q \in Seq(Nat), NEW s \in Nat, NEW v \in Nat, Ordered(q, s, v), q # <<>>
  PROVE  /\ Tail(q) \in Seq(Nat) /\ Head(q) \in Nat
         /\ Ordered(Tail(q), s, v) /\ Ordered(Tail(q), Head(q), v)
<1>1. Len(q) \in Nat \ {0} /\ MaxQueue \in Nat \ {0}
  BY EmptySeq, StreamAssumption
<1>2. /\ Tail(q) \in Seq(Nat) /\ Len(Tail(q)) = Len(q) - 1
      /\ \A i \in 1 .. Len(Tail(q)) : Tail(q)[i] = q[i + 1]
  BY <1>1
<1>3. Head(q) = q[1] /\ \A i \in 1 .. Len(q) : q[i] \in Nat
  BY <1>1
<1>4. PICK t \in Seq(Nat) : t = Tail(q)
  BY <1>2
<1>5. \A i \in 1 .. Len(t) :
        i + 1 \in 1 .. Len(q) /\ t[i] = q[i + 1] /\ s < q[i + 1] /\ q[i + 1] <= v
  BY <1>1, <1>2, <1>4 DEF Ordered
<1>6. \A i \in 1 .. Len(t) : q[1] < t[i]
  <2> SUFFICES ASSUME NEW i \in 1 .. Len(t) PROVE q[1] < t[i]
    OBVIOUS
  <2>1. 1 \in 1 .. Len(q) /\ i + 1 \in 1 .. Len(q) /\ 1 <= i + 1
    BY <1>1, <1>5
  <2>2. q[i + 1] - q[1] >= i + 1 - 1
    BY <2>1 DEF Ordered
  <2>3. i \in Int /\ i >= 1 /\ q[i + 1] \in Nat /\ q[1] \in Nat
    BY <1>3, <2>1
  <2>4. q[1] < q[i + 1]
    BY <2>2, <2>3
  <2> QED
    BY <1>5, <2>4
<1>7. \A i, j \in 1 .. Len(t) : i <= j => t[j] - t[i] >= j - i
  <2> SUFFICES ASSUME NEW i \in 1 .. Len(t), NEW j \in 1 .. Len(t), i <= j
               PROVE  t[j] - t[i] >= j - i
    OBVIOUS
  <2>1. q[j + 1] - q[i + 1] >= (j + 1) - (i + 1)
    BY <1>5 DEF Ordered
  <2> QED
    BY <1>5, <2>1
<1>8. Len(t) <= MaxQueue
  BY <1>1, <1>2, <1>4 DEF Ordered
<1> QED
  BY <1>1, <1>2, <1>3, <1>4, <1>5, <1>6, <1>7, <1>8 DEF Ordered

\* Appending a newer update to a queue that has room.
LEMMA Appending ==
  ASSUME NEW q \in Seq(Nat), NEW s \in Nat, NEW v \in Nat, Ordered(q, s, v),
         Len(q) < MaxQueue
  PROVE  Append(q, v + 1) \in Seq(Nat) /\ Ordered(Append(q, v + 1), s, v + 1)
<1>1. Len(q) \in Nat /\ MaxQueue \in Nat \ {0} /\ v + 1 \in Nat
  BY StreamAssumption
<1>2. PICK a \in Seq(Nat) :
        /\ a = Append(q, v + 1) /\ Len(a) = Len(q) + 1 /\ a[Len(q) + 1] = v + 1
        /\ \A i \in 1 .. Len(q) : a[i] = q[i] /\ q[i] \in Nat
  <2>1. /\ Append(q, v + 1) \in Seq(Nat) /\ Len(Append(q, v + 1)) = Len(q) + 1
        /\ \A i \in 1 .. Len(q) : Append(q, v + 1)[i] = q[i]
        /\ Append(q, v + 1)[Len(q) + 1] = v + 1
    BY <1>1, AppendProperties
  <2> QED
    BY <2>1, ElementOfSeq
<1>3. \A i \in 1 .. Len(a) : s < a[i] /\ a[i] <= v + 1
  BY <1>1, <1>2 DEF Ordered
<1>4. \A i, j \in 1 .. Len(a) : i <= j => a[j] - a[i] >= j - i
  <2> SUFFICES ASSUME NEW i \in 1 .. Len(a), NEW j \in 1 .. Len(a), i <= j
               PROVE  a[j] - a[i] >= j - i
    OBVIOUS
  <2>1. CASE j <= Len(q)
    BY <1>1, <1>2, <2>1 DEF Ordered
  <2>2. CASE j = Len(q) + 1 /\ i = j
    BY <1>1, <1>2, <2>2
  <2>3. CASE j = Len(q) + 1 /\ i <= Len(q)
    <3>1. /\ i \in 1 .. Len(q) /\ Len(q) \in 1 .. Len(q) /\ i <= Len(q)
          /\ q[i] \in Nat /\ q[Len(q)] \in Nat
      BY <1>1, <1>2, <2>3
    <3>2. q[Len(q)] - q[i] >= Len(q) - i /\ q[Len(q)] <= v
      BY <3>1 DEF Ordered
    <3> QED
      BY <1>1, <1>2, <2>3, <3>1, <3>2
  <2> QED
    BY <1>1, <1>2, <2>1, <2>2, <2>3
<1>5. Len(a) <= MaxQueue
  BY <1>1, <1>2
<1> QED
  BY <1>2, <1>3, <1>4, <1>5 DEF Ordered

\* What Offer does to an ordered queue: it stays one, and an update leaves it
\* only for a durable one that is a whole queue newer.
LEMMA Offering ==
  ASSUME NEW q \in Seq(Nat), NEW s \in Nat, NEW v \in Nat, Ordered(q, s, v), NEW keep \in BOOLEAN
  PROVE  /\ Offer(q, v + 1, keep) \in Seq(Nat) /\ Ordered(Offer(q, v + 1, keep), s, v + 1)
         /\ \A u \in Queued(q) \ Queued(Offer(q, v + 1, keep)) :
              u \in Nat /\ keep /\ v + 1 >= u + MaxQueue
<1>1. Len(q) \in Nat /\ MaxQueue \in Nat \ {0} /\ \A i \in 1 .. Len(q) : q[i] \in Nat
  BY StreamAssumption, ElementOfSeq
<1>2. CASE Len(q) < MaxQueue
  <2>1. Offer(q, v + 1, keep) = Append(q, v + 1)
    BY <1>2 DEF Offer
  <2>2. Queued(q) \ Queued(Append(q, v + 1)) = {}
    <3>1. /\ Len(Append(q, v + 1)) = Len(q) + 1
          /\ \A i \in 1 .. Len(q) : Append(q, v + 1)[i] = q[i]
      BY <1>1, AppendProperties
    <3> QED
      BY <1>1, <3>1 DEF Queued
  <2> QED
    BY <1>2, <2>1, <2>2, Appending
<1>3. CASE ~(Len(q) < MaxQueue) /\ ~keep
  <2>1. Offer(q, v + 1, keep) = q
    BY <1>3 DEF Offer
  <2>2. Ordered(q, s, v + 1)
    BY <1>1 DEF Ordered
  <2> QED
    BY <2>1, <2>2
<1>4. CASE ~(Len(q) < MaxQueue) /\ keep
  <2>1. Offer(q, v + 1, keep) = Append(Tail(q), v + 1)
    BY <1>4 DEF Offer
  <2>2. Len(q) = MaxQueue /\ q # <<>>
    BY <1>1, <1>4, EmptySeq DEF Ordered
  <2>3. PICK t \in Seq(Nat) :
          /\ t = Tail(q) /\ Ordered(t, s, v) /\ Len(t) = Len(q) - 1
          /\ \A i \in 1 .. Len(t) : t[i] = q[i + 1]
    BY <2>2, Sending, HeadTailProperties
  <2>4. Append(t, v + 1) \in Seq(Nat) /\ Ordered(Append(t, v + 1), s, v + 1)
    <3>1. Len(t) < MaxQueue
      BY <1>1, <2>2, <2>3
    <3> QED
      BY <2>3, <3>1, Appending
  <2>5. \A i \in 2 .. Len(q) : q[i] \in Queued(Append(t, v + 1))
    <3> SUFFICES ASSUME NEW i \in 2 .. Len(q) PROVE q[i] \in Queued(Append(t, v + 1))
      OBVIOUS
    <3>1. i - 1 \in 1 .. Len(t) /\ q[i] = t[i - 1]
      BY <1>1, <2>3
    <3>2. Len(Append(t, v + 1)) = Len(t) + 1 /\ Append(t, v + 1)[i - 1] = t[i - 1]
      BY <1>1, <3>1, AppendProperties
    <3>3. i - 1 \in 1 .. Len(Append(t, v + 1))
      BY <1>1, <2>3, <3>1, <3>2
    <3> QED
      BY <3>1, <3>2, <3>3 DEF Queued
  <2>6. ASSUME NEW u \in Queued(q) \ Queued(Append(t, v + 1))
        PROVE  u \in Nat /\ v + 1 >= u + MaxQueue
    <3>1. PICK i \in 1 .. Len(q) : u = q[i]
      BY <2>6 DEF Queued
    <3>2. i = 1
      BY <1>1, <2>5, <2>6, <3>1
    <3>3. /\ 1 \in 1 .. Len(q) /\ Len(q) \in 1 .. Len(q) /\ 1 <= Len(q)
          /\ q[1] \in Nat /\ q[Len(q)] \in Nat
      BY <1>1, <2>2
    <3>4. q[Len(q)] - q[1] >= Len(q) - 1 /\ q[Len(q)] <= v
      BY <3>3 DEF Ordered
    <3> QED
      BY <1>1, <2>2, <3>1, <3>2, <3>3, <3>4
  <2> QED
    BY <1>4, <2>1, <2>3, <2>4, <2>6
<1> QED
  BY <1>2, <1>3, <1>4

-----------------------------------------------------------------------------
LEMMA Initially == PageInit => IInv
<1> SUFFICES ASSUME PageInit PROVE IInv
  OBVIOUS
<1>1. Len(<<>>) = 0 /\ <<>> \in Seq(Nat) /\ MaxQueue \in Nat
  BY EmptySeq, StreamAssumption
<1>2. \A c \in Clients : queue[c] = <<>> /\ sent[c] = 0 /\ lost[c] = {} /\ version = 0
  BY DEF PageInit, Init, version
<1>3. Shape
  BY <1>1 DEF PageInit, Init, Shape
<1>4. Queues
  <2> SUFFICES ASSUME NEW c \in Clients PROVE Ordered(queue[c], sent[c], version)
    BY DEF Queues
  <2>1. Ordered(<<>>, 0, 0)
    BY <1>1, StreamAssumption DEF Ordered
  <2> QED
    BY <1>2, <2>1
<1> QED
  BY <1>2, <1>3, <1>4 DEF IInv, OnlyDurablesEvict

LEMMA Preserved == IInv /\ [Next]_all => IInv'
<1> SUFFICES ASSUME IInv, [Next]_all PROVE IInv'
  OBVIOUS
<1> USE DEF IInv
<1>1. ASSUME NEW kind \in Kinds, Publish(kind)
      PROVE  IInv'
  <2> DEFINE keep == kind # "quote"
  <2>1. /\ published' \in Seq(Kinds) /\ version' = version + 1 /\ UNCHANGED sent
        /\ durable \subseteq durable' /\ (keep => version + 1 \in durable')
        /\ \A c \in Clients :
             queue'[c] = IF Registered(c) THEN Offer(queue[c], version + 1, keep) ELSE queue[c]
        /\ queue' = [c \in Clients |-> queue'[c]]
    <3>1. /\ published' \in Seq(Kinds) /\ version' = version + 1
          /\ durable \subseteq durable' /\ (keep => version + 1 \in durable')
      BY <1>1, Numbering DEF Publish, Shape
    <3>2. /\ UNCHANGED sent
          /\ queue' = [c \in Clients |-> IF Registered(c) THEN Offer(queue[c], version', keep) ELSE queue[c]]
      BY <1>1 DEF Publish
    <3> QED
      BY <3>1, <3>2
  <2>2. lost' = [c \in Clients |->
                   lost[c] \cup ((Queued(queue[c]) \ Queued(queue'[c])) \cap durable)]
    BY <1>1 DEF Publish
  <2>3. version \in Nat /\ version + 1 \in Nat /\ MaxQueue \in Nat \ {0} /\ keep \in BOOLEAN
    BY StreamAssumption, Numbering DEF Shape
  <2> HIDE DEF keep
  <2>4. ASSUME NEW c \in Clients
        PROVE  /\ queue'[c] \in Seq(Nat) /\ Ordered(queue'[c], sent[c], version + 1)
               /\ \A u \in Queued(queue[c]) \ Queued(queue'[c]) :
                    u \in Nat /\ keep /\ version + 1 >= u + MaxQueue
    <3>1. queue[c] \in Seq(Nat) /\ sent[c] \in Nat /\ Ordered(queue[c], sent[c], version)
      BY DEF Shape, Queues
    <3>2. CASE Registered(c)
      BY <2>1, <2>3, <3>1, <3>2, Offering
    <3>3. CASE ~Registered(c)
      <4>1. Len(queue[c]) \in Nat /\ \A i \in 1 .. Len(queue[c]) : queue[c][i] \in Nat
        BY <3>1, ElementOfSeq
      <4>2. Ordered(queue[c], sent[c], version + 1)
        BY <2>3, <3>1, <4>1 DEF Ordered
      <4> QED
        BY <2>1, <3>1, <3>3, <4>2
    <3> QED
      BY <3>2, <3>3
  <2>5. Shape'
    BY <2>1, <2>2, <2>3, <2>4 DEF Shape
  <2>6. Queues'
    BY <2>1, <2>4 DEF Queues
  <2>7. OnlyDurablesEvict'
    <3> SUFFICES ASSUME NEW c \in Clients, NEW u \in lost'[c]
                 PROVE  \E d \in durable' : d >= u + MaxQueue
      BY DEF OnlyDurablesEvict
    <3>1. CASE u \in lost[c]
      BY <2>1, <3>1 DEF OnlyDurablesEvict
    <3>2. CASE u \in Queued(queue[c]) \ Queued(queue'[c])
      BY <2>1, <2>4, <3>2
    <3> QED
      BY <2>2, <3>1, <3>2
  <2> QED
    BY <2>5, <2>6, <2>7
<1>2. ASSUME NEW c \in Clients, Write(c)
      PROVE  IInv'
  <2>1. /\ queue[c] # <<>> /\ queue' = [queue EXCEPT ![c] = Tail(@)]
        /\ sent' = [sent EXCEPT ![c] = Head(queue[c])] \/ UNCHANGED sent
        /\ UNCHANGED <<published, lost, version, durable>>
    BY <1>2 DEF Write, version, durable
  <2>2. queue[c] \in Seq(Nat) /\ sent[c] \in Nat /\ version \in Nat
    BY Numbering DEF Shape
  <2>3. Ordered(queue[c], sent[c], version)
    BY DEF Queues
  <2>4. /\ Tail(queue[c]) \in Seq(Nat) /\ Head(queue[c]) \in Nat
        /\ Ordered(Tail(queue[c]), sent[c], version)
        /\ Ordered(Tail(queue[c]), Head(queue[c]), version)
    BY <2>1, <2>2, <2>3, Sending
  <2>5. Shape'
    BY <2>1, <2>2, <2>4 DEF Shape
  <2>6. Queues'
    BY <2>1, <2>2, <2>4 DEF Queues, Shape
  <2> QED
    BY <2>1, <2>5, <2>6 DEF OnlyDurablesEvict
<1>3. ASSUME NEW c \in Clients, Open(c)
      PROVE  IInv'
  <2>1. /\ sent' = [sent EXCEPT ![c] = 0] /\ lost' = [lost EXCEPT ![c] = {}]
        /\ UNCHANGED <<published, queue, version, durable>>
    BY <1>3 DEF Open, version, durable
  <2> version \in Nat
    BY Numbering DEF Shape
  <2>2. Shape'
    BY <2>1 DEF Shape
  <2>3. Queues'
    BY <2>1 DEF Queues, Ordered, Shape
  <2>4. OnlyDurablesEvict'
    BY <2>1 DEF OnlyDurablesEvict, Shape
  <2> QED
    BY <2>2, <2>3, <2>4
<1>4. ASSUME NEW c \in Clients, Unregister(c)
      PROVE  IInv'
  <2>1. /\ queue' = [queue EXCEPT ![c] = <<>>]
        /\ UNCHANGED <<published, sent, lost, version, durable>>
    BY <1>4 DEF Unregister, version, durable
  <2> version \in Nat
    BY Numbering DEF Shape
  <2>2. Len(<<>>) = 0 /\ <<>> \in Seq(Nat) /\ MaxQueue \in Nat
    BY EmptySeq, StreamAssumption
  <2>3. Shape'
    BY <2>1, <2>2 DEF Shape
  <2>4. Queues'
    BY <2>1, <2>2 DEF Queues, Ordered, Shape
  <2> QED
    BY <2>1, <2>3, <2>4 DEF OnlyDurablesEvict
<1>5. CASE UNCHANGED carried
  BY <1>5 DEF carried, Shape, Queues, OnlyDurablesEvict, version, durable
<1>6. ASSUME NEW c \in Clients,
             \/ ReadSnapshot(c) \/ SendSnapshot(c) \/ OpenFails(c) \/ Polled(c) \/ Break(c)
             \/ Refused(c) \/ LogOut(c) \/ SignIn(c) \/ Call(c) \/ Expire(c) \/ ResetPassword(c)
      PROVE  UNCHANGED carried
  <2>1. CASE ReadSnapshot(c) \/ SendSnapshot(c) \/ OpenFails(c) \/ Polled(c) \/ Break(c)
    BY <2>1 DEF ReadSnapshot, SendSnapshot, OpenFails, Polled, Poll, Break, carried, server
  <2>2. CASE Refused(c) \/ Call(c)
    BY <2>2 DEF Refused, Call, Unauthorised, Leave, carried, server, vars
  <2>3. CASE LogOut(c) \/ SignIn(c) \/ Expire(c) \/ ResetPassword(c)
    BY <2>3 DEF LogOut, SignIn, Expire, ResetPassword, Leave, carried, server, vars
  <2> QED
    BY <1>6, <2>1, <2>2, <2>3
<1>7. ASSUME NEW c \in Clients, Accepted(c) \/ Closed(c)
      PROVE  Open(c) \/ Unregister(c)
  BY <1>7 DEF Accepted, Closed, Disconnect
<1>8. CASE UNCHANGED all
  BY <1>5, <1>8 DEF all, vars, server, carried
<1> QED
  BY <1>1, <1>2, <1>3, <1>4, <1>5, <1>6, <1>7, <1>8 DEF Next

\* Every state of the pages and their streams satisfies the invariant.
THEOREM Invariance == Spec => []IInv
BY Initially, Preserved, PTL DEF Spec

\* A socket carries the updates in the order they were published, each once
\* (ws.py: offer and the writer task).
THEOREM CarriesInOrder == Spec => []InOrder
<1>1. IInv => InOrder
  <2> SUFFICES ASSUME IInv, NEW c \in Clients
               PROVE  /\ Len(queue[c]) <= MaxQueue
                      /\ \A i \in 1 .. Len(queue[c]) :
                           queue[c][i] > IF i = 1 THEN sent[c] ELSE queue[c][i - 1]
    BY DEF InOrder
  <2>1. queue[c] \in Seq(Nat) /\ sent[c] \in Nat /\ Ordered(queue[c], sent[c], version)
    BY DEF IInv, Shape, Queues
  <2>2. Len(queue[c]) \in Nat /\ \A i \in 1 .. Len(queue[c]) : queue[c][i] \in Nat
    BY <2>1, ElementOfSeq
  <2>3. ASSUME NEW i \in 1 .. Len(queue[c]), i # 1
        PROVE  queue[c][i] > queue[c][i - 1]
    <3>1. i - 1 \in 1 .. Len(queue[c]) /\ i - 1 <= i
      BY <2>2, <2>3
    <3>2. queue[c][i] - queue[c][i - 1] >= i - (i - 1)
      BY <2>1, <3>1 DEF Ordered
    <3>3. queue[c][i] \in Nat /\ queue[c][i - 1] \in Nat /\ i - (i - 1) = 1
      BY <2>2, <3>1
    <3> QED
      BY <3>2, <3>3
  <2> QED
    BY <2>1, <2>2, <2>3 DEF Ordered
<1> QED
  BY <1>1, Invariance, PTL

\* A quote never evicts an update that must not be dropped; another such update
\* may, when it is a whole queue newer (ws.py: offer).
THEOREM OnlyDurables == Spec => []OnlyDurablesEvict
<1>1. IInv => OnlyDurablesEvict
  BY DEF IInv
<1> QED
  BY <1>1, Invariance, PTL

-----------------------------------------------------------------------------
\* Sign-ins.  A window holds attempts that count, and all of them that are not
\* older than Window at the last event; the clock makes that enough later.

Hits    == [no : Nat, at : Nat]
Entries == [hit : Hits, login : Logins, says : {"flood", "wait", "pass", "in"}]

OnPlace == {j \in DOMAIN log : log[j].says \in {"wait", "pass"}}

\* Attempts that passed with l since it last let a member in.
On(l) ==
  {j \in DOMAIN log :
     /\ log[j].login = l /\ log[j].says = "pass"
     /\ \A k \in j .. Len(log) : log[k].login = l => log[k].says # "in"}

\* The window w holds attempts numbered in J of the log s, and the recent ones of them.
Holds(w, J, s) ==
  /\ w \subseteq {s[j].hit : j \in J}
  /\ \A j \in J : s[Len(s)].hit.at - s[j].hit.at < Window => s[j].hit \in w

WindowShape ==
  /\ log \in Seq(Entries) /\ working \subseteq Entries
  /\ windows = [place |-> windows.place, of |-> windows.of]
  /\ windows.of = [l \in Logins |-> windows.of[l]]

InTime ==
  /\ \A j \in DOMAIN log : log[j].hit.no = j
  /\ \A i, j \in DOMAIN log : i <= j => log[i].hit.at <= log[j].hit.at

WindowInv ==
  /\ WindowShape /\ InTime
  /\ Holds(windows.place, OnPlace, log)
  /\ \A l \in Logins : Holds(windows.of[l], On(l), log)
  /\ SignInsAreLimited

\* The next event of the log.
Follows(e) ==
  /\ e \in Entries /\ e.hit.no = Len(log) + 1
  /\ Len(log) > 0 => log[Len(log)].hit.at <= e.hit.at

Lately(J, e) == {j \in J : e.hit.at - log[j].hit.at < Window}

\* The log's entries, one by one.
LEMMA Logged ==
  ASSUME WindowShape
  PROVE  /\ Len(log) \in Nat /\ DOMAIN log = 1 .. Len(log)
         /\ \A j \in 1 .. Len(log) :
              log[j] \in Entries /\ log[j].hit \in Hits /\ log[j].hit.at \in Nat /\ log[j].login \in Logins
<1>1. Len(log) \in Nat /\ DOMAIN log = 1 .. Len(log) /\ \A j \in 1 .. Len(log) : log[j] \in Entries
  BY ElementOfSeq DEF WindowShape
<1> QED
  BY <1>1 DEF Entries, Hits

\* Attempts are counted by their numbers.
LEMMA Numbered ==
  ASSUME WindowShape, InTime, NEW J \in SUBSET DOMAIN log
  PROVE  Cardinality({log[j].hit : j \in J}) = Cardinality(J)
<1> DEFINE f == [j \in J |-> log[j].hit]
<1> DEFINE T == {log[j].hit : j \in J}
<1>1. IsFiniteSet(J)
  <2>1. IsFiniteSet(DOMAIN log)
    BY Logged, FS_Interval
  <2> QED
    BY <2>1, FS_Subset
<1>2. f \in Bijection(J, T)
  <2>1. f \in [J -> T] /\ \A t \in T : \E j \in J : f[j] = t
    OBVIOUS
  <2>2. \A i, j \in J : f[i] = f[j] => i = j
    BY DEF InTime
  <2> QED
    BY <2>1, <2>2 DEF Bijection, Injection, Surjection, IsInjective
<1>3. ExistsBijection(J, T)
  BY <1>2 DEF ExistsBijection
<1> QED
  BY <1>1, <1>3, FS_Bijection

\* What a window that holds J counts, for the next event.
LEMMA RecentOf ==
  ASSUME WindowShape, InTime, NEW J \in SUBSET DOMAIN log, NEW w, Holds(w, J, log), NEW e, Follows(e)
  PROVE  /\ Recent(w, e.hit.at) = {log[j].hit : j \in Lately(J, e)}
         /\ Cardinality(Recent(w, e.hit.at)) = Cardinality(Lately(J, e))
<1>1. /\ Len(log) \in Nat /\ DOMAIN log = 1 .. Len(log) /\ \A j \in DOMAIN log : log[j].hit.at \in Nat
      /\ e.hit.at \in Nat
  BY Logged DEF Follows, Entries, Hits
<1>2. Window \in Nat
  BY WindowAssumption
<1>3. Recent(w, e.hit.at) = {log[j].hit : j \in Lately(J, e)}
  <2>1. ASSUME NEW h \in w, e.hit.at - h.at < Window
        PROVE  \E j \in Lately(J, e) : h = log[j].hit
    BY <2>1 DEF Holds, Lately
  <2>2. ASSUME NEW j \in Lately(J, e)
        PROVE  log[j].hit \in w /\ e.hit.at - log[j].hit.at < Window
    <3>1. Len(log) \in DOMAIN log /\ Len(log) > 0 /\ j \in J /\ j \in DOMAIN log
      BY <1>1 DEF Lately
    <3>2. log[Len(log)].hit.at <= e.hit.at /\ e.hit.at - log[j].hit.at < Window
      BY <3>1 DEF Follows, Lately
    <3>3. log[Len(log)].hit.at - log[j].hit.at < Window
      BY <1>1, <1>2, <3>1, <3>2
    <3> QED
      BY <3>1, <3>2, <3>3 DEF Holds
  <2> QED
    BY <2>1, <2>2 DEF Recent
<1>4. Lately(J, e) \in SUBSET DOMAIN log
  BY DEF Lately
<1> QED
  BY <1>3, <1>4, Numbered

\* What an event makes of the log.
LEMMA Entered ==
  ASSUME WindowShape, InTime, NEW e, Follows(e), log' = Append(log, e)
  PROVE  /\ log' \in Seq(Entries) /\ Len(log') = Len(log) + 1 /\ DOMAIN log' = 1 .. Len(log) + 1
         /\ \A j \in 1 .. Len(log) : log'[j] = log[j]
         /\ log'[Len(log) + 1] = e
         /\ InTime'
<1> DEFINE n == Len(log)
<1>1. n \in Nat /\ DOMAIN log = 1 .. n /\ \A j \in 1 .. n : log[j].hit.at \in Nat
  BY Logged
<1>2. /\ log' \in Seq(Entries) /\ Len(log') = n + 1 /\ DOMAIN log' = 1 .. n + 1
      /\ \A j \in 1 .. n : log'[j] = log[j]
      /\ log'[n + 1] = e
  BY <1>1 DEF WindowShape, Follows
<1>3. e.hit.at \in Nat /\ e.hit.no = n + 1
  BY DEF Follows, Entries, Hits
<1>4. \A i \in 1 .. n : log[i].hit.at <= e.hit.at
  <2> SUFFICES ASSUME NEW i \in 1 .. n PROVE log[i].hit.at <= e.hit.at
    OBVIOUS
  <2>1. n \in 1 .. n /\ i <= n /\ n > 0
    BY <1>1
  <2>2. log[i].hit.at <= log[n].hit.at /\ log[n].hit.at <= e.hit.at
    BY <1>1, <2>1 DEF InTime, Follows
  <2> QED
    BY <1>1, <1>3, <2>1, <2>2
<1>5. /\ \A j \in 1 .. n : log[j].hit.no = j
      /\ \A i, j \in 1 .. n : i <= j => log[i].hit.at <= log[j].hit.at
  BY <1>1 DEF InTime
<1>6. \A i \in 1 .. n + 1 : i \in 1 .. n \/ i = n + 1
  BY <1>1
<1>7. InTime'
  BY <1>1, <1>2, <1>3, <1>4, <1>5, <1>6 DEF InTime
<1> QED
  BY <1>2, <1>7

\* ... of the attempts that count,
LEMMA Counted ==
  ASSUME WindowShape, InTime, NEW e, Follows(e), log' = Append(log, e)
  PROVE  /\ OnPlace' = OnPlace \cup (IF e.says \in {"wait", "pass"} THEN {Len(log) + 1} ELSE {})
         /\ \A l \in Logins : On(l)' =
              IF l # e.login \/ e.says \in {"flood", "wait"} THEN On(l)
              ELSE IF e.says = "in" THEN {} ELSE On(l) \cup {Len(log) + 1}
<1> DEFINE n == Len(log)
<1>1. n \in Nat /\ DOMAIN log = 1 .. n
  BY Logged
<1>2. /\ Len(log') = n + 1 /\ DOMAIN log' = 1 .. n + 1
      /\ \A j \in 1 .. n : log'[j] = log[j]
      /\ log'[n + 1] = e
  BY Entered
<1>3. \A i \in 1 .. n + 1 : i \in 1 .. n \/ i = n + 1
  BY <1>1
<1>4. OnPlace' = OnPlace \cup (IF e.says \in {"wait", "pass"} THEN {n + 1} ELSE {})
  BY <1>1, <1>2, <1>3 DEF OnPlace
<1>5. e.says \in {"flood", "wait", "pass", "in"}
  BY DEF Follows, Entries
<1>6. ASSUME NEW l \in Logins, NEW j \in 1 .. n + 1
      PROVE  j \in On(l)' <=>
               j \in IF l # e.login \/ e.says \in {"flood", "wait"} THEN On(l)
                     ELSE IF e.says = "in" THEN {} ELSE On(l) \cup {n + 1}
  <2>1. CASE j \in 1 .. n
    <3>1. \A k \in j .. n + 1 : k \in j .. n \/ k = n + 1
      BY <1>1, <2>1
    <3>2. \A k \in j .. n : k \in 1 .. n /\ k \in j .. n + 1
      BY <1>1, <2>1
    <3>3. n + 1 \in j .. n + 1 /\ n + 1 \notin 1 .. n /\ j # n + 1
      BY <1>1, <2>1
    <3>4. j \in On(l)' <=> j \in On(l) /\ ~(e.login = l /\ e.says = "in")
      BY <1>1, <1>2, <2>1, <3>1, <3>2, <3>3 DEF On
    <3> QED
      BY <1>5, <2>1, <3>3, <3>4
  <2>2. CASE j = n + 1
    <3>1. j .. n + 1 = {n + 1} /\ n + 1 \notin 1 .. n
      BY <1>1, <2>2
    <3>2. j \in On(l)' <=> e.login = l /\ e.says = "pass"
      BY <1>2, <2>2, <3>1 DEF On
    <3>3. j \notin On(l)
      BY <1>1, <2>2, <3>1 DEF On
    <3> QED
      BY <1>5, <2>2, <3>2, <3>3
  <2> QED
    BY <1>3, <2>1, <2>2
<1>7. ASSUME NEW l \in Logins
      PROVE  On(l)' = IF l # e.login \/ e.says \in {"flood", "wait"} THEN On(l)
                      ELSE IF e.says = "in" THEN {} ELSE On(l) \cup {n + 1}
  <2>1. On(l)' \subseteq 1 .. n + 1 /\ On(l) \subseteq 1 .. n + 1 /\ n + 1 \in 1 .. n + 1
    BY <1>1, <1>2 DEF On
  <2> QED
    BY <1>6, <2>1
<1> QED
  BY <1>4, <1>7

\* ... of a window,
LEMMA HeldOn ==
  ASSUME WindowShape, InTime, NEW e, Follows(e), log' = Append(log, e),
         NEW J \in SUBSET DOMAIN log, NEW w, Holds(w, J, log)
  PROVE  /\ Holds(w, J, log')
         /\ Holds({log[j].hit : j \in Lately(J, e)}, J, log')
         /\ Holds({log[j].hit : j \in Lately(J, e)} \cup {e.hit}, J \cup {Len(log) + 1}, log')
<1> DEFINE n == Len(log)
<1> DEFINE u == {log[j].hit : j \in Lately(J, e)}
<1>1. /\ n \in Nat /\ DOMAIN log = 1 .. n /\ \A j \in 1 .. n : log[j].hit.at \in Nat
      /\ e.hit.at \in Nat /\ Window \in Nat
  BY Logged, WindowAssumption DEF Follows, Entries, Hits
<1>2. /\ Len(log') = n + 1 /\ log'[Len(log')] = e /\ log'[n + 1] = e
      /\ \A j \in J : log'[j] = log[j] /\ j \in 1 .. n
  BY <1>1, Entered
<1>3. Holds(w, J, log')
  <2>1. w \subseteq {log'[j].hit : j \in J}
    BY <1>2 DEF Holds
  <2>2. ASSUME NEW j \in J, e.hit.at - log[j].hit.at < Window
        PROVE  log[j].hit \in w
    <3>1. n \in 1 .. n /\ n > 0
      BY <1>1, <1>2
    <3>2. log[n].hit.at <= e.hit.at
      BY <3>1 DEF Follows
    <3>3. log[n].hit.at - log[j].hit.at < Window
      BY <1>1, <1>2, <2>2, <3>1, <3>2
    <3> QED
      BY <3>3 DEF Holds
  <2> QED
    BY <1>2, <2>1, <2>2 DEF Holds
<1>4. Holds(u, J, log')
  <2>1. u \subseteq {log'[j].hit : j \in J} /\ \A j \in J : e.hit.at - log'[j].hit.at < Window => log'[j].hit \in u
    BY <1>2 DEF Lately
  <2> QED
    BY <1>2, <2>1 DEF Holds
<1>5. Holds(u \cup {e.hit}, J \cup {n + 1}, log')
  <2>1. /\ u \cup {e.hit} \subseteq {log'[j].hit : j \in J \cup {n + 1}}
        /\ \A j \in J \cup {n + 1} : e.hit.at - log'[j].hit.at < Window => log'[j].hit \in u \cup {e.hit}
    BY <1>2 DEF Lately
  <2> QED
    BY <1>2, <2>1 DEF Holds
<1> QED
  BY <1>3, <1>4, <1>5

\* ... and of what the log says about the events before it, and about itself.
LEMMA LimitedOn ==
  ASSUME WindowInv, NEW e, Follows(e), log' = Append(log, e),
         e.says # "in" =>
           /\ e.says = "flood" <=> Cardinality(Lately(OnPlace, e)) >= PerPlace
           /\ e.says = "wait"  <=> e.says # "flood" /\ Cardinality(Lately(On(e.login), e)) >= PerLogin
  PROVE  SignInsAreLimited'
<1> DEFINE n == Len(log)
<1>1. n \in Nat /\ DOMAIN log = 1 .. n
  BY Logged DEF WindowInv
<1>2. /\ Len(log') = n + 1 /\ DOMAIN log' = 1 .. n + 1
      /\ \A j \in 1 .. n : log'[j] = log[j]
      /\ log'[n + 1] = e
  BY Entered DEF WindowInv
<1>3. ASSUME NEW i \in 1 .. n
      PROVE  OfPlace(i)' = OfPlace(i) /\ OfLogin(i)' = OfLogin(i)
  <2>1. \A j \in 1 .. i - 1 : j \in 1 .. n /\ \A k \in j .. i - 1 : k \in 1 .. n
    BY <1>1
  <2>2. Within(i)' = Within(i) /\ \A j \in Within(i) : j \in 1 .. i - 1
    BY <1>2, <2>1 DEF Within
  <2> QED
    BY <1>2, <2>1, <2>2 DEF OfPlace, OfLogin
<1>4. ASSUME NEW i \in Nat, i = n + 1
      PROVE  OfPlace(i)' = Lately(OnPlace, e) /\ OfLogin(i)' = Lately(On(e.login), e)
  <2>1. i - 1 = n
    BY <1>1, <1>4
  <2>2. Within(i)' = {j \in 1 .. n : e.hit.at - log[j].hit.at < Window}
    <3>1. Within(i)' = {j \in 1 .. n : log'[i].hit.at - log'[j].hit.at < Window}
      BY <2>1 DEF Within
    <3> QED
      BY <1>2, <1>4, <3>1
  <2>3. \A j \in 1 .. n : \A k \in j .. n : k \in 1 .. n
    BY <1>1
  <2>4. OfPlace(i)' = Lately(OnPlace, e)
    BY <1>1, <1>2, <2>2 DEF OfPlace, OnPlace, Lately
  <2>5. OfLogin(i)' = {j \in Within(i)' :
               /\ log[j].login = e.login /\ log[j].says = "pass"
               /\ \A k \in j .. n : log[k].login = e.login => log[k].says # "in"}
    BY <1>2, <1>4, <2>1, <2>2, <2>3 DEF OfLogin
  <2>6. Lately(On(e.login), e) = {j \in 1 .. n : /\ e.hit.at - log[j].hit.at < Window
               /\ log[j].login = e.login /\ log[j].says = "pass"
               /\ \A k \in j .. n : log[k].login = e.login => log[k].says # "in"}
    BY <1>1 DEF On, Lately
  <2> QED
    BY <2>2, <2>4, <2>5, <2>6
<1>5. \A i \in 1 .. n : log[i].says # "in" =>
        /\ log[i].says = "flood" <=> Cardinality(OfPlace(i)) >= PerPlace
        /\ log[i].says = "wait" <=> log[i].says # "flood" /\ Cardinality(OfLogin(i)) >= PerLogin
  BY <1>1 DEF WindowInv, SignInsAreLimited
<1>6. \A i \in 1 .. n + 1 : i \in Nat /\ (i \in 1 .. n \/ i = n + 1)
  BY <1>1
<1>7. \A i \in 1 .. n + 1 : log'[i].says # "in" =>
        /\ log'[i].says = "flood" <=> Cardinality(OfPlace(i)') >= PerPlace
        /\ log'[i].says = "wait" <=> log'[i].says # "flood" /\ Cardinality(OfLogin(i)') >= PerLogin
  BY <1>2, <1>3, <1>4, <1>5, <1>6
<1> QED
  BY <1>2, <1>7 DEF SignInsAreLimited

\* The stamp of the next event.
LEMMA NextHit ==
  ASSUME WindowShape, NEW after \in 0 .. Window
  PROVE  /\ Hit(after) \in Hits /\ Hit(after).no = Len(log) + 1
         /\ Len(log) > 0 => log[Len(log)].hit.at <= Hit(after).at
<1>1. Len(log) \in Nat /\ \A j \in 1 .. Len(log) : log[j].hit.at \in Nat
  BY Logged
<1>2. Len(log) > 0 => log[Len(log)].hit.at \in Nat
  BY <1>1
<1> QED
  BY <1>1, <1>2, WindowAssumption DEF Hit, Hits

\* An attempt.
LEMMA Attempted ==
  ASSUME WindowInv, NEW after \in 0 .. Window, NEW login \in Logins, Attempt(after, login)
  PROVE  WindowInv'
<1> DEFINE h == Hit(after)
<1> DEFINE p == Recent(windows.place, h.at)
<1> DEFINE m == Recent(windows.of[login], h.at)
<1>1. h \in Hits /\ h.no = Len(log) + 1 /\ (Len(log) > 0 => log[Len(log)].hit.at <= h.at)
  BY NextHit DEF WindowInv
<1>2. PICK says \in {"flood", "wait", "pass"} :
        /\ log' = Append(log, [hit |-> h, login |-> login, says |-> says])
        /\ working' \in {working, working \cup {[hit |-> h, login |-> login, says |-> says]}}
        /\ \/ /\ Cardinality(p) >= PerPlace /\ says = "flood"
              /\ windows' = [place |-> p, of |-> windows.of]
           \/ /\ ~(Cardinality(p) >= PerPlace) /\ Cardinality(m) >= PerLogin /\ says = "wait"
              /\ windows' = [place |-> p \cup {h}, of |-> [windows.of EXCEPT ![login] = m]]
           \/ /\ ~(Cardinality(p) >= PerPlace) /\ ~(Cardinality(m) >= PerLogin) /\ says = "pass"
              /\ windows' = [place |-> p \cup {h}, of |-> [windows.of EXCEPT ![login] = m \cup {h}]]
  <2>1. CASE Cardinality(p) >= PerPlace
    BY <2>1 DEF Attempt, Check
  <2>2. CASE ~(Cardinality(p) >= PerPlace) /\ Cardinality(m) >= PerLogin
    BY <2>2 DEF Attempt, Check
  <2>3. CASE ~(Cardinality(p) >= PerPlace) /\ ~(Cardinality(m) >= PerLogin)
    BY <2>3 DEF Attempt, Check
  <2> QED
    BY <2>1, <2>2, <2>3
<1> HIDE DEF h
<1> DEFINE e == [hit |-> h, login |-> login, says |-> says]
<1>3. Follows(e) /\ e \in Entries /\ e.hit = h /\ e.login = login /\ e.says = says
  BY <1>1 DEF Follows, Entries
<1>4. log' = Append(log, e) /\ working' \subseteq Entries
  BY <1>2, <1>3 DEF WindowInv, WindowShape
<1> HIDE DEF e
<1>5. /\ WindowShape /\ InTime /\ Holds(windows.place, OnPlace, log)
      /\ \A l \in Logins : Holds(windows.of[l], On(l), log) /\ On(l) \in SUBSET DOMAIN log
      /\ OnPlace \in SUBSET DOMAIN log
  BY DEF WindowInv, OnPlace, On
<1>6. /\ p = {log[j].hit : j \in Lately(OnPlace, e)}
      /\ Cardinality(p) = Cardinality(Lately(OnPlace, e))
  BY <1>3, <1>5, RecentOf
<1>7. /\ m = {log[j].hit : j \in Lately(On(login), e)}
      /\ Cardinality(m) = Cardinality(Lately(On(login), e))
  <2>1. Holds(windows.of[login], On(login), log) /\ On(login) \in SUBSET DOMAIN log
    BY <1>5
  <2>2. /\ Recent(windows.of[login], e.hit.at) = {log[j].hit : j \in Lately(On(login), e)}
        /\ Cardinality(Recent(windows.of[login], e.hit.at)) = Cardinality(Lately(On(login), e))
    BY <1>3, <1>5, <2>1, RecentOf
  <2> QED
    BY <1>3, <2>2
<1> HIDE DEF p, m
<1>8. /\ OnPlace' = OnPlace \cup (IF says \in {"wait", "pass"} THEN {Len(log) + 1} ELSE {})
      /\ \A l \in Logins : On(l)' =
           IF l # login \/ says \in {"flood", "wait"} THEN On(l) ELSE On(l) \cup {Len(log) + 1}
  BY <1>2, <1>3, <1>4, <1>5, Counted
<1>9. Holds(windows'.place, OnPlace', log')
  <2>1. /\ Holds(p, OnPlace, log')
        /\ Holds(p \cup {h}, OnPlace \cup {Len(log) + 1}, log')
    BY <1>3, <1>4, <1>5, <1>6, HeldOn
  <2>2. CASE says = "flood"
    <3>1. windows'.place = p /\ OnPlace' = OnPlace
      BY <1>2, <1>8, <2>2
    <3> QED
      BY <2>1, <3>1
  <2>3. CASE says \in {"wait", "pass"}
    <3>1. windows'.place = p \cup {h} /\ OnPlace' = OnPlace \cup {Len(log) + 1}
      BY <1>2, <1>8, <2>3
    <3> QED
      BY <2>1, <3>1
  <2> QED
    BY <2>2, <2>3
<1>10. ASSUME NEW l \in Logins PROVE Holds(windows'.of[l], On(l)', log')
  <2>1. /\ Holds(windows.of[l], On(l), log')
        /\ l = login => Holds(m, On(l), log') /\ Holds(m \cup {h}, On(l) \cup {Len(log) + 1}, log')
    <3>1. Holds(windows.of[l], On(l), log) /\ On(l) \in SUBSET DOMAIN log
      BY <1>5
    <3>2. /\ Holds(windows.of[l], On(l), log')
          /\ Holds({log[j].hit : j \in Lately(On(l), e)}, On(l), log')
          /\ Holds({log[j].hit : j \in Lately(On(l), e)} \cup {e.hit}, On(l) \cup {Len(log) + 1}, log')
      BY <1>3, <1>4, <1>5, <3>1, HeldOn
    <3> QED
      BY <1>3, <1>7, <3>2
  <2>2. /\ says = "flood" => windows'.of = windows.of
        /\ says = "wait" => windows'.of = [windows.of EXCEPT ![login] = m]
        /\ says = "pass" => windows'.of = [windows.of EXCEPT ![login] = m \cup {h}]
    <3> HIDE DEF h, p, m
    <3>1. CASE says = "flood"
      BY <1>2, <3>1
    <3>2. CASE says = "wait"
      BY <1>2, <3>2
    <3>3. CASE says = "pass"
      BY <1>2, <3>3
    <3> QED
      BY <3>1, <3>2, <3>3
  <2>3. windows.of = [k \in Logins |-> windows.of[k]]
    BY <1>5 DEF WindowShape
  <2>4. CASE l # login \/ says = "flood"
    <3>1. windows'.of[l] = windows.of[l] /\ On(l)' = On(l)
      BY <1>8, <2>2, <2>3, <2>4
    <3> QED
      BY <2>1, <3>1
  <2>5. CASE l = login /\ says = "wait"
    <3>1. windows'.of[l] = m /\ On(l)' = On(l)
      BY <1>8, <2>2, <2>3, <2>5
    <3> QED
      BY <2>1, <2>5, <3>1
  <2>6. CASE l = login /\ says = "pass"
    <3>1. windows'.of[l] = m \cup {h} /\ On(l)' = On(l) \cup {Len(log) + 1}
      BY <1>8, <2>2, <2>3, <2>6
    <3> QED
      BY <2>1, <2>6, <3>1
  <2> QED
    BY <2>4, <2>5, <2>6
<1>11. WindowShape'
  <2>1. log' \in Seq(Entries)
    BY <1>3, <1>4, <1>5, Entered
  <2>2. windows' = [place |-> windows'.place, of |-> windows'.of]
    <3>1. \E place, of : windows' = [place |-> place, of |-> of]
      <4>1. CASE says = "flood"
        BY <1>2, <4>1
      <4>2. CASE says = "wait"
        BY <1>2, <4>2
      <4>3. CASE says = "pass"
        BY <1>2, <4>3
      <4> QED
        BY <4>1, <4>2, <4>3
    <3> QED
      BY <3>1
  <2>3. windows'.of = [l \in Logins |-> windows'.of[l]]
    BY <1>2, <1>5 DEF WindowShape
  <2> QED
    BY <1>4, <2>1, <2>2, <2>3 DEF WindowShape
<1>12. InTime'
  BY <1>3, <1>4, <1>5, Entered
<1>13. SignInsAreLimited'
  <2>1. /\ says = "flood" <=> Cardinality(Lately(OnPlace, e)) >= PerPlace
        /\ says = "wait" <=> says # "flood" /\ Cardinality(Lately(On(login), e)) >= PerLogin
    BY <1>2, <1>6, <1>7
  <2> QED
    BY <1>3, <1>4, <2>1, LimitedOn
<1> QED
  BY <1>9, <1>10, <1>11, <1>12, <1>13 DEF WindowInv

\* A password that was right.
LEMMA SignedIn ==
  ASSUME WindowInv, NEW after \in 0 .. Window, NEW r \in working, SignsIn(r, after)
  PROVE  WindowInv'
<1> DEFINE h == Hit(after)
<1> DEFINE e == [hit |-> h, login |-> r.login, says |-> "in"]
<1>1. r.login \in Logins
  BY DEF WindowInv, WindowShape, Entries
<1>2. h \in Hits /\ h.no = Len(log) + 1 /\ (Len(log) > 0 => log[Len(log)].hit.at <= h.at)
  BY NextHit DEF WindowInv
<1>3. /\ log' = Append(log, e) /\ working' \subseteq working
      /\ windows' = [windows EXCEPT !.of[r.login] = {}]
  BY DEF SignsIn
<1> HIDE DEF h
<1>4. Follows(e) /\ e.hit = h /\ e.login = r.login /\ e.says = "in"
  BY <1>1, <1>2 DEF Follows, Entries
<1> HIDE DEF e
<1>5. /\ WindowShape /\ InTime /\ Holds(windows.place, OnPlace, log)
      /\ \A l \in Logins : Holds(windows.of[l], On(l), log) /\ On(l) \in SUBSET DOMAIN log
      /\ OnPlace \in SUBSET DOMAIN log
  BY DEF WindowInv, OnPlace, On
<1>6. /\ OnPlace' = OnPlace
      /\ \A l \in Logins : On(l)' = IF l = r.login THEN {} ELSE On(l)
  BY <1>3, <1>4, <1>5, Counted
<1>7. /\ windows' = [place |-> windows.place, of |-> [windows.of EXCEPT ![r.login] = {}]]
      /\ windows.of = [l \in Logins |-> windows.of[l]]
  <2>1. windows = [place |-> windows.place, of |-> windows.of]
    BY <1>5 DEF WindowShape
  <2> QED
    BY <1>3, <1>5, <2>1 DEF WindowShape
<1>8. WindowShape'
  <2>1. log' \in Seq(Entries)
    BY <1>3, <1>4, <1>5, Entered
  <2>2. windows' = [place |-> windows'.place, of |-> windows'.of]
    BY <1>7
  <2>3. windows'.of = [l \in Logins |-> windows'.of[l]]
    BY <1>7
  <2> QED
    BY <1>3, <1>5, <2>1, <2>2, <2>3 DEF WindowShape
<1>9. Holds(windows'.place, OnPlace', log')
  BY <1>3, <1>4, <1>5, <1>6, <1>7, HeldOn
<1>10. ASSUME NEW l \in Logins PROVE Holds(windows'.of[l], On(l)', log')
  <2>1. CASE l = r.login
    BY <1>6, <1>7, <2>1 DEF Holds
  <2>2. CASE l # r.login
    <3>1. windows'.of[l] = windows.of[l] /\ On(l)' = On(l)
      BY <1>6, <1>7, <2>2
    <3>2. Holds(windows.of[l], On(l), log) /\ On(l) \in SUBSET DOMAIN log
      BY <1>5
    <3>3. Holds(windows.of[l], On(l), log')
      BY <1>3, <1>4, <1>5, <3>2, HeldOn
    <3> QED
      BY <3>1, <3>3
  <2> QED
    BY <2>1, <2>2
<1>11. InTime' /\ SignInsAreLimited'
  BY <1>3, <1>4, <1>5, Entered, LimitedOn
<1> QED
  BY <1>8, <1>9, <1>10, <1>11 DEF WindowInv

\* Before the first attempt.
LEMMA NobodyTried == WindowInit => WindowInv
<1> SUFFICES ASSUME WindowInit PROVE WindowInv
  OBVIOUS
<1>1. log = <<>> /\ DOMAIN log = {}
  BY DEF WindowInit
<1>2. WindowShape /\ InTime
  BY <1>1 DEF WindowInit, WindowShape, InTime
<1>3. OnPlace = {} /\ \A l \in Logins : On(l) = {}
  BY <1>1 DEF OnPlace, On
<1>4. windows.place = {} /\ \A l \in Logins : windows.of[l] = {}
  BY DEF WindowInit
<1>5. Holds(windows.place, OnPlace, log) /\ \A l \in Logins : Holds(windows.of[l], On(l), log)
  BY <1>3, <1>4 DEF Holds
<1>6. SignInsAreLimited
  BY <1>1 DEF SignInsAreLimited
<1> QED
  BY <1>2, <1>5, <1>6 DEF WindowInv

\* Answering a request changes no window.
LEMMA Answered ==
  ASSUME WindowInv, working' \subseteq working, UNCHANGED <<windows, log>>
  PROVE  WindowInv'
<1>1. log' = log /\ windows' = windows
  OBVIOUS
<1>2. WindowShape' /\ InTime'
  BY <1>1 DEF WindowInv, WindowShape, InTime
<1>3. OnPlace' = OnPlace /\ \A l \in Logins : On(l)' = On(l)
  BY <1>1 DEF OnPlace, On
<1>4. SignInsAreLimited'
  <2>1. \A i \in DOMAIN log : OfPlace(i)' = OfPlace(i) /\ OfLogin(i)' = OfLogin(i)
    BY <1>1 DEF OfPlace, OfLogin, Within
  <2>2. \A i \in DOMAIN log : log[i].says # "in" =>
          /\ log[i].says = "flood" <=> Cardinality(OfPlace(i)) >= PerPlace
          /\ log[i].says = "wait" <=> log[i].says # "flood" /\ Cardinality(OfLogin(i)) >= PerLogin
    BY DEF WindowInv, SignInsAreLimited
  <2>3. \A i \in DOMAIN log' : log'[i].says # "in" =>
          /\ log'[i].says = "flood" <=> Cardinality(OfPlace(i)') >= PerPlace
          /\ log'[i].says = "wait" <=> log'[i].says # "flood" /\ Cardinality(OfLogin(i)') >= PerLogin
    BY <1>1, <2>1, <2>2
  <2> QED
    BY <2>3 DEF SignInsAreLimited
<1> QED
  BY <1>1, <1>2, <1>3, <1>4 DEF WindowInv

\* An attempt is turned away exactly if the log says so (check and reset in
\* security.py, called by login), whatever the windows forget, and whatever
\* requests are between their check and their answer.
THEOREM LimitsByTheLog == WindowSpec => []SignInsAreLimited
<1>1. WindowInv /\ [WindowNext]_windowVars => WindowInv'
  <2> SUFFICES ASSUME WindowInv, [WindowNext]_windowVars PROVE WindowInv'
    OBVIOUS
  <2>1. ASSUME NEW e \in working, Refuse(e) PROVE WindowInv'
    BY <2>1, Answered DEF Refuse
  <2>2. CASE UNCHANGED windowVars
    BY <2>2, Answered DEF windowVars
  <2> QED
    BY <2>1, <2>2, Attempted, SignedIn DEF WindowNext
<1>2. WindowInv => SignInsAreLimited
  BY DEF WindowInv
<1> QED
  BY NobodyTried, <1>1, <1>2, PTL DEF WindowSpec
=============================================================================
