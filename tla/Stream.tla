------------------------------- MODULE Stream -------------------------------
(***************************************************************************)
(* The live stream: the hub's bounded queues and writer tasks (app/ws.py), *)
(* the socket handler that sends a snapshot (app/routers/stream.py), and   *)
(* the terminal that reconnects and falls back to polling                  *)
(* (web/static/js/stream.js).  Terminal adds the page around it, and the   *)
(* specification.                                                          *)
(*                                                                         *)
(* An update is its number, and of a kind.  What a terminal shows is the   *)
(* number of the update its picture is as of: one for the market, one for  *)
(* the portfolio; news (and, until the next fill, orders) are shown as     *)
(* they come.  A snapshot or a poll is the number of the last update.      *)
(*                                                                         *)
(* Abstractions: one channel; a terminal reconnects after the server has   *)
(* noticed that its last socket is gone; backoff delays are arbitrary.     *)
(***************************************************************************)
EXTENDS Integers, Sequences

CONSTANTS Clients,
          Kinds,      \* the kinds of updates that are published
          MaxQueue,   \* Connection.queue maxsize
          GiveUp,     \* FALLBACK_AFTER_ATTEMPTS
          MaxUpdates, \* bound on the updates published
          MaxBreaks   \* bound on the times a socket breaks

ASSUME StreamAssumption ==
  /\ Kinds \subseteq {"quote", "state", "portfolio", "news"}
  /\ {MaxQueue, GiveUp} \subseteq Nat \ {0} /\ {MaxUpdates, MaxBreaks} \subseteq Nat

VARIABLES
  published, \* the kinds of the updates published
  stage,    \* per client: the socket handler of its connection
  link,     \* its socket: none, up or broken
  queue,    \* its queue in the hub
  writer,   \* its writer task runs
  snap,     \* the snapshot its handler read
  timer,    \* its terminal: a reconnect is scheduled
  attempts, \* ... failed reconnects in a row
  polling,  \* ... polls instead
  market,   \* ... the picture of the market it shows
  book,     \* ... the portfolio it shows
  unseen,   \* history: news that its page has not shown
  sent,     \* history: the last update written to this socket
  lost,     \* history: durable updates evicted from its queue
  breaks    \* sockets broken so far

server   == <<stage, queue, writer, snap>>
terminal == <<timer, attempts, polling>>
shown    == <<market, book, unseen>>
vars == <<published, server, link, terminal, shown, sent, lost, breaks>>

version == Len(published)

\* Prices may be dropped; the market's state, and what is addressed to a team, must not.
durable == {u \in 1 .. version : published[u] # "quote"}

Init ==
  /\ published = <<>>
  /\ stage = [c \in Clients |-> "none"] /\ link = [c \in Clients |-> "none"]
  /\ queue = [c \in Clients |-> <<>>] /\ writer = [c \in Clients |-> FALSE]
  /\ snap = [c \in Clients |-> 0]
  /\ timer = [c \in Clients |-> TRUE]      \* connect() was called
  /\ attempts = [c \in Clients |-> 0] /\ polling = [c \in Clients |-> FALSE]
  /\ market = [c \in Clients |-> 0] /\ book = [c \in Clients |-> 0]
  /\ unseen = [c \in Clients |-> {}]
  /\ sent = [c \in Clients |-> 0]
  /\ lost = [c \in Clients |-> {}]
  /\ breaks = 0

-----------------------------------------------------------------------------
\* The hub.

Registered(c) == stage[c] # "none"

\* Mutants: a durable update jumps a full queue; a quote evicts as well.
Offer_Jumps(q, u, keep) ==
  IF Len(q) < MaxQueue THEN Append(q, u) ELSE IF keep THEN <<u>> \o Tail(q) ELSE q

Offer_AlwaysEvicts(q, u, keep) ==
  IF Len(q) < MaxQueue THEN Append(q, u) ELSE Append(Tail(q), u)

\* Connection.offer: a full queue drops the update, or, when the update is
\* durable, the oldest one that is queued.
Offer(q, u, keep) ==
  IF Len(q) < MaxQueue THEN Append(q, u) ELSE IF keep THEN Append(Tail(q), u) ELSE q

Queued(q) == {q[i] : i \in 1 .. Len(q)}

Publish(kind) ==
  /\ version < MaxUpdates
  /\ published' = Append(published, kind)
  /\ queue' = [c \in Clients |-> IF Registered(c) THEN Offer(queue[c], version', kind # "quote")
                                 ELSE queue[c]]
  /\ unseen' = [c \in Clients |-> IF kind = "news" THEN unseen[c] \cup {version'} ELSE unseen[c]]
  /\ lost' = [c \in Clients |-> lost[c] \cup ((Queued(queue[c]) \ Queued(queue'[c])) \cap durable)]
  /\ UNCHANGED <<stage, writer, snap, link, terminal, market, book, sent, breaks>>

\* The terminal receives an update, and repaints what it is about.
Receive(c, u) ==
  LET repainted(picture, kinds) == IF published[u] \in kinds THEN [picture EXCEPT ![c] = u] ELSE picture
  IN  /\ market' = repainted(market, {"quote", "state"})
      /\ book' = repainted(book, {"portfolio"})
      /\ unseen' = [unseen EXCEPT ![c] = @ \ {u}]

\* It receives a snapshot, which has the market and the portfolio.
ReceiveSnapshot(c) ==
  /\ market' = [market EXCEPT ![c] = snap[c]] /\ book' = [book EXCEPT ![c] = snap[c]]
  /\ UNCHANGED unseen

\* The writer task sends the head of the queue; it returns when it cannot.
Write(c) ==
  /\ writer[c] /\ queue[c] # <<>>
  /\ queue' = [queue EXCEPT ![c] = Tail(@)]
  /\ IF link[c] = "up"
     THEN Receive(c, Head(queue[c]))
          /\ sent' = [sent EXCEPT ![c] = Head(queue[c])] /\ UNCHANGED writer
     ELSE writer' = [writer EXCEPT ![c] = FALSE] /\ UNCHANGED <<shown, sent>>
  /\ UNCHANGED <<published, stage, snap, link, terminal, lost, breaks>>

-----------------------------------------------------------------------------
\* The socket handler: register, read the snapshot, send it, then wait for
\* the socket to go away.

ReadSnapshot(c) ==
  /\ stage[c] = "accepted"
  /\ stage' = [stage EXCEPT ![c] = "snapped"]
  /\ snap' = [snap EXCEPT ![c] = version]
  /\ UNCHANGED <<published, queue, writer, link, terminal, shown, sent, lost, breaks>>

SendSnapshot(c) ==
  /\ stage[c] = "snapped" /\ link[c] = "up"
  /\ stage' = [stage EXCEPT ![c] = "reading"]
  /\ ReceiveSnapshot(c)
  /\ UNCHANGED <<published, queue, writer, snap, link, terminal, sent, lost, breaks>>

-----------------------------------------------------------------------------
\* The terminal.

\* Mutant: the attempt is counted, and no timer is set.
ScheduleReconnect_NoTimer(c) ==
  /\ attempts' = [attempts EXCEPT ![c] = IF @ < GiveUp THEN @ + 1 ELSE @]
  /\ polling' = [polling EXCEPT ![c] = @ \/ attempts'[c] >= GiveUp]
  /\ UNCHANGED timer

\* scheduleReconnect: try again, and poll once GiveUp attempts have failed.
ScheduleReconnect(c) ==
  /\ timer' = [timer EXCEPT ![c] = TRUE]
  /\ attempts' = [attempts EXCEPT ![c] = IF @ < GiveUp THEN @ + 1 ELSE @]
  /\ polling' = [polling EXCEPT ![c] = @ \/ attempts'[c] >= GiveUp]

\* The server notices a broken socket when it sends the snapshot or waits for
\* input, and unregisters the connection ...
Unregister(c) ==
  /\ link[c] = "broken" /\ stage[c] \in {"snapped", "reading"}
  /\ stage' = [stage EXCEPT ![c] = "none"] /\ link' = [link EXCEPT ![c] = "none"]
  /\ queue' = [queue EXCEPT ![c] = <<>>] /\ writer' = [writer EXCEPT ![c] = FALSE]
  /\ UNCHANGED <<published, snap, shown, sent, lost, breaks>>

\* ... and the terminal's onclose follows.
Disconnect(c) == Unregister(c) /\ ScheduleReconnect(c)

\* The timer fires and the socket opens ...
Open(c) ==
  /\ timer[c] /\ link[c] = "none"
  /\ timer' = [timer EXCEPT ![c] = FALSE]
  /\ attempts' = [attempts EXCEPT ![c] = 0] /\ polling' = [polling EXCEPT ![c] = FALSE]
  /\ link' = [link EXCEPT ![c] = "up"] /\ stage' = [stage EXCEPT ![c] = "accepted"]
  /\ writer' = [writer EXCEPT ![c] = TRUE]
  /\ sent' = [sent EXCEPT ![c] = 0]
  /\ lost' = [lost EXCEPT ![c] = {}]
  /\ UNCHANGED <<published, queue, snap, shown, breaks>>

\* ... or fails to, as often as the network likes.
OpenFails(c) ==
  /\ timer[c] /\ link[c] = "none"
  /\ ScheduleReconnect(c)
  /\ UNCHANGED <<published, server, link, shown, sent, lost, breaks>>

\* Mutant: a poll repaints the snapshot of the last connection.
Poll_Stale(c, accepted) ==
  /\ polling[c]
  /\ market' = [market EXCEPT ![c] = snap[c]]
  /\ book' = IF accepted THEN [book EXCEPT ![c] = snap[c]] ELSE book
  /\ UNCHANGED <<published, server, link, terminal, unseen, sent, lost, breaks>>

\* One pass of the poll: the market and the quotes, which anybody may read, and
\* the portfolio, which takes a token that is accepted; an answer that is not
\* ok is skipped.  Nothing else is polled.
Poll(c, accepted) ==
  /\ polling[c]
  /\ market' = [market EXCEPT ![c] = version]
  /\ book' = IF accepted THEN [book EXCEPT ![c] = version] ELSE book
  /\ UNCHANGED <<published, server, link, terminal, unseen, sent, lost, breaks>>

Break(c) ==
  /\ link[c] = "up" /\ breaks < MaxBreaks
  /\ breaks' = breaks + 1
  /\ link' = [link EXCEPT ![c] = "broken"]
  /\ UNCHANGED <<published, server, terminal, shown, sent, lost>>

-----------------------------------------------------------------------------
\* A socket carries the updates in the order they were published, each once,
\* whatever its bounded queue dropped, and whatever sockets came before it.
InOrder ==
  \A c \in Clients :
    /\ Len(queue[c]) <= MaxQueue
    /\ \A i \in 1 .. Len(queue[c]) :
         queue[c][i] > IF i = 1 THEN sent[c] ELSE queue[c][i - 1]

\* A quote never costs an update that must not be dropped its place: such an
\* update makes way only for another one, after a whole queue of newer updates.
OnlyDurablesEvict ==
  \A c \in Clients : \A u \in lost[c] : \E d \in durable : d >= u + MaxQueue

\* "Anything that must not be dropped ... will evict quotes to make room, and
\* only closes the connection if it still cannot fit" (ws.py): no such update
\* is dropped on a socket that stays.  It does not hold: once the quotes of a
\* full queue are gone, or behind it, the oldest update goes.
DurablesAreKept == \A c \in Clients : lost[c] = {}

\* "Every reconnect receives a fresh snapshot as its first message, so there
\* is no partial state to reconcile" (stream.js): a terminal that is connected,
\* and has received its snapshot and all that was queued, shows everything.  It
\* does not hold: the snapshot has no news.
ReconnectRepaintsAll ==
  \A c \in Clients :
    link[c] = "up" /\ stage[c] = "reading" /\ queue[c] = <<>> => unseen[c] = {}
=============================================================================
