------------------------------ MODULE Terminal ------------------------------
(***************************************************************************)
(* A member's page around its live stream: the access token that requests  *)
(* and sockets present, the refresh cookie (app/security.py,               *)
(* app/routers/auth.py, web/static/js/api.js), and the login page a page   *)
(* falls back to (web/static/js/terminal.js), while tokens expire and the  *)
(* help desk resets passwords.                                             *)
(*                                                                         *)
(* A token is good, expired, or revoked: signed for an earlier             *)
(* token_version of the member.  Requests reject an expired and a revoked  *)
(* one, the socket's handshake an expired one only.                        *)
(*                                                                         *)
(* Abstractions: a page lives less long than its refresh cookie; the page  *)
(* that leaves for the login page closes its socket.                       *)
(***************************************************************************)
EXTENDS Stream

CONSTANTS Told,        \* whether a refused handshake's close code reaches the page
          MaxExpiries, \* bound on the access tokens that expire
          MaxResets    \* bound on the passwords the help desk resets

ASSUME TerminalAssumption == Told \subseteq BOOLEAN /\ {MaxExpiries, MaxResets} \subseteq Nat

VARIABLES
  page,     \* per client: "terminal" or "login"
  token,    \* the token its stream presents (stream.token)
  bearer,   \* the token its requests carry (api.token)
  cookie,   \* its refresh cookie is of the member's current token_version
  expiries, resets

session == <<page, token, bearer, cookie, expiries, resets>>
all     == <<vars, session>>

PageInit ==
  /\ Init
  /\ page = [c \in Clients |-> "terminal"]
  /\ token = [c \in Clients |-> "good"] /\ bearer = [c \in Clients |-> "good"]
  /\ cookie = [c \in Clients |-> TRUE]
  /\ expiries = 0 /\ resets = 0

-----------------------------------------------------------------------------
\* Leaving.

\* The page is replaced by the login page: its socket closes, its timers stop.
Leave(c) ==
  /\ page' = [page EXCEPT ![c] = "login"]
  /\ link' = [link EXCEPT ![c] = IF @ = "up" THEN "broken" ELSE @]
  /\ timer' = [timer EXCEPT ![c] = FALSE]
  /\ attempts' = [attempts EXCEPT ![c] = 0] /\ polling' = [polling EXCEPT ![c] = FALSE]
  /\ UNCHANGED <<published, server, shown, sent, lost, breaks>>

LogOut(c) ==
  /\ page[c] = "terminal" /\ Leave(c)
  /\ bearer' = [bearer EXCEPT ![c] = "none"]
  /\ cookie' \in {[cookie EXCEPT ![c] = FALSE], cookie}   \* the request may fail
  /\ UNCHANGED <<token, expiries, resets>>

\* The member signs in; the page that opens loads everything and connects.
SignIn(c) ==
  /\ page[c] = "login"
  /\ page' = [page EXCEPT ![c] = "terminal"] /\ cookie' = [cookie EXCEPT ![c] = TRUE]
  /\ token' = [token EXCEPT ![c] = "good"] /\ bearer' = [bearer EXCEPT ![c] = "good"]
  /\ timer' = [timer EXCEPT ![c] = TRUE]
  /\ market' = [market EXCEPT ![c] = version] /\ book' = [book EXCEPT ![c] = version]
  /\ unseen' = [unseen EXCEPT ![c] = {}]
  /\ UNCHANGED <<published, server, link, attempts, polling, sent, lost, breaks>>
  /\ UNCHANGED <<expiries, resets>>

-----------------------------------------------------------------------------
\* Tokens.

Expire(c) ==
  /\ page[c] = "terminal" /\ expiries < MaxExpiries
  /\ expiries' = expiries + 1
  /\ token' = [token EXCEPT ![c] = "expired"] /\ bearer' = [bearer EXCEPT ![c] = "expired"]
  /\ UNCHANGED <<vars, page, cookie, resets>>

\* reset_password: a new token_version.  It neither closes the socket nor
\* forgets the attempts the login window has counted.
ResetPassword(c) ==
  /\ resets < MaxResets
  /\ resets' = resets + 1
  /\ cookie' = [cookie EXCEPT ![c] = FALSE]
  /\ token' = [token EXCEPT ![c] = IF @ = "good" THEN "revoked" ELSE @]
  /\ bearer' = [bearer EXCEPT ![c] = IF @ = "good" THEN "revoked" ELSE @]
  /\ UNCHANGED <<vars, page, expiries>>

\* Mutant: the refresh does not compare versions.
Refreshes_AnyVersion(c) == TRUE

\* refresh_session.
Refreshes(c) == cookie[c]

\* A request that is answered 401: refresh and try again, or leave.  The
\* stream keeps its token.
Call(c) ==
  /\ page[c] = "terminal" /\ bearer[c] \in {"expired", "revoked"}
  /\ \/ /\ Refreshes(c)
        /\ bearer' = [bearer EXCEPT ![c] = "good"]
        /\ UNCHANGED <<vars, page>>
     \/ /\ Leave(c)
        /\ bearer' = [bearer EXCEPT ![c] = "none"]
  /\ UNCHANGED <<token, cookie, expiries, resets>>

\* "unauthorised": refresh and connect again, or leave, also when the refresh
\* does not get through.
Unauthorised(c) ==
  /\ \/ /\ Refreshes(c)
        /\ token' = [token EXCEPT ![c] = "good"] /\ bearer' = [bearer EXCEPT ![c] = "good"]
        /\ UNCHANGED <<vars, page>>
     \/ Leave(c) /\ UNCHANGED <<token, bearer>>
  /\ UNCHANGED <<cookie, expiries, resets>>

\* The handshake refuses an expired token with the code 4401.  It does so
\* before it accepts the socket, where not every server and browser passes the
\* code on; to the page the refusal is then a failure like any other.
Refused(c) ==
  /\ page[c] = "terminal" /\ timer[c] /\ link[c] = "none" /\ token[c] = "expired"
  /\ \E told \in Told :
       IF told THEN Unauthorised(c)
       ELSE /\ ScheduleReconnect(c)
            /\ UNCHANGED <<published, server, link, shown, sent, lost, breaks, session>>

-----------------------------------------------------------------------------
\* The stream's steps, on a page.

Accepted(c) == token[c] # "expired" /\ Open(c) /\ UNCHANGED session

\* A poll carries the token of the stream, which only "unauthorised" renews.
Polled(c) == Poll(c, token[c] = "good") /\ UNCHANGED session

Closed(c) ==
  /\ IF page[c] = "terminal" THEN Disconnect(c) ELSE Unregister(c) /\ UNCHANGED terminal
  /\ UNCHANGED session

Next ==
  \/ \E kind \in Kinds : Publish(kind) /\ UNCHANGED session
  \/ \E c \in Clients :
       \/ (Write(c) \/ ReadSnapshot(c) \/ SendSnapshot(c)) /\ UNCHANGED session
       \/ (OpenFails(c) \/ Break(c)) /\ UNCHANGED session
       \/ Polled(c) \/ Accepted(c) \/ Refused(c) \/ Closed(c)
       \/ LogOut(c) \/ SignIn(c) \/ Call(c)
       \/ Expire(c) \/ ResetPassword(c)

Spec == PageInit /\ [][Next]_all

\* Tasks that can run do; a timer fires, but its attempt may fail every time (a
\* failure of a terminal that polls already changes nothing here); a terminal
\* that polls keeps polling; a page that is connected or polls asks for the
\* leaderboard every twenty seconds.  Nobody has to sign in.
Fairness ==
  \A c \in Clients :
    /\ WF_all((ReadSnapshot(c) \/ SendSnapshot(c)) /\ UNCHANGED session)
    /\ WF_all(Write(c) /\ UNCHANGED session)
    /\ WF_all(Closed(c))
    /\ WF_all(~polling[c] /\ (Accepted(c) \/ Refused(c) \/ (OpenFails(c) /\ UNCHANGED session)))
    /\ WF_all(Polled(c))
    /\ WF_all((link[c] = "up" \/ polling[c]) /\ Call(c))

FairSpec == Spec /\ Fairness

-----------------------------------------------------------------------------
\* A terminal that lost its socket is connected again, polls, or asks its
\* member to sign in, in the end (stream.js: "keeps trying";
\* docs/architecture.md: "After three failed reconnects the client polls").
BackOrPolling ==
  \A c \in Clients : link[c] = "broken" ~> link[c] = "up" \/ polling[c] \/ page[c] = "login"

\* A terminal that polls catches up with the market, and with its portfolio as
\* long as its stream's token is accepted.
PollingCatchesUp ==
  \A c \in Clients : \A v \in 1 .. MaxUpdates :
    (polling[c] /\ version = v)
      ~> (\/ market[c] >= v /\ (book[c] >= v \/ token[c] # "good")
          \/ link[c] = "up" \/ page[c] = "login")

\* "If WebSockets turn out to be unavailable here, the terminal keeps working on
\* REST polling" (terminal.js): its portfolio catches up whatever its token.  It
\* does not hold: an expired one is refused, and the poll skips the refusal.
PortfolioCatchesUp ==
  \A c \in Clients : \A v \in 1 .. MaxUpdates :
    (polling[c] /\ version = v) ~> (book[c] >= v \/ link[c] = "up" \/ page[c] = "login")

\* A reset password ends the sessions of before (runbook.md: it "signs out
\* their old sessions"; not at once, since a live socket stays): the
\* terminal comes to the login page, whether it is connected, polls, or has
\* let its token expire.
ResetSignsOut == \A c \in Clients : ~cookie[c] ~> page[c] = "login"
=============================================================================
