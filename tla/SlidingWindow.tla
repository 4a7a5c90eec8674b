--------------------------- MODULE SlidingWindow ---------------------------
(***************************************************************************)
(* The sliding windows that limit sign-ins (SlidingWindow in               *)
(* app/security.py, login in app/routers/auth.py): one for the address,    *)
(* which is everybody's at the venue, and one for each login as it is      *)
(* typed, forgotten when a member gets in with it.                         *)
(*                                                                         *)
(* A request checks both windows at once, then reads the member and tests  *)
(* the password, and forgets the window when that was right; other         *)
(* requests come and go in between.  The windows know a login in lower     *)
(* case, the members' table knows it without the blanks around it as well. *)
(*                                                                         *)
(* An event of the log is [hit, login, says]: an attempt and what the      *)
(* windows said to it, or a sign-in that went through.  A hit is           *)
(* [no, at], the event's number and its time on a monotonic clock; a       *)
(* window's list of times is a set of hits.  The log is history: the code  *)
(* keeps the windows only.                                                 *)
(***************************************************************************)
EXTENDS Integers, Sequences, FiniteSets

CONSTANTS Window,   \* seconds
          PerLogin, \* login_limiter
          PerPlace, \* login_ip_limiter
          Logins,   \* what may be typed, in lower case
          Member,   \* whose login it is, without the blanks around it
          MaxEvents \* bound on the log

ASSUME WindowAssumption == {Window, PerLogin, PerPlace, MaxEvents} \subseteq Nat \ {0}

VARIABLES
  windows, \* the hits of the address and of each login
  working, \* the requests that passed the windows and have not been answered
  log      \* what happened, oldest first

windowVars == <<windows, working, log>>

WindowInit ==
  /\ windows = [place |-> {}, of |-> [l \in Logins |-> {}]]
  /\ working = {} /\ log = <<>>

\* Mutant: an attempt is still counted when the window has just passed.
Recent_Inclusive(hits, now) == {h \in hits : now - h.at <= Window}

Recent(hits, now) == {h \in hits : now - h.at < Window}

\* check: a refused attempt is not counted.
Check(hits, limit, hit) ==
  LET recent == Recent(hits, hit.at)
  IN  IF Cardinality(recent) >= limit THEN [passes |-> FALSE, hits |-> recent]
      ELSE [passes |-> TRUE, hits |-> recent \cup {hit}]

\* The next event, some time after the one before; an hour without any is like
\* a Window without any.
Hit(after) ==
  LET n == Len(log)
  IN  [no |-> n + 1, at |-> IF n = 0 THEN 0 ELSE log[n].hit.at + after]

\* A request: the address first, then the login.
Attempt(after, login) ==
  LET hit   == Hit(after)
      place == Check(windows.place, PerPlace, hit)
      mine  == Check(windows.of[login], PerLogin, hit)
      e     == [hit |-> hit, login |-> login,
                says |-> IF ~place.passes THEN "flood" ELSE IF ~mine.passes THEN "wait" ELSE "pass"]
  IN  /\ Len(log) < MaxEvents
      /\ windows' = [place |-> place.hits,
                     of |-> IF place.passes THEN [windows.of EXCEPT ![login] = mine.hits] ELSE windows.of]
      /\ working' = IF e.says = "pass" THEN working \cup {e} ELSE working
      /\ log' = Append(log, e)

\* A password that was right.
SignsIn(e, after) ==
  /\ e \in working /\ Len(log) < MaxEvents
  /\ windows' = [windows EXCEPT !.of[e.login] = {}]
  /\ working' = working \ {e}
  /\ log' = Append(log, [hit |-> Hit(after), login |-> e.login, says |-> "in"])

\* A wrong one, or no such member.
Refuse(e) ==
  /\ e \in working
  /\ working' = working \ {e}
  /\ UNCHANGED <<windows, log>>

WindowNext ==
  \/ \E after \in 0 .. Window, login \in Logins : Attempt(after, login)
  \/ \E e \in working : Refuse(e) \/ \E after \in 0 .. Window : SignsIn(e, after)

WindowSpec == WindowInit /\ [][WindowNext]_windowVars

-----------------------------------------------------------------------------
\* The events before the i-th, in the Window seconds before it.
Within(i) == {j \in 1 .. i - 1 : log[i].hit.at - log[j].hit.at < Window}

\* What counts against the i-th event: for the address, the attempts it let
\* through; for the login, those that passed since it last let a member in.
OfPlace(i) == {j \in Within(i) : log[j].says \in {"wait", "pass"}}
OfLogin(i) ==
  {j \in Within(i) :
     /\ log[j].login = log[i].login /\ log[j].says = "pass"
     /\ \A k \in j .. i - 1 : log[k].login = log[i].login => log[k].says # "in"}

\* The windows do what they say ("Wait five minutes", auth.py): an attempt is
\* turned away exactly if the address has had its fill, or if PerLogin
\* attempts with the same login passed in the Window seconds before it and
\* none has got in since, whatever requests are under way.  Being turned away
\* does not prolong the wait, and attempts with one login do not count
\* against another.
SignInsAreLimited ==
  \A i \in DOMAIN log : log[i].says # "in" =>
    /\ log[i].says = "flood" <=> Cardinality(OfPlace(i)) >= PerPlace
    /\ log[i].says = "wait"  <=> log[i].says # "flood" /\ Cardinality(OfLogin(i)) >= PerLogin

\* "Ten attempts per account in five minutes" (security.py): an attempt passes
\* only if fewer than PerLogin passed for the same member, however typed, in
\* the Window seconds before it, since the member last got in.  It does not
\* hold: each way to type a login has a window of its own.
LimitedPerAccount ==
  \A i \in DOMAIN log : log[i].says = "pass" =>
    Cardinality({j \in Within(i) :
      /\ Member[log[j].login] = Member[log[i].login] /\ log[j].says = "pass"
      /\ \A k \in j .. i - 1 : Member[log[k].login] = Member[log[i].login] => log[k].says # "in"})
      < PerLogin
=============================================================================
