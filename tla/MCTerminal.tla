----------------------------- MODULE MCTerminal -----------------------------
(***************************************************************************)
(* One member's terminal; or the attempts to sign in from one address, as  *)
(* one member whose login is typed with a blank or without one.  Neither   *)
(* has a bearing on the other, so a behaviour is of one of them: their     *)
(* states add up instead of multiplying.  Terminal's fairness speaks of    *)
(* the behaviours in which the terminal is used.                           *)
(***************************************************************************)
EXTENDS Terminal, SlidingWindow

CONSTANT c1

WithoutBlanks == [l \in {"a", " a"} |-> "a"]

MCInit == PageInit /\ WindowInit

MCNext ==
  \/ log = <<>> /\ Next /\ UNCHANGED windowVars
  \/ PageInit /\ WindowNext /\ UNCHANGED all

MCSpec == MCInit /\ [][MCNext]_<<all, windowVars>> /\ Fairness
=============================================================================
