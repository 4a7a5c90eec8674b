----------------------------- MODULE CashLedger -----------------------------
(***************************************************************************)
(* What the exchange promises about a team's money: a balance that moves   *)
(* by one whole posting at a time.  A posting the exchange may refuse      *)
(* never overdraws; one it forces (a margin cover, an operator's           *)
(* adjustment) may.  TeamBook is the detailed specification.               *)
(***************************************************************************)
EXTENDS Integers

CONSTANTS Teams,     \* the teams
          Opening,   \* the opening balance
          Refusable, \* amounts of postings that pass a funds check first
          Forced     \* amounts posted whatever the balance

VARIABLE balance

Init == balance = [t \in Teams |-> Opening]

Post(t, d) == balance' = [balance EXCEPT ![t] = @ + d]

\* An order fill or a purchase: a debit only from money that is there.
Checked(t) == \E d \in Refusable : balance[t] + d >= 0 /\ Post(t, d)

\* A cover or an adjustment: always goes through.
Unchecked(t) == \E d \in Forced : Post(t, d)

Next == \E t \in Teams : Checked(t) \/ Unchecked(t)

Spec == Init /\ [][Next]_balance
=============================================================================
