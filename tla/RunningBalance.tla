--------------------------- MODULE RunningBalance ---------------------------
(***************************************************************************)
(* What a khata and a stock card promise: entries are only ever appended,  *)
(* each is stamped with the balance it leaves, and the balance kept beside *)
(* them is the stamp of the last one.                                      *)
(***************************************************************************)
EXTENDS Integers, Sequences

CONSTANT Accounts

VARIABLES
  balance,   \* the balance row of each account
  log        \* its entries, in the order they were written

Entry == [amount : Int, after : Int]

Init ==
  /\ balance = [a \in Accounts |-> 0]
  /\ log = [a \in Accounts |-> <<>>]

Last(s) == s[Len(s)]

\* One more entry, stamped with the balance it makes of the one before.
Extend(a) ==
  /\ log'[a] # <<>>
  /\ log'[a] = Append(log[a], Last(log'[a]))
  /\ Last(log'[a]).after = balance[a] + Last(log'[a]).amount
  /\ balance'[a] = Last(log'[a]).after

\* One transaction may post to several accounts.
Next ==
  /\ DOMAIN balance' = Accounts /\ DOMAIN log' = Accounts
  /\ \A a \in Accounts : (balance'[a] = balance[a] /\ log'[a] = log[a]) \/ Extend(a)

Spec == Init /\ [][Next]_<<balance, log>>
=============================================================================
