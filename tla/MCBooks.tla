------------------------------ MODULE MCBooks ------------------------------
(* Small instances of the books for TLC. *)
EXTENDS Books, TLC

TwoSales == {1, 2}

\* One of each product on both bills; the first is part paid at the counter, the second has a
\* discount of one, and the rest of both goes on the khata.
Lines   == [s \in TwoSales |-> [p \in 1..2 |-> 1]]
Tender  == [s \in TwoSales |-> IF s = 1 THEN 1 ELSE 0]
TheRest == [s \in TwoSales |-> 1]

Twos == [c \in Collections |-> 2]

Alike == Permutations(Requests) \cup Permutations(Collections)
=============================================================================
