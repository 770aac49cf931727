-------------------------------- MODULE MCBill --------------------------------
(***************************************************************************)
(* One bill over two products, with lines that do not divide evenly.       *)
(***************************************************************************)
EXTENDS Bill, TLC

Line(price, qty, discount) == [price |-> price, qty |-> qty, discount |-> discount]

\* A third of 161 paise, which do not divide by three; two lines, one of half a paisa too much;
\* a line whose product sells below zero.
MCCarts == {"p1" :> Line(67, 3000, 40),
            "p1" :> Line(4453, 1500, 0) @@ "p2" :> Line(1930, 1000, 0),
            "p2" :> Line(151, 1500, 0)}

MCReceipts == {[qty |-> 2000, cost |-> 50], [qty |-> 3000, cost |-> 81]}
=============================================================================
