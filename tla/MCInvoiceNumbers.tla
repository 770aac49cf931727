-------------------------- MODULE MCInvoiceNumbers --------------------------
(* Small instances of the invoice numbers for TLC. *)
EXTENDS InvoiceNumbers, TLC

\* Blocks of one and two numbers, so that leases of different devices and
\* lengths follow each other.
SmallSizes == {1, 2}

\* Devices, requests and web sales are told apart by their names alone.
Alike == Permutations(Devices) \cup Permutations(Requests) \cup Permutations(Tellers)
=============================================================================
