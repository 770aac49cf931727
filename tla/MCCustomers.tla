---------------------------- MODULE MCCustomers ----------------------------
(* The customer beside the small books of MCBooks. *)
EXTENDS Customers, MCBooks
=============================================================================
