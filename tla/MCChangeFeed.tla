---------------------------- MODULE MCChangeFeed ----------------------------
(* Small instances of the change feed for TLC. *)
EXTENDS ChangeFeed

\* Writers that log different kinds of row are told apart by `entity` alone.
OneKind  == {"product"}
TwoKinds == {"product", "customer_balance"}
=============================================================================
