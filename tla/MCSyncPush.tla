----------------------------- MODULE MCSyncPush -----------------------------
(* Small instances of the push for TLC. *)
EXTENDS SyncPush, TLC

\* Every kind of operation: a product created and edited beside a sale that
\* always fails, a sale, and an operation the server does not know.
ShopKind   == <<"create", "poison", "edit", "fact", "unknown">>
ShopEntity == <<"p", "x", "p", "s", "u">>
NoneBare   == {}

\* An edit, a sale, and an edit that names no field, for handlers that overlap.
Stock == {"p"}
RaceKind   == <<"edit", "fact", "edit">>
RaceEntity == <<"p", "s", "p">>
RaceBare   == {3}

AllHandlers == Permutations(Handlers)
=============================================================================
