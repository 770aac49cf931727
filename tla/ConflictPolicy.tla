--------------------------- MODULE ConflictPolicy ---------------------------
(***************************************************************************)
(* The field-aware last-write-wins rule for an edit of a product that a    *)
(* device made offline (packages/business-logic/src/sync/conflict.ts).     *)
(*                                                                         *)
(* An edit is [fields, at, base]: the fields it names, the time on the     *)
(* device's clock, and the row version the device had seen (0 when it had  *)
(* seen none).  A row is [version, changedAt].                             *)
(***************************************************************************)
EXTENDS Integers

\* Fields where a stale overwrite costs money.
PriceFields == {"sellingPrice", "purchasePrice"}

\* Fields a device never decides; they ride along when it sends a whole row.
ServerFields == {"archivedAt", "isActive", "rowVersion", "unitCode", "shopId", "masterProduct"}

\* Fields a device may edit.
ProductPatch == {"nameEn", "nameHi", "sku", "shortCode", "category",
                 "sellingPrice", "purchasePrice", "mrp", "lowStockThreshold"}

ClientIsNewer(edit, row) == edit.at > row.changedAt

\* Why a field is refused; "none" when it is not.  The order is the code's.
Refusal(f, edit, row) ==
    CASE f \in ServerFields                                -> "SERVER_AUTHORITATIVE"
      [] f \notin ServerFields /\ ~ClientIsNewer(edit, row) -> "STALE"
      [] /\ f \notin ServerFields
         /\ ClientIsNewer(edit, row)
         /\ f \in PriceFields
         /\ edit.base # row.version                        -> "PRICE_NEEDS_CURRENT_VERSION"
      [] OTHER                                             -> "none"

\* Mutant: fields of the server's own are ignored rather than refused.
RejectedUnowned(edit, row) ==
    {f \in edit.fields \ ServerFields : Refusal(f, edit, row) # "none"}

Accepted(edit, row) == {f \in edit.fields : Refusal(f, edit, row) = "none"}
Rejected(edit, row) == {f \in edit.fields : Refusal(f, edit, row) # "none"}
=============================================================================
