----------------------------- MODULE ImportFile -----------------------------
(***************************************************************************)
(* What the import makes of an uploaded file: the verdict on each row      *)
(* (rows.ts) and the plan of a commit (import.service.ts).  Pure; a file   *)
(* is a sequence of rows of cells, a product row is seen through its codes.*)
(*                                                                         *)
(* Amounts are in paise, quantities in thousandths; codes and names are    *)
(* compared as the code compares them, without case, so a value stands for *)
(* its lower-case form.                                                    *)
(***************************************************************************)
EXTENDS Integers, FiniteSets, Sequences

CONSTANTS
    NoProduct,    \* no product
    NoCode,       \* an empty sku or short code
    NoUnit,       \* no unit
    WholeUnits    \* units counted in whole numbers

Blank == -1       \* an empty cell
Bad   == -2       \* a cell no number can be read from

None == [product |-> NoProduct, field |-> "none"]

-----------------------------------------------------------------------------
(* One row.                                                                *)

UnitOf(row, default) == IF row.unit = "blank" THEN default ELSE row.unit

BadQuantity(q, unit) == q = Bad \/ (unit \in WholeUnits /\ q > 0 /\ q % 1000 # 0)

\* The columns a row has errors in.  Quantities are not judged without a unit.
Errors(row, default) ==
    LET unit == UnitOf(row, default) IN
    {c \in {"name", "unit", "sellingPrice", "purchasePrice", "mrp", "openingStock",
           "lowStockThreshold"} :
        \/ c = "name" /\ ~row.named
        \/ c = "unit" /\ unit \in {NoUnit, "unknown"}
        \/ c = "sellingPrice" /\ row.selling \in {Blank, Bad}
        \/ c = "purchasePrice" /\ row.purchase = Bad
        \/ c = "mrp" /\ row.mrp = Bad
        \/ /\ c = "openingStock"
           /\ unit \notin {NoUnit, "unknown"}
           /\ BadQuantity(row.opening, unit)
        \/ /\ c = "lowStockThreshold"
           /\ unit \notin {NoUnit, "unknown"}
           /\ BadQuantity(row.low, unit)}

RowOk(row, default) == Errors(row, default) = {}

Warnings(row) ==
    {w \in {"sellingBelowCost", "sellingAboveMrp", "stockWithoutCost"} :
        \/ w = "sellingBelowCost" /\ row.purchase >= 0 /\ row.selling < row.purchase
        \/ w = "sellingAboveMrp" /\ row.mrp >= 0 /\ row.mrp < row.selling
        \/ w = "stockWithoutCost" /\ row.opening > 0 /\ row.purchase = Blank}

-----------------------------------------------------------------------------
(* The file.                                                               *)

SharesCode(a, b) == \/ a.sku # NoCode /\ a.sku = b.sku
                    \/ a.short # NoCode /\ a.short = b.short

OkLines(file, default) == {i \in DOMAIN file : RowOk(file[i], default)}

\* Lines that claim a code another good line of the file claims: all are refused.
DuplicateLines(file, default) ==
    {i \in OkLines(file, default) :
        \E j \in OkLines(file, default) \ {i} : SharesCode(file[i], file[j])}

\* The product a row collides with: by its sku, and only then by its short code.
FindClash(row, rows, live) ==
    LET bySku   == {p \in live : row.sku # NoCode /\ rows[p].sku = row.sku}
        byShort == {p \in live : row.short # NoCode /\ rows[p].short = row.short}
    IN  IF bySku # {} THEN [product |-> CHOOSE p \in bySku : TRUE, field |-> "sku"]
        ELSE IF byShort # {} THEN [product |-> CHOOSE p \in byShort : TRUE, field |-> "shortCode"]
        ELSE None

\* The verdict the shopkeeper is shown for a line.
Preview(file, default, rows, live, i) ==
    IF i \notin OkLines(file, default) \ DuplicateLines(file, default) THEN "ERROR"
    ELSE IF FindClash(file[i], rows, live) = None THEN "CREATE" ELSE "SKIP"

\* Mutant: the row gives up the other code.
WithoutCodeOther(row, field) ==
    IF field = "sku" THEN [row EXCEPT !.short = NoCode] ELSE [row EXCEPT !.sku = NoCode]

\* A row created although its code is taken gives up the code it was matched by.
WithoutCode(row, field) ==
    IF field = "sku" THEN [row EXCEPT !.sku = NoCode] ELSE [row EXCEPT !.short = NoCode]

\* Mutant: a duplicate nobody decided on is updated.
PlanUpdates(file, default, decisions, acceptWarnings, rows, live) ==
    LET taken(i) == FindClash(file[i], rows, live)
        good     == {i \in OkLines(file, default) \ DuplicateLines(file, default) :
                        acceptWarnings \/ Warnings(file[i]) = {}}
        creates  == {i \in good : taken(i) = None \/ decisions[i] = "CREATE_ANYWAY"}
    IN  [create |-> [i \in creates |-> IF taken(i) = None THEN file[i]
                                       ELSE WithoutCode(file[i], taken(i).field)],
         update |-> [i \in good \ creates |-> taken(i).product]]

\* What a commit will write: `create` maps lines to drafts, `update` lines to products.
Plan(file, default, decisions, acceptWarnings, rows, live) ==
    LET taken(i) == FindClash(file[i], rows, live)
        good     == {i \in OkLines(file, default) \ DuplicateLines(file, default) :
                        acceptWarnings \/ Warnings(file[i]) = {}}
        creates  == {i \in good : taken(i) = None \/ decisions[i] = "CREATE_ANYWAY"}
        updates  == {i \in good : taken(i) # None /\ decisions[i] = "UPDATE"}
    IN  [create |-> [i \in creates |-> IF taken(i) = None THEN file[i]
                                       ELSE WithoutCode(file[i], taken(i).field)],
         update |-> [i \in updates |-> taken(i).product]]

\* Both codes of a row are taken, and giving up one leaves the other.
BothTaken(row, rows, live) ==
    /\ \E p \in live : row.sku # NoCode /\ rows[p].sku = row.sku
    /\ \E p \in live : row.short # NoCode /\ rows[p].short = row.short
=============================================================================
