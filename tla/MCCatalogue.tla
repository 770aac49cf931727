----------------------------- MODULE MCCatalogue -----------------------------
(***************************************************************************)
(* A small shop: one code, two units, two requests at a time.              *)
(***************************************************************************)
EXTENDS Catalogue

CONSTANTS p1, p2, p3, c1, c2, c3, r1, r2, m1, k1, n1, n2, kg, piece, noCode, noUnit, noName

Patch(fields, nulls, sku, cat) ==
    [fields |-> fields, nulls |-> nulls, sku |-> sku, short |-> noCode, category |-> cat]

\* One that names nothing, and one of what an update does not write.
MCPatches == {Patch({"category", "sellingPrice", "sku", "shortCode"}, {}, k1, c1),
              Patch({"mrp", "unitCode", "aliases", "category"}, {"category"}, noCode, c1),
              Patch({}, {}, noCode, c1)}

MCDrafts == {[sku |-> k1, short |-> noCode, unit |-> kg, opening |-> 1500]}

Line(sku, short, unit, opening, cat) ==
    [named |-> TRUE, sku |-> sku, short |-> short, unit |-> unit, selling |-> 100,
     purchase |-> Blank, mrp |-> Blank, opening |-> opening, low |-> Blank, category |-> cat]

MCFiles == <<
    <<Line(k1, k1, kg, 0, n1)>>,
    <<Line(k1, noCode, "blank", 1000, noName), Line(noCode, k1, piece, 0, noName)>>,
    <<Line(noCode, noCode, "blank", 1500, n1)>> >>

MCSymmetry == Permutations(Requests)
=============================================================================
