-------------------------------- MODULE Money --------------------------------
(***************************************************************************)
(* How a bill adds up (money/round, arithmetic, line), what comes back for *)
(* a part of a line (returns.service), what stock cost (costing) and which *)
(* day a sale belongs to (business-date).                                  *)
(*                                                                         *)
(* Money is in paise, a quantity in thousandths of a unit, time in hours.  *)
(* A cart maps products to lines: [price, qty, discount].                  *)
(***************************************************************************)
EXTENDS Integers, Functions

MilliPerUnit == 1000

\* ROUNDING_POLICIES: NONE, NEAREST_RUPEE, NEAREST_5_RUPEES.
RoundingPolicies == {0, 100, 500}

\* Half away from zero; d is positive.
DivRound(n, d) ==
    LET magnitude == IF n < 0 THEN -n ELSE n
        rounded   == (2 * magnitude + d) \div (2 * d)
    IN  IF n < 0 THEN -rounded ELSE rounded

RoundToStep(value, step) == IF step = 0 THEN value ELSE DivRound(value, step) * step

\* computeLine: rounded once, then the discount.
NetOf(line) == DivRound(line.price * line.qty, MilliPerUnit) - line.discount

\* What is written on the row of an item, which the server and the device compute again.
ItemTotal(line) == ((line.price * line.qty + 500) \div MilliPerUnit) - line.discount

\* computeBillTotals.
BillTotals(cart, discount, policy) ==
    LET subtotal == SumFunction([p \in DOMAIN cart |-> NetOf(cart[p])])
        total    == RoundToStep(subtotal - discount, policy)
    IN  [subtotal |-> subtotal, adjustment |-> total - (subtotal - discount), total |-> total]

\* What the schema compares a payment with, in thousandths of a paisa: nothing is rounded yet.
Exact(cart, discount) ==
    SumFunction([p \in DOMAIN cart |->
        cart[p].price * cart[p].qty - MilliPerUnit * cart[p].discount]) - MilliPerUnit * discount

\* computeBusinessDate.
BusinessDay(at, startHour) == (at \div 24) - (IF at % 24 < startHour THEN 1 ELSE 0)

\* Mutant: what was charged before the discount.
RefundGross(line, qty, tie) == (2 * line.price * qty + MilliPerUnit) \div (2 * MilliPerUnit)

\* Math.round of the value of a unit times the quantity.  The value of a unit is a binary
\* fraction, so an exact half may come out on either side: tie says on which.
Refund(line, qty, tie) ==
    LET twice == 2 * ItemTotal(line) * qty + line.qty
        exact == twice \div (2 * line.qty)
    IN  IF twice % (2 * line.qty) = 0 THEN exact - tie ELSE exact

\* Mutant: stock below zero is averaged like any other.
ApplyInboundCostAny(held, qty, cost) ==
    IF held.qty + qty <= 0 THEN cost
    ELSE DivRound(held.qty * held.cost + qty * cost, held.qty + qty)

\* The average cost after a receipt; below zero there is nothing to average with.
ApplyInboundCost(held, qty, cost) ==
    IF held.qty <= 0 THEN cost
    ELSE DivRound(held.qty * held.cost + qty * cost, held.qty + qty)
=============================================================================
