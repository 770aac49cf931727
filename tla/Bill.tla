--------------------------------- MODULE Bill ---------------------------------
(***************************************************************************)
(* The money of one bill from the counter to its last return: rung up on a *)
(* device without a connection (recordSale), sent and checked by the       *)
(* schema, computed again and stored by the server (SalesService.create),  *)
(* brought back line by line (ReturnsService.create); and the average cost *)
(* of the stock it moves (InventoryService).                               *)
(*                                                                         *)
(* The device computes with the settings it knows, the server with those   *)
(* of the moment the bill arrives.  Every request runs alone: what happens *)
(* when requests overlap is in Books.                                      *)
(***************************************************************************)
EXTENDS Money, FiniteSets

CONSTANTS
    Bills,
    Products,
    Carts,          \* what people buy: [price, qty, discount], by product
    Discounts,      \* discounts on a whole bill
    StartHours,     \* hours the shop's day may start at
    Times,          \* hours at which bills are rung up
    Portions,       \* quantities brought back, 0 for none
    MaxNamed,       \* bound: how often one request names one line
    Receipts,       \* goods received: [qty, cost]
    MaxEvents       \* bound: receipts, returns and changes of the settings, together

ASSUME CartsAssumption ==
    \A cart \in Carts :
        /\ DOMAIN cart \subseteq Products /\ IsFiniteSet(DOMAIN cart)
        /\ \A p \in DOMAIN cart : /\ cart[p] \in [price : Nat, qty : Nat \ {0}, discount : Nat]
                                  /\ ItemTotal(cart[p]) >= 0

ASSUME QuantitiesAssumption ==
    /\ Discounts \subseteq Nat
    /\ Portions \subseteq Nat
    /\ Receipts \subseteq [qty : Nat \ {0}, cost : Nat]
    /\ MaxNamed \in Nat

VARIABLES
    settings,       \* the shop's: [policy, startHour]
    known,          \* those the device computes with
    bill,           \* bills, as printed, as stored and as brought back
    stock,          \* quantity and average cost, by product
    costs,          \* what a unit came in at, by product
    events          \* receipts, returns and changes so far

vars == <<settings, known, bill, stock, costs, events>>

NoBill == [state |-> "none"]

\* A shop that changed nothing, and a device that was told nothing.
Defaults == [policy |-> 0, startHour |-> 0]

Init ==
    /\ settings = Defaults
    /\ known = Defaults
    /\ bill = [b \in Bills |-> NoBill]
    /\ stock = [p \in Products |-> [qty |-> 0, cost |-> 0]]
    /\ costs = [p \in Products |-> {}]
    /\ events = 0

Event == events < MaxEvents /\ events' = events + 1

\* ShopsService.updateSettings.
ChangeSettings(policy, startHour) ==
    /\ Event
    /\ settings' = [policy |-> policy, startHour |-> startHour]
    /\ UNCHANGED <<known, bill, stock, costs>>

\* The device is told the settings.
LearnSettings ==
    /\ known' = settings
    /\ UNCHANGED <<settings, bill, stock, costs, events>>

\* Goods with a price: an adjustment or an opening stock with a cost.
Receive(p, r) ==
    /\ Event
    /\ stock' = [stock EXCEPT ![p] = [qty  |-> @.qty + r.qty,
                                      cost |-> ApplyInboundCost(@, r.qty, r.cost)]]
    /\ costs' = [costs EXCEPT ![p] = @ \cup {r.cost}]
    /\ UNCHANGED <<settings, known, bill>>

\* Goods without a price - a count corrected, an opening stock nobody knows the cost of - do not
\* move the average: they come in at what it is, which is 0 before any price is known.
ReceiveUnpriced(p, r) ==
    /\ Event
    /\ stock' = [stock EXCEPT ![p].qty = @ + r.qty]
    /\ costs' = [costs EXCEPT ![p] = @ \cup {stock[p].cost}]
    /\ UNCHANGED <<settings, known, bill>>

-----------------------------------------------------------------------------
(* The sale.                                                               *)

\* Nothing, a part, or the whole of the bill.
Tenders(total) == {0, total \div 2, total}

\* What a side writes down, computed with its settings.
Written(cart, discount, at, paid, with) ==
    LET t == BillTotals(cart, discount, with.policy) IN
    [subtotal |-> t.subtotal, adjustment |-> t.adjustment, total |-> t.total,
     credit   |-> t.total - paid,
     day      |-> BusinessDay(at, with.startHour)]

\* Neither side takes more than the bill, or credit that nobody owes.
Payable(w, customer) == w.credit >= 0 /\ (w.credit > 0 => customer)

Rung(b, cart, discount, at, paid, customer, with) ==
    LET w == Written(cart, discount, at, paid, with) IN
    /\ bill[b] = NoBill
    /\ Payable(w, customer)
    /\ bill' = [bill EXCEPT ![b] =
          [state |-> "queued", cart |-> cart, discount |-> discount, at |-> at, paid |-> paid,
           customer |-> customer, printed |-> w, by |-> known]]
    /\ UNCHANGED <<settings, known, stock, costs, events>>

\* Mutant: the device never rounds.
RingUpPlain(b, cart, discount, at, paid, customer) ==
    Rung(b, cart, discount, at, paid, customer, [known EXCEPT !.policy = 0])

\* recordSale on the device.
RingUp(b, cart, discount, at, paid, customer) ==
    Rung(b, cart, discount, at, paid, customer, known)

\* By how much the schema finds a walk-in's payment short, in thousandths of a paisa.  It
\* computes in floating point, so at zero it may say either.
Short(x) == IF x.customer THEN -1
            ELSE Exact(x.cart, x.discount) - MilliPerUnit * (x.paid + 1)

\* What the server makes of it.
Recomputed(x) == Written(x.cart, x.discount, x.at, x.paid, settings)

\* The schema, an overpayment, credit without a customer: the bill is refused for good.
Refuse(b) ==
    /\ bill[b].state = "queued"
    /\ Short(bill[b]) >= 0 \/ ~Payable(Recomputed(bill[b]), bill[b].customer)
    /\ bill' = [bill EXCEPT ![b] = [state |-> "refused", cart |-> @.cart, discount |-> @.discount,
                                    paid |-> @.paid, customer |-> @.customer,
                                    printed |-> @.printed, by |-> @.by, with |-> settings]]
    /\ UNCHANGED <<settings, known, stock, costs, events>>

\* The bill and its items are stored, and the goods leave the stock, below zero if need be.
Store(b) ==
    LET x == bill[b] IN
    /\ x.state = "queued"
    /\ Short(x) <= 0 /\ Payable(Recomputed(x), x.customer)
    /\ bill' = [bill EXCEPT ![b] =
          [state |-> "stored", cart |-> x.cart, discount |-> x.discount, paid |-> x.paid,
           customer |-> x.customer, printed |-> x.printed, by |-> x.by, with |-> settings,
           sale |-> Recomputed(x),
           back |-> [p \in DOMAIN x.cart |-> [qty |-> 0, paise |-> 0, times |-> 0]],
           twice |-> {}, cash |-> 0]]
    /\ stock' = [p \in Products |->
          IF p \in DOMAIN x.cart THEN [stock[p] EXCEPT !.qty = @ - x.cart[p].qty] ELSE stock[p]]
    /\ UNCHANGED <<settings, known, costs, events>>

-----------------------------------------------------------------------------
(* The return.                                                             *)

\* A request may name a line more than once; every naming is rounded by itself.
Namings == 1..MaxNamed

Brought(line, parts, tie) ==
    [qty   |-> SumFunction(parts),
     paise |-> SumFunction([i \in Namings |-> Refund(line, parts[i], tie)]),
     times |-> SumFunction([i \in Namings |-> IF parts[i] > 0 THEN 1 ELSE 0])]

NamedTwice(parts) == \E i, j \in Namings : i # j /\ parts[i] > 0 /\ parts[j] > 0

\* Each naming is held against what is left of the line after earlier returns, not against the
\* other namings of this one.  Credit comes back as the bill was issued, cash is at most the
\* rest; the goods go back into the stock at its average.
Return(b, wanted, tie, inCash) ==
    LET x       == bill[b]
        lines   == {p \in DOMAIN x.cart : \E i \in Namings : wanted[p][i] > 0}
        brought == [p \in lines |-> Brought(x.cart[p], wanted[p], tie)]
        total   == SumFunction([p \in lines |-> brought[p].paise])
        maxCash == total - (IF x.sale.credit < total THEN x.sale.credit ELSE total)
        cash    == IF inCash THEN maxCash ELSE 0
    IN  /\ Event
        /\ lines # {}
        /\ \A p \in lines, i \in Namings :
              wanted[p][i] > 0 => /\ wanted[p][i] <= x.cart[p].qty - x.back[p].qty
                                 /\ Refund(x.cart[p], wanted[p][i], tie) >= 0
        /\ total > cash => x.customer
        /\ bill' = [bill EXCEPT
              ![b].back = [p \in DOMAIN x.cart |->
                  IF p \in lines
                  THEN [qty   |-> @[p].qty + brought[p].qty,
                        paise |-> @[p].paise + brought[p].paise,
                        times |-> @[p].times + brought[p].times]
                  ELSE @[p]],
              ![b].twice = @ \cup {p \in lines : NamedTwice(wanted[p])},
              ![b].cash = @ + cash]
        /\ stock' = [p \in Products |->
              IF p \in lines THEN [stock[p] EXCEPT !.qty = @ + brought[p].qty] ELSE stock[p]]
        /\ costs' = [p \in Products |->
              IF p \in lines THEN costs[p] \cup {stock[p].cost} ELSE costs[p]]
        /\ UNCHANGED <<settings, known>>

-----------------------------------------------------------------------------
Next ==
    \/ \E policy \in RoundingPolicies, startHour \in StartHours :
          ChangeSettings(policy, startHour)
    \/ LearnSettings
    \/ \E p \in Products, r \in Receipts : Receive(p, r) \/ ReceiveUnpriced(p, r)
    \/ \E b \in Bills :
          \/ \E cart \in Carts, discount \in Discounts, at \in Times, customer \in BOOLEAN :
             \E paid \in Tenders(BillTotals(cart, discount, known.policy).total) :
                RingUp(b, cart, discount, at, paid, customer)
          \/ Refuse(b)
          \/ Store(b)
          \/ /\ bill[b].state = "stored"
             /\ \E wanted \in [DOMAIN bill[b].cart -> [Namings -> Portions]],
                   tie \in {0, 1}, inCash \in BOOLEAN : Return(b, wanted, tie, inCash)

Spec == Init /\ [][Next]_vars

-----------------------------------------------------------------------------
(* Properties.                                                             *)

Stored == {b \in Bills : bill[b].state = "stored"}

\* What the server stores is what the device printed, as long as both computed with the same
\* settings: the bill in the customer's hand never changes, and its items add up to it.
StoredAsPrinted ==
    \A b \in Stored :
        LET x == bill[b] IN
        /\ x.with = x.by => x.sale = x.printed
        /\ x.sale.subtotal = SumFunction([p \in DOMAIN x.cart |-> ItemTotal(x.cart[p])])

\* And only one bill printed under the server's settings is refused: that of a walk-in who paid
\* it in full, when rounding made it cheaper than its exact sum by a paisa or more.
PrintedIsStored ==
    /\ StoredAsPrinted
    /\ \A b \in Bills :
          LET x == bill[b] IN
          x.state = "refused" /\ x.with = x.by =>
              /\ ~x.customer /\ x.paid = x.printed.total
              /\ Exact(x.cart, x.discount) >= MilliPerUnit * (x.printed.total + 1)

\* However many parts a line comes back in, and however often a request names it, what was paid
\* for it is the value of what came back to within half a paisa a time; and no more comes back
\* than was sold, unless one request named the line twice (neither naming counts the other).
LineRefundsFollowTheGoods ==
    \A b \in Stored : \A p \in DOMAIN bill[b].cart :
        LET sold == bill[b].cart[p].qty
            gap  == 2 * (bill[b].back[p].paise * sold
                         - ItemTotal(bill[b].cart[p]) * bill[b].back[p].qty)
        IN  /\ p \notin bill[b].twice => bill[b].back[p].qty <= sold
            /\ gap <= bill[b].back[p].times * sold
            /\ -gap <= bill[b].back[p].times * sold

\* And where no line was named twice, the cash handed out is at most what was paid, what the
\* discount and the rounding took off the bill (lines come back at their own value), and the
\* same half paise.
RefundsWithinBill ==
    /\ LineRefundsFollowTheGoods
    /\ \A b \in Stored :
          LET x     == bill[b]
              spare == x.paid + (x.sale.subtotal - x.sale.total)
              times == SumFunction([p \in DOMAIN x.cart |-> x.back[p].times])
          IN  x.twice = {} => 2 * x.cash <= 2 * (IF spare < 0 THEN 0 ELSE spare) + times

\* The average cost of a product is never below the lowest nor above the highest cost its goods
\* came in at, however far its stock went below zero in between.
CostWithinPaid ==
    \A p \in Products :
        IF costs[p] = {} THEN stock[p].cost = 0 /\ stock[p].qty <= 0
        ELSE /\ \E c \in costs[p] : c <= stock[p].cost
             /\ \E c \in costs[p] : stock[p].cost <= c
=============================================================================
