------------------------------ MODULE BillProofs ------------------------------
(***************************************************************************)
(* Theorems about the money of a bill, for any carts, settings, returns    *)
(* and receipts:                                                           *)
(*                                                                         *)
(*   RoundsSymmetrically   a reversal takes back exactly what was charged  *)
(*   LinesPayTheirGoods    Spec => []LineRefundsFollowTheGoods             *)
(*   PaperStaysTrue        Spec => []StoredAsPrinted                       *)
(*   PrintedBillsAreStored Spec => []PrintedIsStored                       *)
(*   RefundsStayWithinBill Spec => []RefundsWithinBill                     *)
(*   CostStaysWithinPaid   Spec => []CostWithinPaid                        *)
(*                                                                         *)
(* The argument: a rounded quotient is within half a divisor of the exact  *)
(* one (RoundNat), so an average of two costs stays between them and the   *)
(* refund of a part of a line adds at most half a paisa to the distance of *)
(* what was paid back from what came back; added up over the lines (the    *)
(* sums of NumberFacts) that bounds the cash, because once cash went out,  *)
(* it and the credit of the bill are within what came back was worth       *)
(* (CashOK).                                                               *)
(***************************************************************************)
EXTENDS Bill, NumberFacts

(* Division.                                                               *)

LEMMA DivBounds ==
    ASSUME NEW n \in Nat, NEW d \in Nat \ {0}
    PROVE  /\ n \div d \in Nat
           /\ d * (n \div d) <= n
           /\ n < d * (n \div d) + d
BY SMT

LEMMA RoundNat ==
    ASSUME NEW n \in Nat, NEW d \in Nat \ {0}
    PROVE  /\ DivRound(n, d) \in Nat
           /\ 2 * (d * DivRound(n, d)) <= 2 * n + d
           /\ 2 * n < 2 * (d * DivRound(n, d)) + d
<1> DEFINE a == 2 * n + d
           e == 2 * d
           q == a \div e
<1>1. DivRound(n, d) = q
    BY SMT DEF DivRound
<1>2. a \in Nat /\ e \in Nat \ {0}
    BY SMT
<1> HIDE DEF a, e
<1>3. q \in Nat /\ e * q <= a /\ a < e * q + e
    BY <1>2, DivBounds
<1> HIDE DEF q
<1>4. e * q = 2 * (d * q) /\ e = 2 * d /\ a = 2 * n + d
    BY <1>3, SMT DEF e, a
<1> QED
    BY <1>1, <1>3, <1>4, SMT

\* Rounding goes away from zero on both sides, so what a sale added its reversal takes away to
\* the paisa (divRoundHalfAwayFromZero).
THEOREM RoundsSymmetrically ==
    ASSUME NEW n \in Int, NEW d \in Nat \ {0}
    PROVE  DivRound(-n, d) = -DivRound(n, d)
<1> DEFINE m == IF n < 0 THEN -n ELSE n
           r == (2 * m + d) \div (2 * d)
<1>1. m \in Nat
    BY SMT
<1>2. DivRound(m, d) = r /\ r \in Nat
    BY <1>1, RoundNat DEF DivRound
<1>3. DivRound(n, d) = IF n < 0 THEN -r ELSE r
    BY DEF DivRound
<1>4. CASE n < 0
    <2>1. DivRound(-n, d) = r
        BY <1>4, <1>2, SMT
    <2> QED
        BY <2>1, <1>3, <1>4, <1>2, SMT
<1>5. CASE n = 0
    <2>1. d \div (2 * d) = 0
        <3>1. d \in Nat /\ 2 * d \in Nat \ {0}
            BY SMT
        <3>2. DivRound(0, d) \in Nat /\ 2 * (d * DivRound(0, d)) <= 2 * 0 + d
            BY RoundNat, SMT
        <3>3. DivRound(0, d) = 0
            <4> DEFINE z == DivRound(0, d)
            <4>1. z \in Nat /\ 2 * (d * z) <= d
                BY <3>2, SMT
            <4> HIDE DEF z
            <4>2. z = 0 \/ z >= 1
                BY <4>1, SMT
            <4>3. z >= 1 => d * z >= d
                BY <4>1, SMT
            <4> QED
                BY <4>1, <4>2, <4>3, SMT DEF z
        <3> QED
            BY <3>3, SMT DEF DivRound
    <2> QED
        BY <2>1, <1>5, SMT DEF DivRound
<1>6. CASE n > 0
    <2>1. -n < 0 /\ -(-n) = n /\ m = n
        BY <1>6, SMT
    <2>2. DivRound(-n, d) = -r
        BY <2>1 DEF DivRound
    <2> QED
        BY <2>2, <1>3, <1>6, SMT
<1> QED
    BY <1>4, <1>5, <1>6, SMT

-----------------------------------------------------------------------------
(* Costs.                                                                  *)

LEMMA TimesMonotone ==
    ASSUME NEW k \in Nat, NEW a \in Nat, NEW b \in Nat, a <= b
    PROVE  k * a <= k * b
BY SMT

LEMMA AverageBetween ==
    ASSUME NEW q \in Nat \ {0}, NEW i \in Nat \ {0}, NEW a \in Nat, NEW c \in Nat
    PROVE  LET r == DivRound(q * a + i * c, q + i) IN
           /\ r \in Nat
           /\ a <= r \/ c <= r
           /\ r <= a \/ r <= c
<1> DEFINE n == q * a + i * c
           d == q + i
           r == DivRound(n, d)
<1>1. n \in Nat /\ d \in Nat \ {0}
    BY SMT
<1>2. r \in Nat /\ 2 * (d * r) <= 2 * n + d /\ 2 * n < 2 * (d * r) + d
    BY <1>1, RoundNat
<1>3. \A x \in Nat : d * x = q * x + i * x
    BY SMT
<1> HIDE DEF n, d, r
<1>4. ASSUME r < a, r < c PROVE FALSE
    <2>1. q * (r + 1) <= q * a /\ i * (r + 1) <= i * c
        BY <1>2, <1>4, TimesMonotone, SMT
    <2>2. d * (r + 1) <= n
        <3> DEFINE s == r + 1
        <3>1. s \in Nat
            BY <1>2, SMT
        <3> HIDE DEF s
        <3>2. d * s = q * s + i * s
            BY <1>3, <3>1
        <3>3. q * s <= q * a /\ i * s <= i * c
            BY <2>1 DEF s
        <3>4. d * s <= n
            BY <3>1, <3>2, <3>3, SMT DEF n
        <3> QED
            BY <3>4 DEF s
    <2>3. d * (r + 1) = d * r + d
        BY <1>1, <1>2, SMT
    <2>4. d * r \in Nat
        BY <1>1, <1>2, SMT
    <2> QED
        BY <2>2, <2>3, <2>4, <1>1, <1>2, SMT
<1>5. ASSUME a < r, c < r PROVE FALSE
    <2>1. PICK s \in Nat : r = s + 1
        BY <1>2, <1>5, SMT
    <2>2. q * a <= q * s /\ i * c <= i * s
        BY <2>1, <1>5, TimesMonotone, SMT
    <2>3. n <= d * s
        BY <2>2, <1>3, SMT DEF n
    <2>4. d * r = d * s + d /\ d * s \in Nat
        BY <2>1, <1>1, SMT
    <2> QED
        BY <2>3, <2>4, <1>1, <1>2, SMT
<1> QED
    BY <1>2, <1>4, <1>5, SMT DEF n, d, r

LEMMA ReceiptBetween ==
    ASSUME NEW held \in [qty : Int, cost : Nat], NEW qty \in Nat \ {0}, NEW cost \in Nat
    PROVE  LET r == ApplyInboundCost(held, qty, cost) IN
           /\ r \in Nat
           /\ held.qty <= 0 => r = cost
           /\ r = cost \/ ((held.cost <= r \/ cost <= r) /\ (r <= held.cost \/ r <= cost))
<1>1. CASE held.qty <= 0
    BY <1>1 DEF ApplyInboundCost
<1>2. CASE ~(held.qty <= 0)
    <2>1. held.qty \in Nat \ {0} /\ held.cost \in Nat
        BY <1>2, SMT
    <2> QED
        BY <2>1, <1>2, AverageBetween DEF ApplyInboundCost
<1> QED
    BY <1>1, <1>2

-----------------------------------------------------------------------------
(* Lines.                                                                  *)

\* A refund is within half a paisa of the value of what comes back.
LEMMA RefundNear ==
    ASSUME NEW line, line.qty \in Nat \ {0}, ItemTotal(line) \in Nat,
           NEW qty \in Nat, NEW tie \in {0, 1}
    PROVE  LET r == Refund(line, qty, tie) IN
           /\ r \in Int
           /\ 2 * (r * line.qty - ItemTotal(line) * qty) <= line.qty
           /\ 2 * (ItemTotal(line) * qty - r * line.qty) <= line.qty
<1> DEFINE v == ItemTotal(line)
           sold == line.qty
           a == 2 * v * qty + sold
           e == 2 * sold
           x == a \div e
           r == Refund(line, qty, tie)
<1>1. a \in Nat /\ e \in Nat \ {0} /\ v * qty \in Nat
    BY SMT
<1>2. r = IF a % e = 0 THEN x - tie ELSE x
    BY DEF Refund
<1> HIDE DEF v, sold, a, e, r
<1>3. x \in Nat /\ e * x <= a /\ a < e * x + e
    BY <1>1, DivBounds
<1>4. a % e = 0 => e * x = a
    BY <1>1, SMT
<1> HIDE DEF x
<1>5. e * x = 2 * (x * sold) /\ e = 2 * sold /\ a = 2 * (v * qty) + sold /\ sold \in Nat
    BY <1>1, <1>3, SMT DEF e, a, sold, v
<1>6. r = x => 2 * (r * sold - v * qty) <= sold /\ 2 * (v * qty - r * sold) <= sold
    BY <1>1, <1>3, <1>5, SMT
<1>7. r = x - 1 /\ e * x = a =>
          2 * (r * sold - v * qty) <= sold /\ 2 * (v * qty - r * sold) <= sold
    <2>1. (x - 1) * sold = x * sold - sold
        BY <1>3, <1>5, SMT
    <2> QED
        BY <2>1, <1>1, <1>3, <1>5, SMT
<1>8. r = x \/ (r = x - 1 /\ e * x = a)
    BY <1>2, <1>3, <1>4, SMT
<1> QED
    BY <1>3, <1>6, <1>7, <1>8, SMT DEF v, sold, r

\* Nothing is refunded for nothing.
LEMMA RefundOfNothing ==
    ASSUME NEW line, line.qty \in Nat \ {0}, ItemTotal(line) \in Nat, NEW tie \in {0, 1}
    PROVE  Refund(line, 0, tie) = 0
<1> DEFINE sold == line.qty
<1>1. 2 * ItemTotal(line) * 0 + sold = sold
    BY SMT
<1>2. sold \div (2 * sold) = 0 /\ sold % (2 * sold) # 0
    <2>1. sold \in Nat \ {0} /\ 2 * sold \in Nat \ {0}
        BY SMT
    <2> HIDE DEF sold
    <2>2. /\ sold \div (2 * sold) \in Nat
          /\ (2 * sold) * (sold \div (2 * sold)) <= sold
        BY <2>1, DivBounds
    <2>3. sold \div (2 * sold) = 0
        <3> DEFINE z == sold \div (2 * sold)
        <3>1. z \in Nat /\ (2 * sold) * z <= sold
            BY <2>2
        <3> HIDE DEF z
        <3>2. z >= 1 => (2 * sold) * z >= 2 * sold
            BY <2>1, <3>1, SMT
        <3> QED
            BY <2>1, <3>1, <3>2, SMT DEF z
    <2>4. sold % (2 * sold) = sold
        BY <2>1, <2>3, SMT
    <2> QED
        BY <2>1, <2>3, <2>4
<1> QED
    BY <1>1, <1>2 DEF Refund

\* The two ways the value of a line is computed agree where no sign is involved.
LEMMA LinesAgree ==
    ASSUME NEW line \in [price : Nat, qty : Nat \ {0}, discount : Nat]
    PROVE  NetOf(line) = ItemTotal(line)
<1> DEFINE n == line.price * line.qty
<1>1. n \in Nat
    BY SMT
<1> HIDE DEF n
<1>2. (2 * n + 1000) \div (2 * 1000) = (n + 500) \div 1000
    BY <1>1, SMT
<1> QED
    BY <1>1, <1>2, SMT DEF n, NetOf, ItemTotal, DivRound, MilliPerUnit

-----------------------------------------------------------------------------
(* The invariant: costs are between what was paid, a bill on its way is    *)
(* what was printed, a stored one is what was computed under the settings  *)
(* of that moment, and its lines are paid back as they come back.          *)

StockOK ==
    /\ stock \in [Products -> [qty : Int, cost : Nat]]
    /\ costs \in [Products -> SUBSET Nat]

CartOf(x) == x.cart \in Carts

SettingsOK == settings.policy \in RoundingPolicies /\ known.policy \in RoundingPolicies

QueuedOK(x) ==
    /\ CartOf(x) /\ x.discount \in Discounts
    /\ x.customer \in BOOLEAN /\ x.paid \in Int
    /\ x.by.policy \in RoundingPolicies
    /\ x.printed = Written(x.cart, x.discount, x.at, x.paid, x.by)
    /\ Payable(x.printed, x.customer)

\* A bill computed twice under the same settings is refused for what its customer paid only.
RefusedOK(x) ==
    x.with = x.by =>
        /\ ~x.customer /\ x.paid = x.printed.total
        /\ Exact(x.cart, x.discount) >= MilliPerUnit * (x.printed.total + 1)

LinePaid(line, back) ==
    /\ 2 * (back.paise * line.qty - ItemTotal(line) * back.qty) <= back.times * line.qty
    /\ 2 * (ItemTotal(line) * back.qty - back.paise * line.qty) <= back.times * line.qty

ValuesOf(cart) == [p \in DOMAIN cart |-> ItemTotal(cart[p])]
PaiseOf(back) == [p \in DOMAIN back |-> back[p].paise]
TimesOf(back) == [p \in DOMAIN back |-> back[p].times]

\* Cash goes out for what the credit of the bill does not cover: once any did, it and the credit
\* are together no more than what the lines that came back were worth.
CashOK(x) ==
    /\ \A p \in DOMAIN x.cart : x.back[p].paise >= 0
    /\ x.paid \in Int /\ x.sale.total \in Int
    /\ x.sale.credit = x.sale.total - x.paid /\ x.sale.credit >= 0
    /\ x.cash \in Nat
    /\ x.cash = 0 \/ x.cash + x.sale.credit <= SumFunction(PaiseOf(x.back))

StoredOK(x) ==
    /\ CartOf(x)
    /\ x.with = x.by => x.sale = x.printed
    /\ x.sale.subtotal = SumFunction(ValuesOf(x.cart))
    /\ x.back \in [DOMAIN x.cart -> [qty : Nat, paise : Int, times : Nat]]
    /\ \A p \in DOMAIN x.cart : /\ LinePaid(x.cart[p], x.back[p])
                                /\ p \notin x.twice => x.back[p].qty <= x.cart[p].qty

BillOK ==
    /\ bill = [b \in Bills |-> bill[b]]
    /\ \A b \in Bills : /\ bill[b].state = "queued" => QueuedOK(bill[b])
                        /\ bill[b].state = "refused" => RefusedOK(bill[b])
                        /\ bill[b].state = "stored" => StoredOK(bill[b]) /\ CashOK(bill[b])

CostKept(paid, held) ==
    IF paid = {} THEN held.cost = 0 /\ held.qty <= 0
    ELSE (\E c \in paid : c <= held.cost) /\ (\E c \in paid : held.cost <= c)

BInv == SettingsOK /\ StockOK /\ CostWithinPaid /\ BillOK

LEMMA LineFacts ==
    ASSUME NEW cart \in Carts, NEW p \in DOMAIN cart
    PROVE  /\ p \in Products
           /\ cart[p] \in [price : Nat, qty : Nat \ {0}, discount : Nat]
           /\ ItemTotal(cart[p]) \in Nat
<1>1. /\ p \in Products
      /\ cart[p] \in [price : Nat, qty : Nat \ {0}, discount : Nat]
      /\ ItemTotal(cart[p]) >= 0
    BY CartsAssumption
<1>2. cart[p].price \in Nat /\ cart[p].qty \in Nat /\ cart[p].discount \in Nat
    BY <1>1
<1>3. cart[p].price * cart[p].qty \in Nat
    BY <1>2, SMT
<1>4. ItemTotal(cart[p]) \in Int
    BY <1>2, <1>3, SMT DEF ItemTotal, MilliPerUnit
<1> QED
    BY <1>1, <1>4, SMT

LEMMA DivRoundInt ==
    ASSUME NEW n \in Int, NEW d \in Nat \ {0}
    PROVE  DivRound(n, d) \in Int
<1>1. CASE n >= 0
    BY <1>1, RoundNat
<1>2. CASE n < 0
    <2>1. -n \in Nat
        BY <1>2
    <2>2. DivRound(-n, d) \in Nat
        BY <2>1, RoundNat
    <2>3. DivRound(-n, d) = -DivRound(n, d)
        BY RoundsSymmetrically
    <2>4. DivRound(-(-n), d) = -DivRound(-n, d) /\ -(-n) = n
        BY <2>1, RoundsSymmetrically
    <2> QED
        BY <2>2, <2>4
<1> QED
    BY <1>1, <1>2

\* What is added up for a bill is whole paise.
LEMMA TotalsAreInt ==
    ASSUME NEW cart \in Carts, NEW discount \in Discounts, NEW policy \in RoundingPolicies
    PROVE  /\ BillTotals(cart, discount, policy).total \in Int
           /\ Exact(cart, discount) \in Int
<1> DEFINE net  == [p \in DOMAIN cart |-> NetOf(cart[p])]
           milli == [p \in DOMAIN cart |->
                        cart[p].price * cart[p].qty - MilliPerUnit * cart[p].discount]
<1>1. discount \in Nat /\ policy \in Nat
    BY QuantitiesAssumption DEF RoundingPolicies
<1>2. IsFiniteSet(DOMAIN cart)
    BY CartsAssumption
<1>3. SumFunction(net) \in Int
    <2>1. \A p \in DOMAIN cart : net[p] \in Int
        BY LineFacts, LinesAgree
    <2> HIDE DEF net
    <2>2. DOMAIN net = DOMAIN cart
        BY DEF net
    <2> QED
        BY <1>2, <2>1, <2>2, SumInt DEF SumFunction
<1>4. SumFunction(milli) \in Int
    <2>1. ASSUME NEW p \in DOMAIN cart PROVE milli[p] \in Int
        <3>1. cart[p].price \in Nat /\ cart[p].qty \in Nat /\ cart[p].discount \in Nat
            BY LineFacts
        <3>2. cart[p].price * cart[p].qty \in Int /\ MilliPerUnit * cart[p].discount \in Int
            BY <3>1, SMT DEF MilliPerUnit
        <3> QED
            BY <3>2
    <2> HIDE DEF milli
    <2>2. DOMAIN milli = DOMAIN cart
        BY DEF milli
    <2> QED
        BY <1>2, <2>1, <2>2, SumInt DEF SumFunction
<1>5. RoundToStep(SumFunction(net) - discount, policy) \in Int
    <2> DEFINE v == SumFunction(net) - discount
    <2>1. v \in Int
        BY <1>1, <1>3
    <2> HIDE DEF v
    <2> SUFFICES RoundToStep(v, policy) \in Int
        BY DEF v
    <2>2. CASE policy = 0
        BY <2>1, <2>2 DEF RoundToStep
    <2>3. CASE policy # 0
        <3>1. DivRound(v, policy) \in Int
            BY <1>1, <2>1, <2>3, DivRoundInt
        <3>2. DivRound(v, policy) * policy \in Int
            BY <1>1, <3>1, SMT
        <3> QED
            BY <2>3, <3>2 DEF RoundToStep
    <2> QED
        BY <2>2, <2>3
<1>6. MilliPerUnit * discount \in Int
    BY <1>1, SMT DEF MilliPerUnit
<1>7. SumFunction(milli) - MilliPerUnit * discount \in Int
    BY <1>4, <1>6
<1> QED
    BY <1>5, <1>7 DEF BillTotals, Exact

LEMMA WrittenIsInt ==
    ASSUME NEW cart \in Carts, NEW discount \in Discounts, NEW at, NEW paid \in Int, NEW with,
           with.policy \in RoundingPolicies
    PROVE  LET w == Written(cart, discount, at, paid, with) IN
           w.total \in Int /\ w.credit = w.total - paid
BY TotalsAreInt DEF Written

LEMMA StoredLine ==
    ASSUME NEW x, StoredOK(x), NEW p \in DOMAIN x.cart
    PROVE  /\ x.cart[p].qty \in Nat \ {0} /\ ItemTotal(x.cart[p]) \in Nat
           /\ x.back[p] \in [qty : Nat, paise : Int, times : Nat]
           /\ LinePaid(x.cart[p], x.back[p])
           /\ p \notin x.twice => x.back[p].qty <= x.cart[p].qty
<1>1. x.cart \in Carts
    BY DEF StoredOK, CartOf
<1>2. x.cart[p].qty \in Nat \ {0} /\ ItemTotal(x.cart[p]) \in Nat
    BY <1>1, LineFacts
<1>3. /\ x.back[p] \in [qty : Nat, paise : Int, times : Nat]
      /\ LinePaid(x.cart[p], x.back[p])
      /\ p \notin x.twice => x.back[p].qty <= x.cart[p].qty
    <2>1. x.back \in [DOMAIN x.cart -> [qty : Nat, paise : Int, times : Nat]]
        BY DEF StoredOK
    <2>2. x.back[p] \in [qty : Nat, paise : Int, times : Nat]
        BY <2>1
    <2>3. LinePaid(x.cart[p], x.back[p])
        BY Zenon DEF StoredOK
    <2>4. p \notin x.twice => x.back[p].qty <= x.cart[p].qty
        BY Zenon DEF StoredOK
    <2> QED
        BY <2>2, <2>3, <2>4
<1> QED
    BY <1>2, <1>3

LEMMA InitBInv == Init => BInv
BY DEF Init, BInv, SettingsOK, Defaults, RoundingPolicies, StockOK, CostWithinPaid, BillOK, NoBill

-----------------------------------------------------------------------------
(* One lemma for each action that disturbs a part of it.                   *)

LEMMA ReceiveKeeps ==
    ASSUME BInv, NEW p \in Products, NEW r \in Receipts, Receive(p, r)
    PROVE  StockOK' /\ CostWithinPaid'
<1> DEFINE new == ApplyInboundCost(stock[p], r.qty, r.cost)
<1>1. r.qty \in Nat \ {0} /\ r.cost \in Nat
    BY QuantitiesAssumption
<1>2. stock[p] \in [qty : Int, cost : Nat] /\ costs[p] \subseteq Nat
    BY DEF BInv, StockOK
<1>3. /\ new \in Nat
      /\ stock[p].qty <= 0 => new = r.cost
      /\ new = r.cost \/ ((stock[p].cost <= new \/ r.cost <= new)
                          /\ (new <= stock[p].cost \/ new <= r.cost))
    BY <1>1, <1>2, ReceiptBetween
<1> HIDE DEF new
<1>4. /\ stock' = [stock EXCEPT ![p] = [qty |-> stock[p].qty + r.qty, cost |-> new]]
      /\ costs' = [costs EXCEPT ![p] = costs[p] \cup {r.cost}]
    BY DEF Receive, new
<1>5. StockOK'
    BY <1>1, <1>2, <1>3, <1>4 DEF BInv, StockOK
<1>6. ASSUME NEW k \in Products
      PROVE  CostKept(costs'[k], stock'[k])
    <2>1. CASE k # p
        <3>1. stock'[k] = stock[k] /\ costs'[k] = costs[k]
            BY <2>1, <1>4 DEF BInv, StockOK
        <3> QED
            BY <3>1 DEF BInv, CostWithinPaid, CostKept
    <2>2. CASE k = p
        <3>1. stock'[k].cost = new /\ costs'[k] = costs[p] \cup {r.cost}
            BY <2>2, <1>4 DEF BInv, StockOK
        <3>2. CASE costs[p] = {}
            <4>1. stock[p].qty <= 0
                BY <3>2 DEF BInv, CostWithinPaid
            <4>2. new = r.cost
                BY <4>1, <1>3
            <4>3. r.cost \in costs'[k] /\ r.cost <= r.cost
                BY <3>1, <1>1, SMT
            <4> QED
                BY <3>1, <4>2, <4>3 DEF CostKept
        <3>3. CASE costs[p] # {}
            <4>1. PICK low \in costs[p], high \in costs[p] :
                      low <= stock[p].cost /\ stock[p].cost <= high
                BY <3>3 DEF BInv, CostWithinPaid
            <4>2. low <= new \/ r.cost <= new
                BY <4>1, <1>1, <1>2, <1>3, SMT
            <4>3. new <= high \/ new <= r.cost
                BY <4>1, <1>1, <1>2, <1>3, SMT
            <4> QED
                BY <3>1, <4>1, <4>2, <4>3 DEF CostKept
        <3> QED
            BY <3>2, <3>3
    <2> QED
        BY <2>1, <2>2
<1> QED
    BY <1>5, <1>6 DEF CostWithinPaid, CostKept

\* Stock that changes by goods at the average keeps its cost between what was paid.
LEMMA AtAverageKeeps ==
    ASSUME NEW paid \in SUBSET Nat, NEW held \in [qty : Int, cost : Nat], CostKept(paid, held),
           NEW qty \in Int
    PROVE  CostKept(paid \cup {held.cost}, [held EXCEPT !.qty = qty])
<1>1. [held EXCEPT !.qty = qty].cost = held.cost
    OBVIOUS
<1>2. held.cost <= held.cost
    BY SMT
<1> QED
    BY <1>1, <1>2 DEF CostKept

LEMMA UnpricedKeeps ==
    ASSUME BInv, NEW p \in Products, NEW r \in Receipts, ReceiveUnpriced(p, r)
    PROVE  StockOK' /\ CostWithinPaid'
<1>1. r.qty \in Nat
    BY QuantitiesAssumption
<1>2. /\ stock' = [stock EXCEPT ![p].qty = stock[p].qty + r.qty]
      /\ costs' = [costs EXCEPT ![p] = costs[p] \cup {stock[p].cost}]
    BY DEF ReceiveUnpriced
<1>3. StockOK'
    BY <1>1, <1>2 DEF BInv, StockOK
<1>4. ASSUME NEW k \in Products
      PROVE  CostKept(costs'[k], stock'[k])
    <2>1. stock[k] \in [qty : Int, cost : Nat] /\ costs[k] \in SUBSET Nat /\ CostKept(costs[k], stock[k])
        BY DEF BInv, StockOK, CostWithinPaid, CostKept
    <2>2. CASE k # p
        BY <2>1, <2>2, <1>2 DEF BInv, StockOK
    <2>3. CASE k = p
        <3>1. /\ stock'[k] = [stock[k] EXCEPT !.qty = stock[k].qty + r.qty]
              /\ costs'[k] = costs[k] \cup {stock[k].cost}
            BY <2>3, <1>2 DEF BInv, StockOK
        <3>2. stock[k].qty + r.qty \in Int
            BY <2>1, <1>1
        <3> QED
            BY <3>1, <3>2, <2>1, AtAverageKeeps
    <2> QED
        BY <2>2, <2>3
<1> QED
    BY <1>3, <1>4 DEF CostWithinPaid, CostKept

LEMMA RingUpKeeps ==
    ASSUME BInv, NEW b \in Bills, NEW cart \in Carts, NEW discount \in Discounts, NEW at,
           NEW customer \in BOOLEAN,
           NEW paid \in Tenders(BillTotals(cart, discount, known.policy).total),
           RingUp(b, cart, discount, at, paid, customer)
    PROVE  BillOK'
<1> DEFINE new == [state |-> "queued", cart |-> cart, discount |-> discount, at |-> at,
                   paid |-> paid, customer |-> customer,
                   printed |-> Written(cart, discount, at, paid, known), by |-> known]
<1>1. bill' = [bill EXCEPT ![b] = new]
    BY DEF RingUp, Rung
<1>2. QueuedOK(new) /\ new.state = "queued"
    <2>1. known.policy \in RoundingPolicies
        BY DEF BInv, SettingsOK
    <2>2. BillTotals(cart, discount, known.policy).total \in Int
        BY <2>1, TotalsAreInt
    <2>3. paid \in Int
        BY <2>2, SMT DEF Tenders
    <2>4. Payable(Written(cart, discount, at, paid, known), customer)
        BY DEF RingUp, Rung
    <2> QED
        BY <2>1, <2>3, <2>4 DEF QueuedOK, CartOf
<1> HIDE DEF new
<1>3. \A k \in Bills : bill'[k] = IF k = b THEN new ELSE bill[k]
    BY <1>1 DEF BInv, BillOK
<1>4. bill' = [k \in Bills |-> bill'[k]]
    BY <1>1 DEF BInv, BillOK
<1> QED
    BY <1>2, <1>3, <1>4 DEF BInv, BillOK

LEMMA RefuseKeeps ==
    ASSUME BInv, NEW b \in Bills, Refuse(b)
    PROVE  BillOK'
<1> DEFINE x   == bill[b]
           new == [state |-> "refused", cart |-> x.cart, discount |-> x.discount,
                   paid |-> x.paid, customer |-> x.customer, printed |-> x.printed,
                   by |-> x.by, with |-> settings]
<1>1. bill' = [bill EXCEPT ![b] = new]
    BY DEF Refuse
<1>2. new.state = "refused" /\ RefusedOK(new)
    <2>1. /\ QueuedOK(x)
          /\ Short(x) >= 0 \/ ~Payable(Recomputed(x), x.customer)
        BY DEF Refuse, BInv, BillOK
    <2>2. ASSUME settings = x.by
          PROVE  /\ ~x.customer /\ x.paid = x.printed.total
                 /\ Exact(x.cart, x.discount) >= MilliPerUnit * (x.printed.total + 1)
        <3>1. Recomputed(x) = x.printed
            BY <2>1, <2>2 DEF QueuedOK, Recomputed
        <3>2. /\ Short(x) >= 0 /\ x.printed.credit >= 0
              /\ x.printed.credit > 0 => x.customer
            BY <2>1, <3>1 DEF QueuedOK, Payable
        <3>3. ~x.customer /\ Short(x) = Exact(x.cart, x.discount) - MilliPerUnit * (x.paid + 1)
            BY <3>2 DEF Short
        <3>4. /\ x.paid \in Int /\ x.printed.total \in Int
              /\ x.printed.credit = x.printed.total - x.paid
              /\ Exact(x.cart, x.discount) \in Int
            BY <2>1, WrittenIsInt, TotalsAreInt DEF QueuedOK, CartOf
        <3>5. x.paid = x.printed.total
            BY <3>2, <3>3, <3>4
        <3>6. MilliPerUnit * (x.paid + 1) \in Int
            BY <3>4, SMT DEF MilliPerUnit
        <3>7. Exact(x.cart, x.discount) >= MilliPerUnit * (x.paid + 1)
            <4> DEFINE a == Exact(x.cart, x.discount)
                       c == MilliPerUnit * (x.paid + 1)
            <4>1. a - c >= 0 /\ a \in Int /\ c \in Int
                BY <3>2, <3>3, <3>4, <3>6
            <4> HIDE DEF a, c
            <4>2. a >= c
                BY <4>1
            <4> QED
                BY <4>2 DEF a, c
        <3> QED
            BY <3>3, <3>5, <3>7
    <2> QED
        BY <2>2 DEF RefusedOK
<1> HIDE DEF new
<1>3. \A k \in Bills : bill'[k] = IF k = b THEN new ELSE bill[k]
    BY <1>1 DEF BInv, BillOK
<1>4. bill' = [k \in Bills |-> bill'[k]]
    BY <1>1 DEF BInv, BillOK
<1> QED
    BY <1>2, <1>3, <1>4 DEF BInv, BillOK

LEMMA StoreKeepsStock ==
    ASSUME BInv, NEW b \in Bills, Store(b)
    PROVE  StockOK' /\ CostWithinPaid'
<1> DEFINE cart == bill[b].cart
<1>1. cart \in Carts
    BY DEF Store, BInv, BillOK, QueuedOK, CartOf
<1>2. \A p \in DOMAIN cart : cart[p].qty \in Nat
    BY <1>1, LineFacts
<1>3. /\ stock' = [p \in Products |->
            IF p \in DOMAIN cart THEN [stock[p] EXCEPT !.qty = stock[p].qty - cart[p].qty]
            ELSE stock[p]]
      /\ costs' = costs
    BY DEF Store
<1> HIDE DEF cart
<1>4. ASSUME NEW k \in Products
      PROVE  /\ stock'[k] \in [qty : Int, cost : Nat]
             /\ CostKept(costs'[k], stock'[k])
    <2>1. stock[k] \in [qty : Int, cost : Nat] /\ CostKept(costs[k], stock[k])
        BY DEF BInv, StockOK, CostWithinPaid, CostKept
    <2>2. CASE k \in DOMAIN cart
        <3>1. stock'[k] = [stock[k] EXCEPT !.qty = stock[k].qty - cart[k].qty]
            BY <2>2, <1>3
        <3>2. /\ stock'[k] \in [qty : Int, cost : Nat]
              /\ stock'[k].cost = stock[k].cost
              /\ stock'[k].qty <= stock[k].qty
            BY <3>1, <2>1, <2>2, <1>2
        <3>3. stock[k].qty <= 0 => stock'[k].qty <= 0
            BY <3>2, <2>1, SMT
        <3> QED
            BY <3>2, <3>3, <2>1, <1>3 DEF CostKept
    <2>3. CASE k \notin DOMAIN cart
        BY <2>1, <2>3, <1>3
    <2> QED
        BY <2>2, <2>3
<1>5. StockOK'
    BY <1>3, <1>4 DEF BInv, StockOK
<1> QED
    BY <1>4, <1>5 DEF CostWithinPaid, CostKept

LEMMA StoreKeepsBill ==
    ASSUME BInv, NEW b \in Bills, Store(b)
    PROVE  BillOK'
<1> DEFINE x    == bill[b]
           cart == x.cart
           back == [p \in DOMAIN cart |-> [qty |-> 0, paise |-> 0, times |-> 0]]
           sale == Recomputed(x)
           new  == [state |-> "stored", cart |-> cart, discount |-> x.discount, paid |-> x.paid,
                    customer |-> x.customer, printed |-> x.printed, by |-> x.by,
                    with |-> settings, sale |-> sale, back |-> back, twice |-> {}, cash |-> 0]
<1>1. cart \in Carts /\ x.printed = Written(cart, x.discount, x.at, x.paid, x.by)
    BY DEF Store, BInv, BillOK, QueuedOK, CartOf
<1>2. bill' = [bill EXCEPT ![b] = new]
    BY DEF Store
<1>3. settings = x.by => sale = x.printed
    BY <1>1 DEF Recomputed
<1>4. sale.subtotal = SumFunction([p \in DOMAIN cart |-> ItemTotal(cart[p])])
    <2>1. [p \in DOMAIN cart |-> NetOf(cart[p])] = [p \in DOMAIN cart |-> ItemTotal(cart[p])]
        BY <1>1, LineFacts, LinesAgree
    <2> QED
        BY <2>1 DEF Recomputed, Written, BillTotals
<1>5. \A p \in DOMAIN cart : LinePaid(cart[p], back[p]) /\ back[p].qty <= cart[p].qty
    <2> SUFFICES ASSUME NEW p \in DOMAIN cart
                 PROVE  LinePaid(cart[p], back[p]) /\ back[p].qty <= cart[p].qty
        OBVIOUS
    <2>1. cart[p].qty \in Nat /\ ItemTotal(cart[p]) \in Nat
        BY <1>1, LineFacts
    <2>2. back[p].qty = 0 /\ back[p].paise = 0 /\ back[p].times = 0
        OBVIOUS
    <2> QED
        BY <2>1, <2>2, SMT DEF LinePaid
<1>6. StoredOK(new) /\ CashOK(new) /\ new.state = "stored"
    <2>1. back \in [DOMAIN cart -> [qty : Nat, paise : Int, times : Nat]]
        OBVIOUS
    <2>2. \A p \in DOMAIN cart : back[p].paise >= 0
        OBVIOUS
    <2>3. sale.total \in Int /\ sale.credit = sale.total - x.paid /\ x.paid \in Int
        <3>1. settings.policy \in RoundingPolicies /\ QueuedOK(x)
            BY DEF Store, BInv, BillOK, SettingsOK
        <3> QED
            BY <3>1, WrittenIsInt DEF QueuedOK, CartOf, Recomputed
    <2>4. sale.credit >= 0
        BY DEF Store, Payable
    <2> HIDE DEF sale, back, cart
    <2>5. StoredOK(new)
        BY <2>1, <1>1, <1>3, <1>4, <1>5 DEF StoredOK, CartOf, ValuesOf
    <2>6. CashOK(new)
        BY <2>2, <2>3, <2>4 DEF CashOK
    <2> QED
        BY <2>5, <2>6
<1> HIDE DEF new
<1>7. \A k \in Bills : bill'[k] = IF k = b THEN new ELSE bill[k]
    BY <1>2 DEF BInv, BillOK
<1>8. bill' = [k \in Bills |-> bill'[k]]
    BY <1>2 DEF BInv, BillOK
<1> QED
    BY <1>6, <1>7, <1>8 DEF BInv, BillOK

\* Lines that are paid back to within half a paisa a time are so together.
LEMMA LinePaidAdds ==
    ASSUME NEW line, line.qty \in Nat \ {0}, ItemTotal(line) \in Nat,
           NEW a \in [qty : Nat, paise : Int, times : Nat], LinePaid(line, a),
           NEW c \in [qty : Nat, paise : Int, times : Nat], LinePaid(line, c)
    PROVE  LET more == [qty   |-> a.qty + c.qty,
                        paise |-> a.paise + c.paise,
                        times |-> a.times + c.times]
           IN  more \in [qty : Nat, paise : Int, times : Nat] /\ LinePaid(line, more)
<1> DEFINE v    == ItemTotal(line)
           sold == line.qty
<1>1. /\ 2 * (a.paise * sold - v * a.qty) <= a.times * sold
      /\ 2 * (v * a.qty - a.paise * sold) <= a.times * sold
      /\ 2 * (c.paise * sold - v * c.qty) <= c.times * sold
      /\ 2 * (v * c.qty - c.paise * sold) <= c.times * sold
    BY DEF LinePaid
<1>2. /\ sold \in Nat /\ v \in Nat
      /\ a.qty \in Nat /\ a.paise \in Int /\ a.times \in Nat
      /\ c.qty \in Nat /\ c.paise \in Int /\ c.times \in Nat
    OBVIOUS
<1> HIDE DEF v, sold
<1>3. /\ (a.paise + c.paise) * sold = a.paise * sold + c.paise * sold
      /\ v * (a.qty + c.qty) = v * a.qty + v * c.qty
      /\ (a.times + c.times) * sold = a.times * sold + c.times * sold
      /\ a.paise * sold \in Int /\ c.paise * sold \in Int /\ v * a.qty \in Int
      /\ v * c.qty \in Int /\ a.times * sold \in Int /\ c.times * sold \in Int
    BY <1>2, SMT
<1>4. /\ 2 * ((a.paise + c.paise) * sold - v * (a.qty + c.qty)) <= (a.times + c.times) * sold
      /\ 2 * (v * (a.qty + c.qty) - (a.paise + c.paise) * sold) <= (a.times + c.times) * sold
    BY <1>1, <1>2, <1>3, SMT
<1> QED
    BY <1>2, <1>4 DEF LinePaid, v, sold

LEMMA NamingsFinite == IsFiniteSet(Namings)
BY FS_Interval, QuantitiesAssumption DEF Namings

\* One naming is paid to within half a paisa, and so are all of a request.
LEMMA BroughtNear ==
    ASSUME NEW line, line.qty \in Nat \ {0}, ItemTotal(line) \in Nat,
           NEW parts \in [Namings -> Nat], NEW tie \in {0, 1}
    PROVE  LET more == Brought(line, parts, tie)
           IN  more \in [qty : Nat, paise : Int, times : Nat] /\ LinePaid(line, more)
<1> DEFINE paise == [i \in Namings |-> Refund(line, parts[i], tie)]
           times == [i \in Namings |-> IF parts[i] > 0 THEN 1 ELSE 0]
           Sums(T) == [qty   |-> SumFunctionOnSet(parts, T),
                       paise |-> SumFunctionOnSet(paise, T),
                       times |-> SumFunctionOnSet(times, T)]
           F == {T \in SUBSET Namings : LinePaid(line, Sums(T))}
<1>1. ASSUME NEW i \in Namings
      PROVE  LET one == [qty |-> parts[i], paise |-> paise[i], times |-> times[i]] IN
             one \in [qty : Nat, paise : Int, times : Nat] /\ LinePaid(line, one)
    <2>1. parts[i] \in Nat /\ paise[i] = Refund(line, parts[i], tie) /\ times[i] \in {0, 1}
        OBVIOUS
    <2>2. /\ paise[i] \in Int
          /\ 2 * (paise[i] * line.qty - ItemTotal(line) * parts[i]) <= line.qty
          /\ 2 * (ItemTotal(line) * parts[i] - paise[i] * line.qty) <= line.qty
        BY <2>1, RefundNear
    <2>3. CASE parts[i] > 0
        <3>1. times[i] = 1 /\ 1 * line.qty = line.qty
            BY <2>3
        <3> QED
            BY <2>1, <2>2, <3>1 DEF LinePaid
    <2>4. CASE parts[i] = 0
        <3>1. Refund(line, 0, tie) = 0
            BY RefundOfNothing
        <3> DEFINE one == [qty |-> parts[i], paise |-> paise[i], times |-> times[i]]
        <3>2. one.qty = 0 /\ one.paise = 0 /\ one.times = 0
            BY <2>1, <2>4, <3>1
        <3>3. one \in [qty : Nat, paise : Int, times : Nat]
            BY <2>1, <2>2
        <3> HIDE DEF one
        <3>4. 0 * line.qty = 0 /\ ItemTotal(line) * 0 = 0
            BY SMT
        <3>5. LinePaid(line, one)
            BY <3>2, <3>4 DEF LinePaid
        <3> QED
            BY <3>3, <3>5 DEF one
    <2> QED
        BY <2>1, <2>3, <2>4
<1>2. \A i \in Namings : parts[i] \in Nat /\ paise[i] \in Int /\ times[i] \in Nat
    BY <1>1
<1>3. DOMAIN parts = Namings /\ DOMAIN paise = Namings /\ DOMAIN times = Namings
    OBVIOUS
<1>4. Brought(line, parts, tie) = Sums(Namings)
    BY <1>3 DEF Brought, SumFunction
<1> HIDE DEF paise, times
<1>5. ASSUME NEW T \in SUBSET Namings
      PROVE  IsFiniteSet(T) /\ Sums(T) \in [qty : Nat, paise : Int, times : Nat]
    <2>1. IsFiniteSet(T)
        BY NamingsFinite, FS_Subset
    <2> QED
        BY <1>2, <2>1, SumNat, SumInt
<1>6. {} \in F
    <2>1. Sums({}).qty = 0 /\ Sums({}).paise = 0 /\ Sums({}).times = 0
        BY SumEmpty
    <2>2. 0 * line.qty = 0 /\ ItemTotal(line) * 0 = 0
        BY SMT
    <2> HIDE DEF Sums
    <2>3. LinePaid(line, Sums({}))
        BY <2>1, <2>2 DEF LinePaid
    <2> QED
        BY <2>3
<1>7. ASSUME NEW T \in SUBSET Namings, NEW i \in Namings \ T, T \in F
      PROVE  T \cup {i} \in F
    <2> DEFINE one == [qty |-> parts[i], paise |-> paise[i], times |-> times[i]]
    <2>1. /\ SumFunctionOnSet(parts, T \cup {i}) = parts[i] + SumFunctionOnSet(parts, T)
          /\ SumFunctionOnSet(paise, T \cup {i}) = paise[i] + SumFunctionOnSet(paise, T)
          /\ SumFunctionOnSet(times, T \cup {i}) = times[i] + SumFunctionOnSet(times, T)
        <3>1. /\ IsFiniteSet(T) /\ i \notin T
              /\ \A j \in T \cup {i} : parts[j] \in Int /\ paise[j] \in Int /\ times[j] \in Int
            BY <1>2, <1>5
        <3>2. SumFunctionOnSet(parts, T \cup {i}) = parts[i] + SumFunctionOnSet(parts, T)
            BY <3>1, SumAdd
        <3>3. SumFunctionOnSet(paise, T \cup {i}) = paise[i] + SumFunctionOnSet(paise, T)
            BY <3>1, SumAdd
        <3>4. SumFunctionOnSet(times, T \cup {i}) = times[i] + SumFunctionOnSet(times, T)
            BY <3>1, SumAdd
        <3> QED
            BY <3>2, <3>3, <3>4
    <2>2. Sums(T \cup {i}) = [qty   |-> one.qty + Sums(T).qty,
                              paise |-> one.paise + Sums(T).paise,
                              times |-> one.times + Sums(T).times]
        BY <2>1
    <2>3. /\ one \in [qty : Nat, paise : Int, times : Nat] /\ LinePaid(line, one)
          /\ Sums(T) \in [qty : Nat, paise : Int, times : Nat] /\ LinePaid(line, Sums(T))
        BY <1>1, <1>5, <1>7
    <2> HIDE DEF one, Sums
    <2>4. LinePaid(line, Sums(T \cup {i}))
        BY <2>2, <2>3, LinePaidAdds
    <2> QED
        BY <2>4
<1> HIDE DEF F
<1>8. Namings \in F
    BY <1>6, <1>7, NamingsFinite, SetInduction
<1> QED
    BY <1>4, <1>5, <1>8 DEF F

\* What is named once is held against what is left.
LEMMA OnceFits ==
    ASSUME NEW parts \in [Namings -> Nat], ~NamedTwice(parts), NEW left \in Int,
           \E i \in Namings : parts[i] > 0,
           \A i \in Namings : parts[i] > 0 => parts[i] <= left
    PROVE  SumFunction(parts) <= left
<1>1. PICK i \in Namings : parts[i] > 0
    OBVIOUS
<1>2. \A j \in Namings \ {i} : parts[j] = 0
    BY <1>1 DEF NamedTwice
<1>3. SumFunctionOnSet(parts, Namings) = parts[i] + SumFunctionOnSet(parts, Namings \ {i})
    BY NamingsFinite, SumTake
<1>4. SumFunctionOnSet(parts, Namings \ {i}) = 0
    BY <1>2, NamingsFinite, FS_Subset, SumZero
<1>5. DOMAIN parts = Namings
    OBVIOUS
<1>6. SumFunction(parts) = SumFunctionOnSet(parts, Namings)
    BY <1>5 DEF SumFunction
<1> QED
    BY <1>1, <1>3, <1>4, <1>6

\* What a return adds to the lines it is about, added up.
LEMMA PaiseGrow ==
    ASSUME NEW S, IsFiniteSet(S), NEW T \in SUBSET S, NEW old, NEW more, NEW refund,
           \A p \in S : old[p] \in Int /\ more[p] \in Int,
           \A p \in T : refund[p] \in Int /\ more[p] = old[p] + refund[p],
           \A p \in S \ T : more[p] = old[p]
    PROVE  SumFunctionOnSet(more, S) = SumFunctionOnSet(old, S) + SumFunctionOnSet(refund, T)
<1> DEFINE wide == [p \in S |-> IF p \in T THEN refund[p] ELSE 0]
<1>1. /\ \A p \in S : wide[p] \in Int /\ more[p] = old[p] + wide[p]
      /\ \A p \in T : wide[p] = refund[p]
      /\ \A p \in S \ T : wide[p] = 0
    OBVIOUS
<1> HIDE DEF wide
<1>2. SumFunctionOnSet(more, S) = SumFunctionOnSet(old, S) + SumFunctionOnSet(wide, S)
    BY <1>1, SumPlus
<1>3. SumFunctionOnSet(wide, S) = SumFunctionOnSet(wide, T)
    BY <1>1, SumOutside
<1>4. IsFiniteSet(T)
    BY FS_Subset
<1>5. SumFunctionOnSet(wide, T) = SumFunctionOnSet(refund, T)
    BY <1>1, <1>4, SumSame
<1> QED
    BY <1>2, <1>3, <1>5

\* What a return brings back of a line.
LEMMA ReturnParts ==
    ASSUME BInv, NEW b \in Bills, bill[b].state = "stored",
           NEW wanted \in [DOMAIN bill[b].cart -> [Namings -> Portions]], NEW tie \in {0, 1},
           NEW p \in DOMAIN bill[b].cart
    PROVE  LET line == bill[b].cart[p]
               more == Brought(line, wanted[p], tie)
           IN  /\ more \in [qty : Nat, paise : Int, times : Nat] /\ LinePaid(line, more)
               /\ wanted[p] \in [Namings -> Nat]
               /\ line.qty \in Nat \ {0} /\ ItemTotal(line) \in Nat
<1>1. bill[b].cart \in Carts
    BY DEF BInv, BillOK, StoredOK, CartOf
<1>2. bill[b].cart[p].qty \in Nat \ {0} /\ ItemTotal(bill[b].cart[p]) \in Nat
    BY <1>1, LineFacts
<1>3. wanted[p] \in [Namings -> Nat]
    <2>1. wanted[p] \in [Namings -> Portions] /\ Portions \subseteq Nat
        BY QuantitiesAssumption
    <2> QED
        BY <2>1
<1> QED
    BY <1>2, <1>3, BroughtNear

LEMMA ReturnKeepsStock ==
    ASSUME BInv, NEW b \in Bills, bill[b].state = "stored",
           NEW wanted \in [DOMAIN bill[b].cart -> [Namings -> Portions]], NEW tie \in {0, 1},
           NEW inCash \in BOOLEAN, Return(b, wanted, tie, inCash)
    PROVE  StockOK' /\ CostWithinPaid'
<1> DEFINE x       == bill[b]
           lines   == {p \in DOMAIN x.cart : \E i \in Namings : wanted[p][i] > 0}
           brought == [p \in lines |-> Brought(x.cart[p], wanted[p], tie)]
<1>1. /\ stock' = [p \in Products |->
            IF p \in lines THEN [stock[p] EXCEPT !.qty = stock[p].qty + brought[p].qty]
            ELSE stock[p]]
      /\ costs' = [p \in Products |->
            IF p \in lines THEN costs[p] \cup {stock[p].cost} ELSE costs[p]]
    BY DEF Return
<1>2. \A p \in lines : brought[p].qty \in Int
    BY ReturnParts
<1> HIDE DEF lines, brought
<1>3. ASSUME NEW k \in Products
      PROVE  /\ stock'[k] \in [qty : Int, cost : Nat] /\ costs'[k] \in SUBSET Nat
             /\ CostKept(costs'[k], stock'[k])
    <2>1. /\ stock[k] \in [qty : Int, cost : Nat] /\ costs[k] \in SUBSET Nat
          /\ CostKept(costs[k], stock[k])
        BY DEF BInv, StockOK, CostWithinPaid, CostKept
    <2>2. CASE k \in lines
        <3>1. stock[k].qty + brought[k].qty \in Int
            BY <1>2, <2>1, <2>2
        <3>2. /\ stock'[k] = [stock[k] EXCEPT !.qty = stock[k].qty + brought[k].qty]
              /\ costs'[k] = costs[k] \cup {stock[k].cost}
            BY <2>2, <1>1
        <3> QED
            BY <3>1, <3>2, <2>1, AtAverageKeeps
    <2>3. CASE k \notin lines
        BY <2>1, <2>3, <1>1
    <2> QED
        BY <2>2, <2>3
<1>4. StockOK'
    BY <1>1, <1>3 DEF StockOK
<1> QED
    BY <1>3, <1>4 DEF CostWithinPaid, CostKept

LEMMA ReturnKeepsBill ==
    ASSUME BInv, NEW b \in Bills, bill[b].state = "stored",
           NEW wanted \in [DOMAIN bill[b].cart -> [Namings -> Portions]], NEW tie \in {0, 1},
           NEW inCash \in BOOLEAN, Return(b, wanted, tie, inCash)
    PROVE  BillOK'
<1> DEFINE x       == bill[b]
           lines   == {p \in DOMAIN x.cart : \E i \in Namings : wanted[p][i] > 0}
           brought == [p \in lines |-> Brought(x.cart[p], wanted[p], tie)]
           back    == [p \in DOMAIN x.cart |->
                          IF p \in lines
                          THEN [qty   |-> x.back[p].qty + brought[p].qty,
                                paise |-> x.back[p].paise + brought[p].paise,
                                times |-> x.back[p].times + brought[p].times]
                          ELSE x.back[p]]
           twice   == x.twice \cup {p \in lines : NamedTwice(wanted[p])}
           refund  == [p \in lines |-> brought[p].paise]
           total   == SumFunction(refund)
<1>1. StoredOK(x) /\ CashOK(x) /\ x.state = "stored"
    BY DEF BInv, BillOK
<1>2. PICK cash : /\ bill' = [bill EXCEPT ![b].back = back, ![b].twice = twice,
                                          ![b].cash = cash]
                  /\ cash = x.cash + (IF inCash
                                      THEN total - (IF x.sale.credit < total THEN x.sale.credit
                                                    ELSE total)
                                      ELSE 0)
    <2> DEFINE maxCash == total - (IF x.sale.credit < total THEN x.sale.credit ELSE total)
               given   == IF inCash THEN maxCash ELSE 0
    <2>1. bill' = [bill EXCEPT ![b].back = back, ![b].twice = twice,
                              ![b].cash = x.cash + given]
        BY DEF Return
    <2> QED
        BY <2>1
<1>3. \A p \in lines, i \in Namings :
          wanted[p][i] > 0 => /\ wanted[p][i] <= x.cart[p].qty - x.back[p].qty
                             /\ Refund(x.cart[p], wanted[p][i], tie) >= 0
    BY DEF Return
<1>4. ASSUME NEW p \in DOMAIN x.cart
      PROVE  /\ back[p] \in [qty : Nat, paise : Int, times : Nat] /\ LinePaid(x.cart[p], back[p])
             /\ p \notin twice => back[p].qty <= x.cart[p].qty
    <2>1. /\ x.cart[p].qty \in Nat \ {0} /\ ItemTotal(x.cart[p]) \in Nat
          /\ x.back[p] \in [qty : Nat, paise : Int, times : Nat] /\ LinePaid(x.cart[p], x.back[p])
          /\ p \notin x.twice => x.back[p].qty <= x.cart[p].qty
        BY <1>1, StoredLine
    <2>2. CASE p \in lines
        <3>1. /\ brought[p] \in [qty : Nat, paise : Int, times : Nat]
              /\ LinePaid(x.cart[p], brought[p])
              /\ wanted[p] \in [Namings -> Nat]
              /\ brought[p].qty = SumFunction(wanted[p])
            <4>1. brought[p] = Brought(x.cart[p], wanted[p], tie)
                BY <2>2
            <4>2. /\ Brought(x.cart[p], wanted[p], tie) \in [qty : Nat, paise : Int, times : Nat]
                  /\ LinePaid(x.cart[p], Brought(x.cart[p], wanted[p], tie))
                  /\ wanted[p] \in [Namings -> Nat]
                BY ReturnParts
            <4>3. Brought(x.cart[p], wanted[p], tie).qty = SumFunction(wanted[p])
                BY DEF Brought
            <4> QED
                BY <4>1, <4>2, <4>3
        <3>2. p \notin twice => brought[p].qty <= x.cart[p].qty - x.back[p].qty
            <4> SUFFICES ASSUME p \notin twice
                         PROVE  brought[p].qty <= x.cart[p].qty - x.back[p].qty
                OBVIOUS
            <4> DEFINE left == x.cart[p].qty - x.back[p].qty
            <4>1. /\ ~NamedTwice(wanted[p]) /\ left \in Int
                  /\ \E i \in Namings : wanted[p][i] > 0
                  /\ \A i \in Namings : wanted[p][i] > 0 => wanted[p][i] <= left
                BY <1>3, <2>1, <2>2
            <4> HIDE DEF left
            <4>2. SumFunction(wanted[p]) <= left
                BY <3>1, <4>1, OnceFits
            <4> QED
                BY <3>1, <4>2 DEF left
        <3>3. back[p] = [qty   |-> x.back[p].qty + brought[p].qty,
                         paise |-> x.back[p].paise + brought[p].paise,
                         times |-> x.back[p].times + brought[p].times]
            BY <2>2
        <3> HIDE DEF brought, back, twice
        <3>4. back[p] \in [qty : Nat, paise : Int, times : Nat] /\ LinePaid(x.cart[p], back[p])
            BY <2>1, <3>1, <3>3, LinePaidAdds
        <3>5. p \notin twice => back[p].qty <= x.cart[p].qty
            BY <2>1, <3>1, <3>2, <3>3
        <3> QED
            BY <3>4, <3>5
    <2>3. CASE p \notin lines
        BY <2>1, <2>3
    <2> QED
        BY <2>2, <2>3
<1>5. \A p \in lines : refund[p] \in Int /\ refund[p] >= 0
    <2> SUFFICES ASSUME NEW p \in lines PROVE refund[p] \in Int /\ refund[p] >= 0
        OBVIOUS
    <2> DEFINE paise == [i \in Namings |-> Refund(x.cart[p], wanted[p][i], tie)]
    <2>1. /\ wanted[p] \in [Namings -> Nat]
          /\ x.cart[p].qty \in Nat \ {0} /\ ItemTotal(x.cart[p]) \in Nat
        BY <1>1, ReturnParts
    <2>2. \A i \in Namings : paise[i] \in Nat
        <3> SUFFICES ASSUME NEW i \in Namings PROVE Refund(x.cart[p], wanted[p][i], tie) \in Nat
            OBVIOUS
        <3>1. wanted[p][i] \in Nat
            BY <2>1
        <3>2. Refund(x.cart[p], wanted[p][i], tie) \in Int
            BY <2>1, <3>1, RefundNear
        <3>3. CASE wanted[p][i] > 0
            BY <1>3, <3>2, <3>3
        <3>4. CASE wanted[p][i] = 0
            BY <2>1, <3>1, <3>4, RefundOfNothing
        <3> QED
            BY <3>1, <3>3, <3>4
    <2>3. refund[p] = SumFunctionOnSet(paise, Namings)
        <3>1. DOMAIN paise = Namings /\ refund[p] = SumFunction(paise)
            BY DEF Brought
        <3> QED
            BY <3>1 DEF SumFunction
    <2> HIDE DEF paise, refund
    <2> QED
        BY <2>2, <2>3, NamingsFinite, SumNat
<1>6. \A p \in DOMAIN x.cart :
          back[p].paise = IF p \in lines THEN x.back[p].paise + refund[p] ELSE x.back[p].paise
    OBVIOUS
<1>7. DOMAIN back = DOMAIN x.cart /\ DOMAIN refund = lines /\ lines \subseteq DOMAIN x.cart
    OBVIOUS
<1> HIDE DEF lines, brought, back, twice, refund, total
<1>8. back \in [DOMAIN x.cart -> [qty : Nat, paise : Int, times : Nat]]
    BY <1>4 DEF back
<1>9. SumFunction(PaiseOf(back)) = SumFunction(PaiseOf(x.back)) + total
    <2> DEFINE S == DOMAIN x.cart
               old == PaiseOf(x.back)
               more == PaiseOf(back)
    <2>1. IsFiniteSet(S) /\ lines \in SUBSET S
        BY <1>1, <1>7, CartsAssumption DEF StoredOK, CartOf
    <2>2. /\ \A p \in S : old[p] \in Int /\ more[p] \in Int
          /\ \A p \in lines : refund[p] \in Int /\ more[p] = old[p] + refund[p]
          /\ \A p \in S \ lines : more[p] = old[p]
        BY <1>1, <1>8, <1>5, <1>6, <1>7 DEF StoredOK, PaiseOf
    <2>3. DOMAIN old = S /\ DOMAIN more = S
        BY <1>1, <1>7 DEF StoredOK, PaiseOf
    <2> HIDE DEF S, old, more
    <2>4. SumFunctionOnSet(more, S) = SumFunctionOnSet(old, S) + SumFunctionOnSet(refund, lines)
        BY <2>1, <2>2, PaiseGrow
    <2>5. SumFunction(more) = SumFunction(old) + total
        BY <1>7, <2>3, <2>4 DEF SumFunction, total
    <2> QED
        BY <2>5 DEF old, more
<1>10. \A p \in DOMAIN x.cart : back[p].paise >= 0
    <2> SUFFICES ASSUME NEW p \in DOMAIN x.cart PROVE back[p].paise >= 0
        OBVIOUS
    <2>1. x.back[p].paise \in Int /\ x.back[p].paise >= 0
        BY <1>1 DEF StoredOK, CashOK
    <2> QED
        BY <1>5, <1>6, <2>1
<1>11. /\ cash \in Nat
       /\ cash = 0 \/ cash + x.sale.credit <= SumFunction(PaiseOf(back))
    <2>1. IsFiniteSet(DOMAIN x.cart) /\ IsFiniteSet(lines)
        BY <1>1, <1>7, CartsAssumption, FS_Subset DEF StoredOK, CartOf
    <2>2. total \in Nat
        BY <1>5, <1>7, <2>1, SumNat DEF total, SumFunction
    <2>3. SumFunction(PaiseOf(x.back)) \in Nat
        <3>1. \A p \in DOMAIN x.cart : PaiseOf(x.back)[p] \in Nat
            BY <1>1 DEF StoredOK, CashOK, PaiseOf
        <3>2. DOMAIN PaiseOf(x.back) = DOMAIN x.cart
            BY <1>1 DEF StoredOK, PaiseOf
        <3> QED
            BY <2>1, <3>1, <3>2, SumNat DEF SumFunction
    <2>4. /\ x.sale.credit \in Nat /\ x.cash \in Nat
          /\ x.cash = 0 \/ x.cash + x.sale.credit <= SumFunction(PaiseOf(x.back))
        BY <1>1 DEF CashOK
    <2>5. cash = x.cash \/ (x.sale.credit < total /\ cash = x.cash + (total - x.sale.credit))
        BY <1>2, <2>2, <2>4
    <2> QED
        BY <1>9, <2>2, <2>3, <2>4, <2>5
<1>12. \A k \in Bills : k # b => bill'[k] = bill[k]
    BY <1>2 DEF BInv, BillOK
<1>13. bill'[b] = [bill[b] EXCEPT !.back = back, !.twice = twice, !.cash = cash]
    BY <1>2 DEF BInv, BillOK
<1>14. StoredOK(bill'[b]) /\ CashOK(bill'[b])
    <2>1. /\ bill'[b].cash = cash /\ bill'[b].paid = x.paid
          /\ bill'[b].cart = x.cart /\ bill'[b].with = x.with /\ bill'[b].by = x.by
          /\ bill'[b].sale = x.sale /\ bill'[b].printed = x.printed /\ bill'[b].back = back
          /\ bill'[b].twice = twice
        BY <1>13
    <2>2. StoredOK(bill'[b])
        BY <2>1, <1>1, <1>4, <1>8 DEF StoredOK, CartOf
    <2>3. CashOK(bill'[b])
        BY <2>1, <1>1, <1>10, <1>11 DEF CashOK
    <2> QED
        BY <2>2, <2>3
<1>15. bill' = [k \in Bills |-> bill'[k]] /\ bill'[b].state = "stored"
    <2>1. bill = [k \in Bills |-> bill[k]]
        BY DEF BInv, BillOK
    <2>2. bill' = [k \in Bills |-> bill'[k]]
        BY <2>1, <1>2
    <2>3. bill'[b].state = x.state
        BY <1>13
    <2> QED
        BY <1>1, <2>2, <2>3
<1> QED
    BY <1>12, <1>14, <1>15 DEF BInv, BillOK

-----------------------------------------------------------------------------
(* The invariant holds, and what follows from it.                          *)

LEMMA UnchangedKeeps ==
    /\ BInv /\ UNCHANGED <<stock, costs>> => StockOK' /\ CostWithinPaid'
    /\ BInv /\ UNCHANGED bill => BillOK'
    /\ BInv /\ UNCHANGED <<settings, known>> => SettingsOK'
BY DEF BInv, StockOK, CostWithinPaid, BillOK, SettingsOK

LEMMA NextKeeps == BInv /\ [Next]_vars => BInv'
<1> SUFFICES ASSUME BInv, [Next]_vars PROVE BInv'
    OBVIOUS
<1>1. ASSUME NEW policy \in RoundingPolicies, NEW startHour, ChangeSettings(policy, startHour) PROVE BInv'
    <2>1. SettingsOK'
        BY <1>1 DEF ChangeSettings, BInv, SettingsOK
    <2> QED
        BY <1>1, <2>1, UnchangedKeeps DEF ChangeSettings, BInv
<1>2. CASE LearnSettings
    <2>1. SettingsOK'
        BY <1>2 DEF LearnSettings, BInv, SettingsOK
    <2> QED
        BY <1>2, <2>1, UnchangedKeeps DEF LearnSettings, BInv
<1>3. ASSUME NEW p \in Products, NEW r \in Receipts, Receive(p, r) PROVE BInv'
    <2>1. UNCHANGED <<settings, known, bill>>
        BY <1>3 DEF Receive
    <2> QED
        BY <1>3, <2>1, ReceiveKeeps, UnchangedKeeps DEF BInv
<1>4. ASSUME NEW p \in Products, NEW r \in Receipts, ReceiveUnpriced(p, r) PROVE BInv'
    <2>1. UNCHANGED <<settings, known, bill>>
        BY <1>4 DEF ReceiveUnpriced
    <2> QED
        BY <1>4, <2>1, UnpricedKeeps, UnchangedKeeps DEF BInv
<1>5. ASSUME NEW b \in Bills, NEW cart \in Carts, NEW discount \in Discounts, NEW at,
             NEW customer \in BOOLEAN,
             NEW paid \in Tenders(BillTotals(cart, discount, known.policy).total),
             RingUp(b, cart, discount, at, paid, customer)
      PROVE  BInv'
    <2>1. UNCHANGED <<settings, known, stock, costs>>
        BY <1>5 DEF RingUp, Rung
    <2> QED
        BY <1>5, <2>1, RingUpKeeps, UnchangedKeeps DEF BInv
<1>6. ASSUME NEW b \in Bills, Refuse(b) PROVE BInv'
    <2>1. UNCHANGED <<settings, known, stock, costs>>
        BY <1>6 DEF Refuse
    <2> QED
        BY <1>6, <2>1, RefuseKeeps, UnchangedKeeps DEF BInv
<1>7. ASSUME NEW b \in Bills, Store(b) PROVE BInv'
    <2>1. UNCHANGED <<settings, known>>
        BY <1>7 DEF Store
    <2> QED
        BY <1>7, <2>1, StoreKeepsStock, StoreKeepsBill, UnchangedKeeps DEF BInv
<1>8. ASSUME NEW b \in Bills, bill[b].state = "stored",
             NEW wanted \in [DOMAIN bill[b].cart -> [Namings -> Portions]],
             NEW tie \in {0, 1}, NEW inCash \in BOOLEAN, Return(b, wanted, tie, inCash)
      PROVE  BInv'
    <2>1. UNCHANGED <<settings, known>>
        BY <1>8 DEF Return
    <2> QED
        BY <1>8, <2>1, ReturnKeepsStock, ReturnKeepsBill, UnchangedKeeps DEF BInv
<1>9. CASE UNCHANGED vars
    BY <1>9, UnchangedKeeps DEF vars, BInv
<1> QED
    BY <1>1, <1>2, <1>3, <1>4, <1>5, <1>6, <1>7, <1>8, <1>9 DEF Next

LEMMA BillInvariant == Spec => []BInv
BY InitBInv, NextKeeps, PTL DEF Spec

\* What the server stores is what the device printed as long as both knew the same settings, and
\* the stored lines add up to the stored subtotal (SalesService.create, recordSale).
THEOREM PaperStaysTrue == Spec => []StoredAsPrinted
<1>1. BInv => StoredAsPrinted
    BY DEF BInv, BillOK, StoredOK, ValuesOf, StoredAsPrinted, Stored
<1> QED
    BY <1>1, BillInvariant, PTL

\* In however many parts a line comes back, and however often one request names it, what was paid
\* for it is within half a paisa a time of the value of what came back; no more of it comes back
\* than was sold, unless a request named it twice (ReturnsService.resolveLines).
THEOREM LinesPayTheirGoods == Spec => []LineRefundsFollowTheGoods
<1>1. BInv => LineRefundsFollowTheGoods
    <2> SUFFICES ASSUME BInv, NEW b \in Stored, NEW p \in DOMAIN bill[b].cart
                 PROVE  LET sold == bill[b].cart[p].qty
                            gap  == 2 * (bill[b].back[p].paise * sold
                                         - ItemTotal(bill[b].cart[p]) * bill[b].back[p].qty)
                        IN  /\ p \notin bill[b].twice => bill[b].back[p].qty <= sold
                            /\ gap <= bill[b].back[p].times * sold
                            /\ -gap <= bill[b].back[p].times * sold
        BY DEF LineRefundsFollowTheGoods
    <2> DEFINE line == bill[b].cart[p]
               back == bill[b].back[p]
               due  == ItemTotal(line) * back.qty
               was  == back.paise * line.qty
    <2>1. StoredOK(bill[b])
        BY DEF BInv, BillOK, Stored
    <2>2. /\ line.qty \in Nat /\ ItemTotal(line) \in Nat
          /\ back \in [qty : Nat, paise : Int, times : Nat] /\ LinePaid(line, back)
          /\ p \notin bill[b].twice => back.qty <= line.qty
        BY <2>1, StoredLine
    <2>3. due \in Int /\ was \in Int
        BY <2>2, SMT
    <2>4. -(2 * (was - due)) = 2 * (due - was)
        BY <2>3, SMT
    <2> QED
        BY <2>2, <2>4 DEF LinePaid
<1> QED
    BY <1>1, BillInvariant, PTL

\* The average cost of a product is never below the lowest nor above the highest cost its goods
\* came in at, whatever stock went below zero in between (applyInboundCost and its callers).
THEOREM CostStaysWithinPaid == Spec => []CostWithinPaid
<1>1. BInv => CostWithinPaid
    BY DEF BInv
<1> QED
    BY <1>1, BillInvariant, PTL

\* A bill computed twice under the same settings is refused only for a walk-in who paid all of it,
\* when rounding made it cheaper than its exact sum (the payment rule of the schema, recordSale).
THEOREM PrintedBillsAreStored == Spec => []PrintedIsStored
<1>1. BInv => StoredAsPrinted
    BY DEF BInv, BillOK, StoredOK, ValuesOf, StoredAsPrinted, Stored
<1>2. BInv => PrintedIsStored
    BY <1>1 DEF BInv, BillOK, RefusedOK, PrintedIsStored
<1> QED
    BY <1>2, BillInvariant, PTL

\* A line pays at most its value and half a paisa a time.
LEMMA LinePaysItsValue ==
    ASSUME NEW line, line.qty \in Nat \ {0}, ItemTotal(line) \in Nat,
           NEW back \in [qty : Nat, paise : Int, times : Nat], LinePaid(line, back),
           back.qty <= line.qty
    PROVE  2 * back.paise <= 2 * ItemTotal(line) + back.times
<1> DEFINE v == ItemTotal(line)
           sold == line.qty
           p == back.paise
           t == back.times
           q == back.qty
<1>1. /\ q <= sold /\ 2 * (p * sold - v * q) <= t * sold
      /\ v \in Nat /\ sold \in Nat \ {0} /\ p \in Int /\ t \in Nat /\ q \in Nat
    BY DEF LinePaid
<1> HIDE DEF v, sold, p, t, q
<1>2. v * q <= v * sold
    BY <1>1, TimesMonotone
<1>3. /\ p * sold \in Int /\ v * q \in Int /\ v * sold \in Int /\ t * sold \in Int
      /\ sold * (2 * v + t) = 2 * (v * sold) + t * sold
      /\ sold * (2 * v + t + 1) = sold * (2 * v + t) + sold
    BY <1>1, SMT
<1>4. ASSUME 2 * p > 2 * v + t PROVE FALSE
    <2>1. PICK d \in Nat : 2 * p = (2 * v + t + 1) + d
        <3>1. 2 * p - (2 * v + t + 1) \in Nat
            BY <1>1, <1>4
        <3> QED
            BY <3>1, <1>1
    <2>2. sold * (2 * p) = 2 * (p * sold)
        BY <1>1, SMT
    <2>3. sold * (2 * v + t + 1) <= sold * (2 * p)
        <3> DEFINE m == 2 * v + t + 1
                   n == 2 * p
        <3>1. m \in Nat /\ n \in Nat /\ m <= n
            BY <1>1, <2>1
        <3> HIDE DEF m, n
        <3>2. sold * m <= sold * n
            BY <1>1, <3>1, TimesMonotone
        <3> QED
            BY <3>2 DEF m, n
    <2>4. 2 * (p * sold) <= 2 * (v * sold) + t * sold
        BY <1>1, <1>2, <1>3
    <2> QED
        BY <1>1, <1>3, <2>2, <2>3, <2>4
<1>5. 2 * p <= 2 * v + t
    BY <1>1, <1>4
<1> QED
    BY <1>5 DEF v, p, t

\* So what a bill with no line named twice paid back is within the value of its lines and the
\* half paise.
LEMMA BackWithinValue ==
    ASSUME NEW x, StoredOK(x), CashOK(x), x.twice = {}
    PROVE  /\ SumFunction(TimesOf(x.back)) \in Nat
           /\ SumFunction(PaiseOf(x.back)) \in Int
           /\ SumFunction(ValuesOf(x.cart)) \in Int
           /\ 2 * SumFunction(PaiseOf(x.back))
                  <= 2 * SumFunction(ValuesOf(x.cart)) + SumFunction(TimesOf(x.back))
<1> DEFINE S == DOMAIN x.cart
           paise == PaiseOf(x.back)
           value == ValuesOf(x.cart)
           times == TimesOf(x.back)
           twice == [p \in S |-> paise[p] + paise[p]]
           worth == [p \in S |-> value[p] + value[p]]
           most  == [p \in S |-> worth[p] + times[p]]
<1>1. IsFiniteSet(S)
    BY CartsAssumption DEF StoredOK, CartOf
<1>2. ASSUME NEW p \in S
      PROVE  /\ x.cart[p].qty \in Nat \ {0} /\ ItemTotal(x.cart[p]) \in Nat
             /\ x.back[p] \in [qty : Nat, paise : Int, times : Nat]
             /\ LinePaid(x.cart[p], x.back[p]) /\ x.back[p].qty <= x.cart[p].qty
    BY StoredLine
<1>3. DOMAIN paise = S /\ DOMAIN value = S /\ DOMAIN times = S
    BY DEF StoredOK, PaiseOf, ValuesOf, TimesOf
<1>4. ASSUME NEW p \in S
      PROVE  /\ paise[p] = x.back[p].paise /\ value[p] = ItemTotal(x.cart[p])
             /\ times[p] = x.back[p].times
    BY DEF StoredOK, PaiseOf, ValuesOf, TimesOf
<1>5. ASSUME NEW p \in S
      PROVE  /\ paise[p] \in Int /\ value[p] \in Nat /\ times[p] \in Nat
             /\ 2 * paise[p] <= 2 * value[p] + times[p]
    BY <1>2, <1>4, LinePaysItsValue
<1> HIDE DEF S, paise, value, times
<1>6. /\ SumFunctionOnSet(paise, S) \in Int /\ SumFunctionOnSet(value, S) \in Int
      /\ SumFunctionOnSet(times, S) \in Nat
    BY <1>1, <1>5, SumInt, SumNat
<1>7. \A p \in S : /\ twice[p] = paise[p] + paise[p] /\ worth[p] = value[p] + value[p]
                   /\ most[p] = worth[p] + times[p]
    OBVIOUS
<1> HIDE DEF twice, worth, most
<1>8. \A p \in S : /\ twice[p] \in Int /\ worth[p] \in Int /\ most[p] \in Int
                   /\ twice[p] <= most[p]
    BY <1>5, <1>7
<1>9. SumFunctionOnSet(twice, S) = SumFunctionOnSet(paise, S) + SumFunctionOnSet(paise, S)
    BY <1>1, <1>5, <1>7, SumPlus
<1>10. SumFunctionOnSet(worth, S) = SumFunctionOnSet(value, S) + SumFunctionOnSet(value, S)
    BY <1>1, <1>5, <1>7, SumPlus
<1>11. SumFunctionOnSet(most, S) = SumFunctionOnSet(worth, S) + SumFunctionOnSet(times, S)
    BY <1>1, <1>5, <1>7, <1>8, SumPlus
<1>12. SumFunctionOnSet(twice, S) <= SumFunctionOnSet(most, S)
    BY <1>1, <1>8, SumMono
<1>13. /\ SumFunction(paise) = SumFunctionOnSet(paise, S)
       /\ SumFunction(value) = SumFunctionOnSet(value, S)
       /\ SumFunction(times) = SumFunctionOnSet(times, S)
    BY <1>3 DEF SumFunction
<1>14. 2 * SumFunction(paise) <= 2 * SumFunction(value) + SumFunction(times)
    BY <1>6, <1>9, <1>10, <1>11, <1>12, <1>13
<1> QED
    BY <1>6, <1>13, <1>14 DEF paise, value, times

\* The cash handed out for a bill none of whose lines a request named twice is at most what was
\* paid and what the discount and the rounding took off it, to half a paisa a time
\* (ReturnsService.create, the cash it may give).
THEOREM RefundsStayWithinBill == Spec => []RefundsWithinBill
<1>1. ASSUME BInv, NEW b \in Stored, bill[b].twice = {}
      PROVE  LET x     == bill[b]
                 spare == x.paid + (x.sale.subtotal - x.sale.total)
                 times == SumFunction([p \in DOMAIN x.cart |-> x.back[p].times])
             IN  2 * x.cash <= 2 * (IF spare < 0 THEN 0 ELSE spare) + times
    <2> DEFINE x     == bill[b]
               spare == x.paid + (x.sale.subtotal - x.sale.total)
               times == SumFunction(TimesOf(x.back))
               paise == SumFunction(PaiseOf(x.back))
               value == SumFunction(ValuesOf(x.cart))
               cash  == x.cash
               due   == x.sale.credit
    <2>1. StoredOK(x) /\ CashOK(x) /\ x.twice = {}
        BY <1>1 DEF BInv, BillOK, Stored
    <2>2. times \in Nat /\ paise \in Int /\ value \in Int /\ 2 * paise <= 2 * value + times
        BY <2>1, BackWithinValue
    <2>3. /\ cash \in Nat /\ due \in Int /\ due >= 0
          /\ cash = 0 \/ cash + due <= paise
          /\ spare = value - due
        <3>1. /\ x.paid \in Int /\ x.sale.total \in Int /\ x.sale.subtotal = value
              /\ due = x.sale.total - x.paid
            BY <2>1 DEF StoredOK, CashOK
        <3>2. cash \in Nat /\ due >= 0 /\ (cash = 0 \/ cash + due <= paise)
            BY <2>1 DEF CashOK
        <3> QED
            BY <3>1, <3>2, <2>2
    <2>4. times = SumFunction([p \in DOMAIN x.cart |-> x.back[p].times])
        BY <2>1 DEF StoredOK, TimesOf
    <2> HIDE DEF times, paise, value, cash, due, spare
    <2>5. 2 * cash <= 2 * (IF spare < 0 THEN 0 ELSE spare) + times
        BY <2>2, <2>3
    <2> QED
        BY <2>4, <2>5 DEF cash, spare
<1>2. BInv => \A b \in Stored :
          LET x     == bill[b]
              spare == x.paid + (x.sale.subtotal - x.sale.total)
              times == SumFunction([p \in DOMAIN x.cart |-> x.back[p].times])
          IN  x.twice = {} => 2 * x.cash <= 2 * (IF spare < 0 THEN 0 ELSE spare) + times
    BY <1>1
<1>3. Spec => []BInv /\ []LineRefundsFollowTheGoods
    BY BillInvariant, LinesPayTheirGoods
<1>4. BInv /\ LineRefundsFollowTheGoods => RefundsWithinBill
    BY <1>2 DEF RefundsWithinBill
<1> QED
    BY <1>3, <1>4, PTL
=============================================================================
