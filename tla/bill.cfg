SPECIFICATION Spec
CONSTANTS
  Bills = {b1}
  Products = {"p1", "p2"}
  Carts <- MCCarts
  Discounts = {0, 20}
  StartHours = {0, 4}
  Times = {26}
  Portions = {0, 1000, 1500}
  MaxNamed = 2
  Receipts <- MCReceipts
  MaxEvents = 3
INVARIANTS PrintedIsStored RefundsWithinBill CostWithinPaid
