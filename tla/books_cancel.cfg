SPECIFICATION Spec
CONSTANTS
  ProductCount = 2
  Sales <- TwoSales
  Collections = {c1, c2}
  Requests = {r1, r2}
  NoRequest = none
  Sold <- Lines
  Paid <- Tender
  Credit <- TheRest
  Amount <- Twos
  Corrections = {1}
  MaxNamed = 2
  MaxRequests = 3
SYMMETRY Alike
INVARIANT CancelledOnce
CHECK_DEADLOCK FALSE
