SPECIFICATION Spec
CONSTANTS
  Devices = {d1, d2}
  Sizes <- SmallSizes
  Requests = {r1, r2}
  NoRequest = none
  Tellers = {t1, t2}
  NoTeller = nobody
  Web = web
  MaxLeases = 2
  MaxBills = 2
SYMMETRY Alike
INVARIANTS TypeOK LeasesDisjoint OneLiveLease DevicesPrintOnce NumbersRise WebNumbersFresh
CHECK_DEADLOCK FALSE
