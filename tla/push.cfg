SPECIFICATION FairSpec
CONSTANTS
  N = 5
  Kind <- ShopKind
  Entity <- ShopEntity
  Bare <- NoneBare
  Stocked = {}
  Handlers = {h1}
  NoHandler = none
  BatchLimit = 3
  OneAtATime = TRUE
  MaxToggles = 2
  MaxFaults = 2
INVARIANTS TypeOK SettledIsDecided
PROPERTIES DecidedOnce OutboxDrains
CHECK_DEADLOCK FALSE
