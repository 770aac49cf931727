SPECIFICATION Spec
CONSTANTS
  N = 3
  Kind <- RaceKind
  Entity <- RaceEntity
  Bare <- RaceBare
  Stocked <- Stock
  Handlers = {h1, h2}
  NoHandler = none
  BatchLimit = 2
  OneAtATime = FALSE
  MaxToggles = 2
  MaxFaults = 3
SYMMETRY AllHandlers
INVARIANTS CreatesOnce RecordIsTrue
CHECK_DEADLOCK FALSE
