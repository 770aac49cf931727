SPECIFICATION Spec
CONSTANTS
  Devices = {d1}
  Entities <- OneKind
  DatasetEntities <- OneKind
  PageLimit = 1
  Retention = 4
  TxnTimeout = 1
  CursorlessPull = TRUE
  KeepsBackups = TRUE
  MaxXid = 2
  MaxRows = 2
  MaxTime = 6
INVARIANTS TypeOK SkippedInTwoWays DrainedCursorIsRetained
CHECK_DEADLOCK FALSE
