SPECIFICATION Spec
CONSTANTS
  Devices = {d1}
  Entities <- OneKind
  DatasetEntities <- OneKind
  PageLimit = 1
  Retention = 1
  TxnTimeout = 1
  CursorlessPull = FALSE
  KeepsBackups = FALSE
  MaxXid = 2
  MaxRows = 3
  MaxTime = 1
INVARIANT NothingSkipped
CHECK_DEADLOCK FALSE
