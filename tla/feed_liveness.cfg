SPECIFICATION FairSpec
CONSTANTS
  Devices = {d1}
  Entities <- OneKind
  DatasetEntities <- OneKind
  PageLimit = 1
  Retention = 1
  TxnTimeout = 1
  CursorlessPull = TRUE
  KeepsBackups = FALSE
  MaxXid = 2
  MaxRows = 3
  MaxTime = 1
PROPERTY BacklogDrains
CHECK_DEADLOCK FALSE
