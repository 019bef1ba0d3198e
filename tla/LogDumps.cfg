SPECIFICATION LogsSpec
CONSTANTS
  Capacity = 4
  Writers = {"worker"}
  MayClear = FALSE
  MaxAppends = 5
  PageSize = 2
INVARIANTS LogsTypeOK OnlyOldestTorn CountFits PageDumpTrue PersistLineHeld
CHECK_DEADLOCK FALSE
