CONSTANTS
  Capacity = 2
  Writers = {"kernel", "worker"}
  MayClear = TRUE
  MaxAppends = 5
SPECIFICATION Spec
INVARIANTS TypeOK CleanAppendsShown CleanSeqConsecutive CountBounded
CHECK_DEADLOCK FALSE
