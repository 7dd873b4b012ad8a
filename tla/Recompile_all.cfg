CONSTANTS
  Length = 4
  Functions <- ShortFunctions
  PageSize = 16
SPECIFICATION Spec
INVARIANTS TypeOK SameResult InPlace
PROPERTIES ScanEnds
CHECK_DEADLOCK FALSE
