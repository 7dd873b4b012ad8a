CONSTANTS
  Tasks = {0, 10, 20}
  LogTask = 0
  Blocks <- TwoBlocks
  Null = Null
  QSize = 2
  Programs = {"mm1", "mm2", "mq1", "sm1", "sm2"}
  Texts = 3
  TaskStk = TaskStk
SPECIFICATION Spec
INVARIANTS TypeOK BlocksConserved TextKept LogNeverWaits FileExclusive
CHECK_DEADLOCK FALSE
