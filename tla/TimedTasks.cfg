SPECIFICATION Spec
CONSTANTS
  Cells = {c1, c2}
  NoCell = NoCell
  TableSize = 3
  Main = main
  Schedulers = {main, worker}
  Cancellers = {main}
  MaxTasks = 4
INVARIANTS TableInv OneEventPerTask
PROPERTIES NoCallAfterCancel TasksRunTheirCourse
CHECK_DEADLOCK FALSE
