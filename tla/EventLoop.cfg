SPECIFICATION Spec
CONSTANTS
  Conns = {a, b}
  Delays = {0, 1}
  FileSteps = 2
  DefaultIdle = 1
  MaxIdle = 1
  MaxNow = 1
  MaxConnects = 2
  MaxData = 1
  MaxFaults = 1
INVARIANTS LoopInv SleepsOnlyIdle
PROPERTIES CallbacksInOrder EveryoneIsServed DestroyEnds
CHECK_DEADLOCK FALSE
