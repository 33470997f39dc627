SPECIFICATION Spec
CONSTANTS
  checker = checker
  main = main
  none = none
  w1 = w1
  op1 = op1
  Checker = checker
  Main = main
  NoThread = none
  Operators = {op1}
  Workers = {w1}
  Accelerated = TRUE
  HotCycles = 1
  CoolCycles = 2
  MaxRows = 2
  MaxCrashes = 0
INVARIANT
  NoMutexCycle
CHECK_DEADLOCK FALSE
