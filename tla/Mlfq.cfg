SPECIFICATION Spec
CONSTANTS
  NPROC = 2
  Cpus = {0, 1}
  NoCpu = none
  MaxTicks = 0
  Last = 2
  AGE = 3
INVARIANT LevelsInRange
CHECK_DEADLOCK FALSE
