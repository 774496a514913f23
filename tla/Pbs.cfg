SPECIFICATION Spec
CONSTANTS
  NPROC = 2
  Cpus = {c0}
  NoCpu = nc
  MaxTicks = 2
  Priorities = {60, 100}
  MaxCalled = 2
INVARIANT LocksRight
CHECK_DEADLOCK FALSE
