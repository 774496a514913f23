SPECIFICATION FairSpec
CONSTANTS
  NPROC = 3
  Cpus = {0, 1}
  Cpu0 = 0
  Calls <- Family
  KillPids = {2}
  MaxPid = 3
  MaxTicks = 1
INVARIANTS StackInUse ParentAlive NoLostWakeup
PROPERTY OrphansReaped
