SPECIFICATION Spec
CONSTANTS
  na = na
  nb = nb
  Procs = {p1, p2}
  NoProc = np
  NInodes = 4
  Blocks = {1, 2, 3, 4}
  EPB = 3
  Calls <- MCCalls
  Images <- MCImages
  MaxCrashes = 1
  MaxCalls = 3
INVARIANTS RefsCounted CopiesAgree BlocksOwned NoDangling LinksCounted NoDeadlock NoPanic
SYMMETRY Symmetry
CHECK_DEADLOCK FALSE
