SPECIFICATION Spec
CONSTANTS
  Procs = {p1, p2}
  NFILE = 2
  NOFILE = 2
  Pipes = {g1}
  NoPipe = nopipe
  Val = {0, 1}
  PIPESIZE = 2
  W = 2
  Counts = {2}
INVARIANTS RefsCounted EndsOpen NoLostWakeup
PROPERTIES IsFifo
SYMMETRY Symmetry
CHECK_DEADLOCK FALSE
