SPECIFICATION Spec
CONSTANTS
  Procs = {p1, p2}
  InitProc = p1
  NoPage = 0
  NPages = 18
  Pages <- MCPages
  BootOrder <- MCOrder
  Image <- TextData
  Val = {0, 1}
  NV = 3
  PTSpan = 3
  MaxOps = 1
PROPERTY ForkIsolation
CHECK_DEADLOCK FALSE
