SPECIFICATION Spec
CONSTANTS
  Procs = {p1, p2, p3}
  InitProc = p1
  NoPage = 0
  NPages = 13
  Pages <- MCPages
  BootOrder <- MCOrder
  Image <- TextData
  Val = {0, 1}
  NV = 3
  PTSpan = 1
  MaxOps = 2
SYMMETRY Symmetry
INVARIANTS RefCount FreePagesUnused SingleOwner NoPanic
PROPERTY FrozenWithoutOwner
CHECK_DEADLOCK FALSE
