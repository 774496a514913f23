SPECIFICATION FairSpec
CONSTANTS
  Procs = {p1, p2}
  InitProc = p1
  Blocks = {b1, b2, b3}
  NoBlock = nb
  Val = {0, 1}
  Zero = 0
  NoVal = nv
  MAXOPBLOCKS = 2
  LOGSIZE = 4
  LogArea = 4
  OpBlocks = 1
INVARIANT NoPanic
PROPERTIES Atomic WakesUp
