SPECIFICATION Spec
CONSTANTS
  Callers = {p1, p2, p3}
  NoCaller = np
  Bufs = {1, 2}
  NBUF = 2
  NoBuf = nbuf
  Blocks = {k1, k2, k3}
  Written = {k1}
  NoBlock = nb
  Val = {0, 1}
  Zero = 0
  Disks <- MCDisks
  NoReq = nr
  NUM = 6
  Sizes = {4, 6}
  MaxPins = 1
INVARIANTS DescsOwned BufferHeld NoLostWakeup RefsCounted AssertionsHold
PROPERTIES OneCopy
SYMMETRY Symmetry
CHECK_DEADLOCK FALSE
