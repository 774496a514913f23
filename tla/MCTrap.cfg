SPECIFICATION Spec
CONSTANTS
  Procs = {p1, p2}
  Cpus = {c1, c2}
  Nobody = nobody
  Causes = {"syscall", "fault", "timer"}
  MaxLocks = 2
  Pcs = 2
INVARIANTS NoPanic ResumesRight MyprocRight InterruptsOff
SYMMETRY Symmetry
