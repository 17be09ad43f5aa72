SPECIFICATION Spec
CONSTANTS
  NULL = NULL
  Frames = {f1, f2}
  Fds = {s1, s2}
  MaxConns = 3
  MaxThreads = 2
  Processors = 1
  Faults = {"throw"}
SYMMETRY FrameFdSymmetry
INVARIANTS
  ReplyToOwner
CHECK_DEADLOCK FALSE
