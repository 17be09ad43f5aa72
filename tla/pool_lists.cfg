SPECIFICATION Spec
CONSTANTS
  NULL = NULL
  Frames = {f1, f2, f3}
  Fds = {s1, s2}
  MaxConns = 3
  MaxThreads = 2
  Processors = 1
  Faults = {"eof", "stuck", "early", "throw", "gone", "exit"}
SYMMETRY FrameFdSymmetry
INVARIANTS
  TypeOK
  ListsWellFormed
  FrameOwnership
  FirstComeFirstServed
  BusyCountExact
CHECK_DEADLOCK FALSE
