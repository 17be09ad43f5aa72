SPECIFICATION Spec
CONSTANTS
  NULL = NULL
  Frames = {f1, f2}
  Fds = {s1, s2}
  MaxConns = 2
  MaxThreads = 2
  Processors = 2
  Faults = {"eof", "stuck", "early", "gone", "exit"}
INVARIANTS
  ReplyToOwner
  DescriptorsHeld
PROPERTIES
  ImplementsService
  ConnectionSettled
  ExitHonoured
CHECK_DEADLOCK FALSE
